----------------------------- MODULE Thresholds -----------------------------
(***************************************************************************)
(* The comparison of a reading of the system with the configured limits,   *)
(* in percent and gigabytes: internal/capacity/thresholds.go, which the    *)
(* Asks of the server use, and in the same form the threshold strategy of  *)
(* internal/decision/strategy.                                             *)
(***************************************************************************)
EXTENDS Integers

\* Check: the reasons to deny.  The loop over the GPUs stops at the first that
\* is over a threshold, the usage being looked at before the memory.
Check(s, t) ==
    LET over == {i \in DOMAIN s.gpus : s.gpus[i].usage > t.gpu \/ s.gpus[i].vram > t.vram}
        first == s.gpus[CHOOSE i \in over : \A j \in over : i <= j]
    IN  {r \in {"cpu_overload"} : s.cpu > t.cpu}
        \cup {r \in {"memory_overload"} : s.memory > t.memory}
        \cup {r \in {"gpu_overload"} : over # {} /\ first.usage > t.gpu}
        \cup {r \in {"vram_overload"} : over # {} /\ first.usage <= t.gpu}
        \cup {r \in {"storage_low"} : \E free \in s.disks : free < t.minFree}
=============================================================================
