------------------------------- MODULE Config -------------------------------
(***************************************************************************)
(* The configuration (internal/config): what a file may set, what Validate *)
(* accepts, and what Load and LoadOrDefault return.  One field for each    *)
(* setting that a check reads or that the server uses; percentages are     *)
(* whole numbers, durations in the unit of the file.                       *)
(*                                                                         *)
(* A file is [kind |-> "missing"], [kind |-> "broken"] (not YAML, or of    *)
(* the wrong types) or [kind |-> "yaml", set |-> r], where r has the       *)
(* fields that the file sets, environment variables substituted.           *)
(***************************************************************************)
EXTENDS Integers

Default ==
    [port |-> 9329, limited |-> FALSE, burst |-> 200, profiling |-> FALSE,
     auth |-> FALSE, user |-> "", password |-> "",
     cpu |-> 80, memory |-> 85, gpu |-> 90, vram |-> 85, minFree |-> 10,
     interval |-> 1000, dataDir |-> "/var/lib/capfox", flush |-> 600,
     level |-> "info", format |-> "json", model |-> "moving_average", delay |-> 5,
     debug |-> FALSE, token |-> ""]

\* Unmarshal overwrites the defaults with what the file sets.
Parsed(set) == [f \in DOMAIN Default |-> IF f \in DOMAIN set THEN set[f] ELSE Default[f]]
-----------------------------------------------------------------------------
(* Validate.                                                               *)

ServerValid(c) == c.port \in 1..65535

ThresholdsValid(c) ==
    /\ {c.cpu, c.memory, c.gpu, c.vram} \subseteq 0..100
    /\ c.minFree >= 0

MonitoringValid(c) == c.interval >= 100

PersistenceValid(c) == c.dataDir # "" /\ c.flush >= 1

LoggingValid(c) ==
    /\ c.level \in {"debug", "info", "warn", "error"}
    /\ c.format \in {"json", "text"}

LearningValid(c) ==
    /\ c.model \in {"moving_average", "linear_regression"}
    /\ c.delay >= 1

AuthValid(c) == c.auth => c.user # "" /\ c.password # ""

\* Debug or profiling needs the main authentication or a token of its own.
DebugSecurityValid(c) == c.debug \/ c.profiling => c.auth \/ c.token # ""

Valid(c) ==
    /\ ServerValid(c) /\ ThresholdsValid(c) /\ MonitoringValid(c)
    /\ PersistenceValid(c) /\ LoggingValid(c) /\ LearningValid(c)
    /\ AuthValid(c) /\ DebugSecurityValid(c)
-----------------------------------------------------------------------------
(* Load and LoadOrDefault.                                                 *)

LoadFails(file) == file.kind # "yaml" \/ ~Valid(Parsed(file.set))

LoadUnvalidated(file) == IF file.kind = "yaml" THEN Parsed(file.set) ELSE Default
\* Any error of Load, a failed validation among them, gives the defaults.
LoadOrDefault(file) == IF LoadFails(file) THEN Default ELSE Parsed(file.set)
=============================================================================
