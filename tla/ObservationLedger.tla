------------------------- MODULE ObservationLedger -------------------------
(***************************************************************************)
(* What the learning engine promises about the notifications it is given,  *)
(* with no worker, semaphore, task ID or WaitGroup in sight: a             *)
(* notification accepted while the engine is open is measured at most      *)
(* once; one that is being measured when the engine closes is still fed to *)
(* the model; the others are dropped; and once the engine is sealed (Stop  *)
(* has returned) no notification changes its fate.  An open engine may     *)
(* lose a notification only by accepting another one in its place.         *)
(***************************************************************************)

CONSTANTS Calls

VARIABLES
    status,     \* the fate of each notification
    phase       \* "open", "closed" (no more accepted), "sealed"

ledgerVars == <<status, phase>>

Fates == {"new", "refused", "accepted", "measuring", "observed", "lost"}

Init ==
    /\ status = [c \in Calls |-> "new"]
    /\ phase = "open"

\* Accept c, possibly displacing a notification accepted earlier.
Accept(c) ==
    /\ phase = "open"
    /\ status[c] = "new"
    /\ \/ status' = [status EXCEPT ![c] = "accepted"]
       \/ \E d \in Calls :
             /\ status[d] = "accepted"
             /\ status' = [status EXCEPT ![c] = "accepted", ![d] = "lost"]
    /\ UNCHANGED phase

Refuse(c) ==
    /\ phase # "open"
    /\ status[c] = "new"
    /\ status' = [status EXCEPT ![c] = "refused"]
    /\ UNCHANGED phase

Measure(c) ==
    /\ phase = "open"
    /\ status[c] = "accepted"
    /\ status' = [status EXCEPT ![c] = "measuring"]
    /\ UNCHANGED phase

Observe(c) ==
    /\ phase # "sealed"
    /\ status[c] = "measuring"
    /\ status' = [status EXCEPT ![c] = "observed"]
    /\ UNCHANGED phase

\* Closing drops everything accepted and not yet being measured.
Close ==
    /\ phase = "open"
    /\ phase' = "closed"
    /\ status' = [c \in Calls |-> IF status[c] = "accepted" THEN "lost" ELSE status[c]]

Seal ==
    /\ phase = "closed"
    /\ \A c \in Calls : status[c] # "measuring"
    /\ phase' = "sealed"
    /\ UNCHANGED status

Next ==
    \/ \E c \in Calls : Accept(c) \/ Refuse(c) \/ Measure(c) \/ Observe(c)
    \/ Close
    \/ Seal

Spec == Init /\ [][Next]_ledgerVars
=============================================================================
