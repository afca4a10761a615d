------------------------------ MODULE MCServer ------------------------------
(***************************************************************************)
(* The daemon with one client at a time, the operator and two or three     *)
(* configuration files.                                                    *)
(***************************************************************************)
EXTENDS Server

MCMachine == {[cpu |-> 50, memory |-> 50, gpus |-> <<>>, disks |-> {20}]}
MCFailures == {{}}

\* Debug endpoints behind the main authentication, and a low threshold;
\* debug endpoints behind a token; debug endpoints nobody could use.
Guarded == [kind |-> "yaml", set |-> [auth |-> TRUE, user |-> "ops", password |-> "fox",
                                      debug |-> TRUE, gpu |-> 60, limited |-> TRUE]]
Tokened == [kind |-> "yaml", set |-> [debug |-> TRUE, token |-> "key"]]
Invalid == [kind |-> "yaml", set |-> [debug |-> TRUE]]
MCFiles == {Guarded, Tokened, Invalid}
MCEdits == [f \in MCFiles |-> CASE f = Guarded -> {Invalid}
                                [] f = Invalid -> {Guarded}
                                [] f = Tokened -> {}]

Anyone == [kind |-> "none"]
Ops == [kind |-> "basic", user |-> "ops", password |-> "fox"]
Key == [kind |-> "bearer", token |-> "key"]

RunBuild == [kind |-> "run", cred |-> Ops, decodes |-> TRUE, complex |-> TRUE]
RunGarbled == [kind |-> "run", cred |-> Anyone, decodes |-> FALSE, complex |-> FALSE]
Probe == [kind |-> "ready", cred |-> Anyone, decodes |-> TRUE]
Debug(cred, index) ==
    [kind |-> "inject", cred |-> cred, decodes |-> TRUE, metrics |-> [index |-> index, gpu |-> 70]]

MCCommands == [c \in Clients |-> {RunBuild, RunGarbled, Probe, Debug(Ops, 0), Debug(Anyone, 0), Debug(Key, -1)}]
=============================================================================
