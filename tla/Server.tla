------------------------------- MODULE Server -------------------------------
(***************************************************************************)
(* The running daemon as its clients and its operator see it: requests go  *)
(* through the middleware chain to their handlers (internal/server), an    *)
(* Ask compares a reading of the aggregator with the thresholds            *)
(* (internal/capacity), SIGHUP makes a goroutine load the configuration    *)
(* file and replace the settings one after the other (cli/start.go), and   *)
(* "capfox run" asks before it executes a command (cli/run.go).            *)
(*                                                                         *)
(* What the shutdown saves, and that the process may die under it, is in   *)
(* Daemon; here the process lives until its goroutines have returned.      *)
(***************************************************************************)
EXTENDS Aggregator, Config, Thresholds

CONSTANTS
    Files,          \* configuration files
    Edits,          \* Edits[f]: what the operator may make of the file f
    Clients,
    Commands        \* Commands[c]: what the client c may do, again and again

ASSUME ServerAssumption ==
    /\ MaxTime \in Nat \ {0}
    /\ \A c \in Clients : \A command \in Commands[c] : command.kind # "none"
    /\ \A f \in Files : f.kind \in {"missing", "broken", "yaml"}
    /\ Edits \in [Files -> SUBSET Files]

VARIABLES
    booted,         \* the configuration that runStart read
    auth, thresholds, config,   \* settings in force
    file,
    sighup,         \* the channel holds a SIGHUP
    reloader,       \* "select", "load", "auth", "lock", "thresholds",
                    \* "config", "exited"
    newCfg,         \* what it loaded; Default between two reloads
    shut,           \* "none", "draining", "ended"
    cmd, pc,        \* per client: its command, and where it is in it: "idle",
                    \* "asking", "notifying"
    req,            \* per client: its request
    unsignalled     \* history: the file was edited after the last SIGHUP

settings == <<auth, thresholds, config>>
operatorVars == <<file, unsignalled>>
reloadVars == <<reloader, newCfg>>
clientVars == <<cmd, pc>>
vars == <<aggVars, booted, settings, operatorVars, sighup, reloadVars, shut, clientVars, req>>

AuthOf(c) == [enabled |-> c.auth, user |-> c.user, password |-> c.password]
ThresholdsOf(c) ==
    [cpu |-> c.cpu, memory |-> c.memory, gpu |-> c.gpu, vram |-> c.vram, minFree |-> c.minFree]

NoCommand == [kind |-> "none"]
NoRequest == [op |-> "none", step |-> "none", status |-> 0, seen |-> Zero, fits |-> FALSE]

Init ==
    /\ AggInit
    /\ file \in Files
    /\ booted = LoadOrDefault(file)
    /\ auth = AuthOf(booted) /\ thresholds = ThresholdsOf(booted) /\ config = booted
    /\ unsignalled = FALSE /\ sighup = FALSE
    /\ reloader = "select" /\ newCfg = Default
    /\ shut = "none"
    /\ cmd = [c \in Clients |-> NoCommand]
    /\ pc = [c \in Clients |-> "idle"]
    /\ req = [c \in Clients |-> NoRequest]
-----------------------------------------------------------------------------
(* The decisions of the code.                                              *)

NoRoom == reloader = "select"
\* signal.Notify drops a signal that the channel, of one place, has no room for.
RoomInChannel == TRUE

AfterFirstReload == "exited"
\* The reload goroutine goes back to its select.
AfterReload == "select"

NobodyAsks == TRUE
\* UpdateThresholds waits for the Asks that hold the manager's lock.
ManagerFree == \A c \in Clients : req[c].step # "check"

\* RWMutex.Lock lets no new reader in while it waits.
ManagerReadable == reloader # "thresholds"

DebugOpen(r) == TRUE
\* DebugAuth when neither a token nor the main authentication is configured.
DebugUnconfigured(r) == FALSE

\* An Authorization header that checkBearerToken or BasicAuth accepts.
BearerMatches(cred, token) == cred.kind = "bearer" /\ cred.token = token
BasicMatches(cred, a) == cred.kind = "basic" /\ cred.user = a.user /\ cred.password = a.password

\* Paths that New excludes from the main authentication.
Excluded(op) ==
    \/ op = "ready"
    \/ op = "inject" /\ booted.token # "" /\ (booted.debug \/ booted.profiling)
-----------------------------------------------------------------------------
(* A request.  Its steps are "auth", "debug", "handle", "check" (an Ask    *)
(* that holds the manager's lock and has read the state) and "replied"; a  *)
(* status of 0 stands for an unreachable server.                           *)

Listening == loop \notin {"start", "first"} /\ shut = "none"

\* The token bucket of rate.Limiter may be empty whenever it is in use.
LimiterAllows == IF booted.limited THEN BOOLEAN ELSE {TRUE}

\* The client sends a request: Recovery, SecurityHeaders, RateLimit, MaxBody
\* and Logging let it through or turn it away.
Send(c, op) ==
    \E allowed \in LimiterAllows :
        req' = [req EXCEPT ![c] = [NoRequest EXCEPT
                  !.op = op,
                  !.step = IF Listening /\ allowed THEN "auth" ELSE "replied",
                  !.status = IF Listening /\ ~allowed THEN 429 ELSE 0]]

At_(c, step) == req[c].step = step
Goes(c, step) == req' = [req EXCEPT ![c].step = step]
Replies(c, status) == req' = [req EXCEPT ![c].step = "replied", ![c].status = status]

serverUnchanged == <<booted, settings, operatorVars, sighup, reloadVars, shut, clientVars>>

\* Auth reads a snapshot of the settings; the mux comes after it, where without
\* debug only "GET /" matches the path of an injection.
Authorise(c) ==
    /\ At_(c, "auth")
    /\ LET op == req[c].op IN
       IF auth.enabled /\ ~Excluded(op) /\ ~BasicMatches(cmd[c].cred, auth) THEN Replies(c, 401)
       ELSE IF op = "inject" /\ ~booted.debug THEN Replies(c, 405)
       ELSE Goes(c, IF op = "inject" THEN "debug" ELSE "handle")
    /\ UNCHANGED <<aggVars, serverUnchanged>>

\* DebugAuth reads the settings again.
DebugAuthorise(c) ==
    /\ At_(c, "debug")
    /\ LET cred == cmd[c].cred IN
       IF booted.token # ""
       THEN IF BearerMatches(cred, booted.token) THEN Goes(c, "handle") ELSE Replies(c, 403)
       ELSE IF auth.enabled
       THEN IF BasicMatches(cred, auth) THEN Goes(c, "handle") ELSE Replies(c, 401)
       ELSE IF DebugUnconfigured(req[c]) THEN Goes(c, "handle") ELSE Replies(c, 403)
    /\ UNCHANGED <<aggVars, serverUnchanged>>

Handling(c, op) == At_(c, "handle") /\ req[c].op = op

\* A body that does not decode, or names no task.
HandleBadBody(c) ==
    /\ At_(c, "handle") /\ req[c].op # "ready" /\ ~cmd[c].decodes
    /\ Replies(c, 400)
    /\ UNCHANGED <<aggVars, serverUnchanged>>

HandleReady(c) ==
    /\ Handling(c, "ready")
    /\ Replies(c, IF ready THEN 200 ELSE 503)
    /\ UNCHANGED <<aggVars, serverUnchanged>>

\* NotifyTaskStart, which is in LearningEngine, has no result.
HandleTaskStart(c) ==
    /\ Handling(c, "notify") /\ cmd[c].decodes
    /\ Replies(c, 200)
    /\ UNCHANGED <<aggVars, serverUnchanged>>

HandleInjectMetrics(c) ==
    /\ Handling(c, "inject") /\ cmd[c].decodes
    /\ IF InjectRefused(cmd[c].metrics)
       THEN Replies(c, 400) /\ UNCHANGED aggVars
       ELSE Replies(c, 200) /\ Inject(cmd[c].metrics)
    /\ UNCHANGED serverUnchanged

\* handleAsk: Ask takes the manager's lock and reads the state,
AskRead(c) ==
    /\ Handling(c, "ask") /\ cmd[c].decodes
    /\ ManagerReadable
    /\ req' = [req EXCEPT ![c].step = "check",
                           ![c].seen = [m \in DOMAIN Zero |-> state[m]],
                           ![c].fits = (Check(state, thresholds) = {})]
    /\ UNCHANGED <<aggVars, serverUnchanged>>

\* and compares it with the thresholds before it lets the lock go.
AskCheck(c) ==
    /\ At_(c, "check")
    /\ req' = [req EXCEPT ![c].step = "replied",
                           ![c].status = IF Check(req[c].seen, thresholds) = {} THEN 200 ELSE 503,
                           ![c].seen = Zero]
    /\ UNCHANGED <<aggVars, serverUnchanged>>
-----------------------------------------------------------------------------
(* The clients.                                                            *)

clientsUnchanged == <<aggVars, booted, settings, operatorVars, sighup, reloadVars, shut>>

\* The request that a command begins with.
FirstRequest(command) == IF command.kind = "run" THEN "ask" ELSE command.kind

Begin(c) ==
    /\ pc[c] = "idle"
    /\ \E command \in Commands[c] :
        /\ cmd' = [cmd EXCEPT ![c] = command]
        /\ Send(c, FirstRequest(command))
    /\ pc' = [pc EXCEPT ![c] = "asking"]
    /\ UNCHANGED clientsUnchanged

Answered(c, where) == pc[c] = where /\ At_(c, "replied")

\* The reply to an ask is JSON: what http.Error writes is not.
Verdict(c) == req[c].op = "ask" /\ req[c].status \in {200, 503}
Denied(c) == Verdict(c) /\ req[c].status = 503

Ends(c) ==
    /\ cmd' = [cmd EXCEPT ![c] = NoCommand]
    /\ pc' = [pc EXCEPT ![c] = "idle"]
    /\ req' = [req EXCEPT ![c] = NoRequest]
    /\ UNCHANGED <<clientsUnchanged>>

IsRun(c) == cmd[c].kind = "run"

\* Exit code 75: the command is not executed.
RunDenied(c) == Answered(c, "asking") /\ IsRun(c) /\ Denied(c) /\ Ends(c)

\* The notification goes out before the command is started.
RunNotifies(c) ==
    /\ Answered(c, "asking") /\ IsRun(c)
    /\ Verdict(c) /\ ~Denied(c) /\ cmd[c].complex
    /\ Send(c, "notify")
    /\ pc' = [pc EXCEPT ![c] = "notifying"]
    /\ UNCHANGED <<clientsUnchanged, cmd>>

\* Allowed and announced, or no verdict to be had: the command is executed.
RunExecutes(c) ==
    /\ \/ Answered(c, "asking") /\ IsRun(c) /\ ~Denied(c) /\ (Verdict(c) => ~cmd[c].complex)
       \/ Answered(c, "notifying")
    /\ Ends(c)

\* The other commands end with the reply.
OtherEnds(c) == Answered(c, "asking") /\ ~IsRun(c) /\ Ends(c)
-----------------------------------------------------------------------------
(* The operator and the signal goroutines.                                 *)

Edit ==
    /\ file' \in Edits[file]
    /\ unsignalled' = TRUE
    /\ UNCHANGED <<aggVars, booted, settings, sighup, reloadVars, shut, clientVars, req>>

Sighup ==
    /\ shut = "none"
    /\ sighup' = (sighup \/ RoomInChannel)
    /\ unsignalled' = FALSE
    /\ UNCHANGED <<aggVars, booted, settings, file, reloadVars, shut, clientVars, req>>

reloadUnchanged == <<aggVars, booted, operatorVars, shut, clientVars, req>>

ReloadTakes ==
    /\ reloader = "select" /\ sighup
    /\ sighup' = FALSE
    /\ reloader' = "load"
    /\ UNCHANGED <<reloadUnchanged, settings, newCfg>>

\* LoadOrDefault; what it returns passes Validate, so nothing is aborted.
ReloadLoads ==
    /\ reloader = "load"
    /\ newCfg' = LoadOrDefault(file)
    /\ reloader' = IF Valid(newCfg') THEN "auth" ELSE "select"
    /\ UNCHANGED <<reloadUnchanged, settings, sighup>>

\* auth.Update;
ReloadAuth ==
    /\ reloader = "auth"
    /\ auth' = AuthOf(newCfg)
    /\ reloader' = "lock"
    /\ UNCHANGED <<reloadUnchanged, thresholds, config, sighup, newCfg>>

\* UpdateThresholds of the manager calls Lock, from where no Ask gets in,
ReloadLocks ==
    /\ reloader = "lock"
    /\ reloader' = "thresholds"
    /\ UNCHANGED <<reloadUnchanged, settings, sighup, newCfg>>

\* and has it when the readers are gone.
ReloadThresholds ==
    /\ reloader = "thresholds"
    /\ ManagerFree
    /\ thresholds' = ThresholdsOf(newCfg)
    /\ reloader' = "config"
    /\ UNCHANGED <<reloadUnchanged, auth, config, sighup, newCfg>>

ReloadConfig ==
    /\ reloader = "config"
    /\ config' = newCfg
    /\ newCfg' = Default
    /\ reloader' = AfterReload
    /\ UNCHANGED <<reloadUnchanged, auth, thresholds, sighup>>

ReloaderExits ==
    /\ reloader = "select" /\ shut # "none"
    /\ reloader' = "exited"
    /\ UNCHANGED <<reloadUnchanged, settings, sighup, newCfg>>

ShutMoves(from, to) ==
    /\ shut = from
    /\ shut' = to
    /\ UNCHANGED <<booted, settings, operatorVars, sighup, reloadVars, clientVars, req>>

\* SIGINT or SIGTERM: signal.Stop, close(shutdownDone), and srv.Shutdown,
\* which closes the listener
ShutBegins == Listening /\ ShutMoves("none", "draining") /\ UNCHANGED aggVars

\* and returns when the requests are answered, or at its timeout.  What comes
\* next is in Daemon; it ends with agg.Stop and cancel.
ShutAggregator == ShutMoves("draining", "ended") /\ AggregatorStop
-----------------------------------------------------------------------------
restUnchanged == <<booted, settings, operatorVars, sighup, reloadVars, shut, clientVars, req>>

AggregatorWorks == (StartCollect \/ Store) /\ UNCHANGED restUnchanged
AggregatorEnds == LoopReturns /\ UNCHANGED restUnchanged
AggregatorTicks == TickCollect /\ UNCHANGED restUnchanged

HandlerStep(c) ==
    \/ Authorise(c) \/ DebugAuthorise(c) \/ HandleBadBody(c) \/ HandleReady(c)
    \/ HandleTaskStart(c) \/ HandleInjectMetrics(c) \/ AskRead(c) \/ AskCheck(c)

ClientStep(c) ==
    \/ Begin(c) \/ RunDenied(c) \/ RunNotifies(c) \/ RunExecutes(c) \/ OtherEnds(c)

ReloaderStep ==
    \/ ReloadTakes \/ ReloadLoads \/ ReloadAuth \/ ReloadLocks
    \/ ReloadThresholds \/ ReloadConfig \/ ReloaderExits

Next ==
    \/ AggregatorWorks \/ AggregatorEnds \/ AggregatorTicks
    \/ \E c \in Clients : HandlerStep(c) \/ ClientStep(c)
    \/ Edit \/ Sighup \/ ReloaderStep
    \/ ShutBegins \/ ShutAggregator

Spec == Init /\ [][Next]_vars

(***************************************************************************)
(* Goroutines that can run do, and srv.Shutdown returns at its timeout at  *)
(* the latest.  The loop of the aggregator may find a tick due each time   *)
(* it selects; a select with several cases ready takes each of them sooner *)
(* or later, hence strong fairness for its end.  Clients, clock and        *)
(* operator owe nothing.                                                   *)
(***************************************************************************)
Fairness ==
    /\ WF_vars(AggregatorWorks)
    /\ SF_vars(AggregatorEnds)
    /\ WF_vars(ReloaderStep)
    /\ WF_vars(ShutAggregator)
    /\ \A c \in Clients : WF_vars(HandlerStep(c))

FairSpec == Spec /\ Fairness
-----------------------------------------------------------------------------
(* Properties.                                                             *)

\* The settings in force are those of files that passed validation, and every
\* variable keeps its range.
TypeOK ==
    /\ now \in 1..MaxTime /\ state.at \in 0..now
    /\ \A s \in building : s.at \in 1..now
    /\ Valid(booted) /\ Valid(config) /\ Valid(newCfg)
    /\ auth \in {AuthOf(LoadOrDefault(f)) : f \in Files}
    /\ thresholds \in {ThresholdsOf(LoadOrDefault(f)) : f \in Files}
    /\ file \in Files
    /\ reloader \in {"select", "load", "auth", "lock", "thresholds", "config", "exited"}
    /\ shut \in {"none", "draining", "ended"}
    /\ \A c \in Clients : pc[c] = "idle" <=> cmd[c] = NoCommand

\* When no SIGHUP is on its way and the reload goroutine is idle, all three
\* settings are those of the file, unless it was edited after the last SIGHUP:
\* a signal that finds the channel full, or a reload under way, loses nothing.
ReloadNotLost ==
    (~sighup /\ reloader = "select" /\ ~unsignalled /\ shut = "none")
    => LET c == LoadOrDefault(file)
       IN  auth = AuthOf(c) /\ thresholds = ThresholdsOf(c) /\ config = c

\* The verdict of an Ask is that of one moment: the reading and the thresholds
\* it compares were current together, however long it takes between the two
\* and whatever the reload does meanwhile.
OneMoment ==
    \A c \in Clients : Verdict(c) =>
        (req[c].status = 200 <=> req[c].fits)

\* No sequence of reloads lets a debug request through without the token of
\* the start or the user and password of a configuration with authentication.
DebugNeverOpen ==
    \A c \in Clients : (req[c].op = "inject" /\ req[c].status = 200) =>
        \/ booted.token # "" /\ BearerMatches(cmd[c].cred, booted.token)
        \/ \E f \in Files : LET a == AuthOf(LoadOrDefault(f))
                            IN  a.enabled /\ BasicMatches(cmd[c].cred, a)

\* The state that is served gets older only when a collect that began before an
\* injection is stored after it: no reading replaces a later reading.
BackOnlyOverInjection ==
    [][state'.at < state.at => state.injected /\ building # {}]_vars

\* A SIGHUP puts the file in force, unless the file is edited again or the
\* daemon is told to stop; and a daemon told to stop ends both its loops,
\* whatever they are doing.
SignalsTakeEffect ==
    (sighup \/ shut # "none")
    ~> IF shut = "none" THEN unsignalled \/ config = LoadOrDefault(file)
       ELSE loop = "returned" /\ reloader = "exited"

\* cli-commands.md:281, "The server validates the new config before applying":
\* a file that cannot be loaded ends the reload.  (The code puts the defaults
\* in force.)
InvalidConfigNotApplied ==
    [][(reloader = "load" /\ reloader' # "load" /\ LoadFails(file)) => reloader' = "select"]_vars
=============================================================================
