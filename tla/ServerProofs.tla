---------------------------- MODULE ServerProofs ----------------------------
(***************************************************************************)
(* What holds of the running daemon for any number of clients, whatever    *)
(* they ask for, any configuration files and edits of them, and any        *)
(* machine.                                                                *)
(***************************************************************************)
EXTENDS Server, TLAPS

\* As much of the type invariant as the argument needs.
Shapes ==
    /\ DOMAIN req = Clients /\ DOMAIN cmd = Clients
    /\ \A c \in Clients : DOMAIN req[c] = {"op", "step", "status", "seen", "fits"}
    /\ file \in Files

\* An Ask that holds the lock compares with the thresholds it would have been
\* compared with when it read the state; no request has a status before its reply.
Verdicts ==
    \A c \in Clients :
        /\ req[c].step # "replied" => req[c].status = 0
        /\ req[c].step = "check" =>
               req[c].op = "ask" /\ (req[c].fits <=> Check(req[c].seen, thresholds) = {})
        /\ Verdict(c) => (req[c].status = 200 <=> req[c].fits)

\* Whom DebugAuth may have let through.
LetThrough(cred) ==
    \/ booted.token # "" /\ BearerMatches(cred, booted.token)
    \/ \E f \in Files : LET a == AuthOf(LoadOrDefault(f))
                        IN  a.enabled /\ BasicMatches(cred, a)

\* Debug requests in the hands of their handler have passed DebugAuth, which
\* knows no authentication but that of a file.
Debugs ==
    /\ \E f \in Files : auth = AuthOf(LoadOrDefault(f))
    /\ reloader = "auth" => \E f \in Files : newCfg = LoadOrDefault(f)
    /\ \A c \in Clients :
           (req[c].op = "inject" /\ (req[c].step = "handle" \/ req[c].status = 200))
           => LetThrough(cmd[c].cred)

\* How far a reload has come, unless the file is edited or another one is due.
Reloads ==
    (~sighup /\ ~unsignalled /\ shut = "none") =>
        LET c == LoadOrDefault(file) IN
        /\ reloader \in {"select", "load", "auth", "lock", "thresholds", "config"}
        /\ reloader \in {"auth", "lock", "thresholds", "config"} => newCfg = c
        /\ reloader \in {"select", "lock", "thresholds", "config"} => auth = AuthOf(c)
        /\ reloader \in {"select", "config"} => thresholds = ThresholdsOf(c)
        /\ reloader = "select" => config = c

SInv == Shapes /\ Verdicts /\ Debugs /\ Reloads
-----------------------------------------------------------------------------
\* The defaults pass Validate.
LEMMA DefaultIsValid == Valid(Default)
  BY DEF Valid, Default, ServerValid, ThresholdsValid, MonitoringValid, PersistenceValid,
         LoggingValid, LearningValid, AuthValid, DebugSecurityValid

\* LoadOrDefault returns nothing that Validate refuses.
LEMMA LoadedIsValid == ASSUME NEW f PROVE Valid(LoadOrDefault(f))
  BY DefaultIsValid DEF LoadOrDefault, LoadFails

\* Check reads four parts of a state.
LEMMA CheckReads ==
    ASSUME NEW s, NEW u, NEW t,
           s.cpu = u.cpu, s.memory = u.memory, s.gpus = u.gpus, s.disks = u.disks
    PROVE  Check(s, t) = Check(u, t)
  BY DEF Check

\* The initial state satisfies the invariant.
LEMMA InitSInv == Init => SInv
  <1> SUFFICES ASSUME Init PROVE SInv
    OBVIOUS
  <1>1. Shapes
    BY DEF Init, Shapes, NoRequest
  <1>2. Verdicts
    BY DEF Init, Verdicts, Verdict, NoRequest
  <1>3. Debugs
    BY DEF Init, Debugs, NoRequest
  <1>4. Reloads
    BY DEF Init, Reloads
  <1>5. QED
    BY <1>1, <1>2, <1>3, <1>4 DEF SInv
-----------------------------------------------------------------------------
(* The steps of a client's request, and the others, which leave requests   *)
(* and commands alone.                                                     *)

Quiet == req' = req /\ cmd' = cmd

Asks == \E c \in Clients : HandlerStep(c) \/ ClientStep(c)

\* Everything but a request leaves requests and commands alone.
LEMMA OtherStepsAreQuiet == [Next]_vars /\ ~Asks => Quiet /\ booted' = booted
  BY DEF Next, Asks, Quiet, vars, clientVars, AggregatorWorks, AggregatorEnds, AggregatorTicks,
         restUnchanged, Edit, Sighup, ReloaderStep, reloadUnchanged, ReloadTakes, ReloadLoads,
         ReloadAuth, ReloadLocks, ReloadThresholds, ReloadConfig, ReloaderExits, ShutBegins, ShutAggregator,
         ShutMoves

\* A request or a command changes no setting and nothing of a reload.
LEMMA AsksChangeNoSetting ==
    Asks => UNCHANGED <<booted, settings, operatorVars, sighup, reloadVars, shut>>
  <1> DEFINE kept == UNCHANGED <<booted, settings, operatorVars, sighup, reloadVars, shut>>
  <1>1. ASSUME NEW c \in Clients, HandlerStep(c) PROVE kept
    <2>1. UNCHANGED serverUnchanged
      BY <1>1 DEF HandlerStep, Authorise, DebugAuthorise, HandleBadBody, HandleReady,
         HandleTaskStart, HandleInjectMetrics, AskRead, AskCheck
    <2>2. QED
      BY <2>1 DEF serverUnchanged
  <1>2. ASSUME NEW c \in Clients, ClientStep(c) PROVE kept
    <2>1. UNCHANGED clientsUnchanged
      BY <1>2 DEF ClientStep, Begin, RunDenied, RunNotifies, RunExecutes, OtherEnds, Ends
    <2>2. QED
      BY <2>1 DEF clientsUnchanged
  <1>3. QED
    BY <1>1, <1>2 DEF Asks
-----------------------------------------------------------------------------
(* One lemma for each conjunct of the invariant.                           *)

\* The file stays one of Files.
LEMMA FileStays == Shapes /\ [Next]_vars => file' \in Files
  <1> SUFFICES ASSUME Shapes, [Next]_vars PROVE file' \in Files
    OBVIOUS
  <1>1. CASE Asks
    BY <1>1, AsksChangeNoSetting DEF Shapes, operatorVars
  <1>2. CASE ~Asks /\ ~Edit
    BY <1>2 DEF Shapes, Next, Asks, vars, operatorVars, AggregatorWorks, AggregatorEnds,
            AggregatorTicks, restUnchanged, Sighup, ReloaderStep, reloadUnchanged, ReloadTakes,
            ReloadLoads, ReloadAuth, ReloadLocks, ReloadThresholds, ReloadConfig, ReloaderExits, ShutBegins,
            ShutAggregator, ShutMoves
  <1>3. CASE Edit
    BY <1>3, ServerAssumption DEF Shapes, Edit, ServerAssumption
  <1>4. QED
    BY <1>1, <1>2, <1>3

Fields == {"op", "step", "status", "seen", "fits"}

\* The request of c alone may have changed, and has its fields.
Alone(c) ==
    /\ DOMAIN req' = Clients /\ DOMAIN cmd' = Clients
    /\ \A d \in Clients \ {c} : req'[d] = req[d] /\ cmd'[d] = cmd[d]
    /\ DOMAIN req'[c] = Fields

\* What a handler that moves on changes.
LEMMA GoesDoes ==
    ASSUME Shapes, NEW c \in Clients, NEW step, Goes(c, step), cmd' = cmd
    PROVE  /\ Alone(c)
           /\ req'[c].step = step /\ req'[c].op = req[c].op
           /\ req'[c].status = req[c].status /\ req'[c].fits = req[c].fits
  BY DEF Shapes, Fields, Goes, Alone

\* What a handler that replies changes.
LEMMA RepliesDoes ==
    ASSUME Shapes, NEW c \in Clients, NEW status, Replies(c, status), cmd' = cmd
    PROVE  /\ Alone(c)
           /\ req'[c].step = "replied" /\ req'[c].op = req[c].op
           /\ req'[c].status = status /\ req'[c].fits = req[c].fits
  BY DEF Shapes, Fields, Replies, Alone

\* What the first half of an Ask changes.
LEMMA AskReadDoes ==
    ASSUME Shapes, NEW c \in Clients, AskRead(c)
    PROVE  /\ Alone(c) /\ cmd' = cmd
           /\ req[c].step = "handle" /\ req'[c].step = "check"
           /\ req[c].op = "ask" /\ req'[c].op = "ask"
           /\ req'[c].status = req[c].status
           /\ Check(req'[c].seen, thresholds) = Check(state, thresholds)
           /\ req'[c].fits <=> Check(state, thresholds) = {}
  <1>1. cmd' = cmd /\ At_(c, "handle") /\ req[c].op = "ask"
    BY DEF AskRead, Handling, serverUnchanged, clientVars
  <1>2. PICK seen, fits :
            /\ seen = [m \in DOMAIN Zero |-> state[m]]
            /\ fits = (Check(state, thresholds) = {})
            /\ req' = [req EXCEPT ![c].step = "check", ![c].seen = seen, ![c].fits = fits]
    BY DEF AskRead
  <1>3. req' = [req EXCEPT ![c].step = "check", ![c].seen = seen, ![c].fits = fits]
    BY <1>2
  <1>4. Alone(c) /\ req'[c].step = "check" /\ req'[c].seen = seen /\ req'[c].fits = fits
    BY <1>1, <1>3 DEF Shapes, Fields, Alone
  <1>5. req'[c].op = req[c].op /\ req'[c].status = req[c].status
    BY <1>3 DEF Shapes
  <1>6. seen.cpu = state.cpu /\ seen.memory = state.memory /\ seen.gpus = state.gpus
        /\ seen.disks = state.disks
    <2>1. seen = [m \in {"cpu", "memory", "gpus", "disks"} |-> state[m]]
      BY <1>2 DEF Zero
    <2>2. QED
      BY <2>1
  <1>7. Check(seen, thresholds) = Check(state, thresholds)
    BY <1>6, CheckReads
  <1>8. req'[c].fits <=> Check(state, thresholds) = {}
    BY <1>2, <1>4, Zenon
  <1>9. QED
    BY <1>1, <1>4, <1>5, <1>7, <1>8, Zenon DEF At_

\* What the second half changes.
LEMMA AskCheckDoes ==
    ASSUME Shapes, NEW c \in Clients, AskCheck(c)
    PROVE  /\ Alone(c) /\ cmd' = cmd
           /\ req[c].step = "check" /\ req'[c].step = "replied"
           /\ req'[c].op = req[c].op /\ req'[c].fits = req[c].fits
           /\ req'[c].status = IF Check(req[c].seen, thresholds) = {} THEN 200 ELSE 503
  <1>1. cmd' = cmd /\ At_(c, "check")
    BY DEF AskCheck, serverUnchanged, clientVars
  <1>2. PICK status, zero :
            /\ status = IF Check(req[c].seen, thresholds) = {} THEN 200 ELSE 503
            /\ req' = [req EXCEPT ![c].step = "replied", ![c].status = status, ![c].seen = zero]
    BY DEF AskCheck
  <1>3. req' = [req EXCEPT ![c].step = "replied", ![c].status = status, ![c].seen = zero]
    BY <1>2
  <1>4. Alone(c) /\ req'[c].step = "replied" /\ req'[c].status = status
    BY <1>1, <1>3 DEF Shapes, Fields, Alone
  <1>5. req'[c].op = req[c].op /\ req'[c].fits = req[c].fits
    BY <1>3 DEF Shapes
  <1>6. QED
    BY <1>1, <1>2, <1>4, <1>5 DEF At_

\* What DebugAuth asks of a request.
Passes(cred) ==
    \/ booted.token # "" /\ BearerMatches(cred, booted.token)
    \/ auth.enabled /\ BasicMatches(cred, auth)

\* A handler moves on, replies, or is in an Ask.
LEMMA HandlerForms ==
    ASSUME NEW c \in Clients, HandlerStep(c)
    PROVE  /\ cmd' = cmd
           /\ \/ \E step \in {"debug", "handle"} :
                     Goes(c, step) /\ req[c].step = "auth" /\ (req[c].op = "inject" => step = "debug")
              \/ Goes(c, "handle") /\ req[c].step = "debug" /\ Passes(cmd[c].cred)
              \/ \E status \in {400, 401, 403, 405} : Replies(c, status)
              \/ \E status \in {200, 503} :
                     Replies(c, status) /\ req[c].step = "handle" /\ req[c].op # "ask"
              \/ AskRead(c) \/ AskCheck(c)
  <1>1. cmd' = cmd
    BY DEF HandlerStep, Authorise, DebugAuthorise, HandleBadBody, HandleReady, HandleTaskStart,
           HandleInjectMetrics, AskRead, AskCheck, serverUnchanged, clientVars
  <1>2. CASE Authorise(c)
    BY <1>1, <1>2 DEF Authorise, At_
  <1>3. CASE DebugAuthorise(c)
    <2>1. req[c].step = "debug"
      BY <1>3 DEF DebugAuthorise, At_
    <2>2. \/ Goes(c, "handle") /\ Passes(cmd[c].cred)
          \/ \E status \in {401, 403} : Replies(c, status)
      <3>1. CASE booted.token # "" /\ BearerMatches(cmd[c].cred, booted.token)
        BY <1>3, <3>1 DEF DebugAuthorise, Passes
      <3>2. CASE booted.token # "" /\ ~BearerMatches(cmd[c].cred, booted.token)
        <4>1. Replies(c, 403)
          BY <1>3, <3>2 DEF DebugAuthorise
        <4>2. QED
          BY <4>1
      <3>3. CASE booted.token = "" /\ auth.enabled /\ BasicMatches(cmd[c].cred, auth)
        BY <1>3, <3>3 DEF DebugAuthorise, Passes
      <3>4. CASE booted.token = "" /\ auth.enabled /\ ~BasicMatches(cmd[c].cred, auth)
        <4>1. Replies(c, 401)
          BY <1>3, <3>4 DEF DebugAuthorise
        <4>2. QED
          BY <4>1
      <3>5. CASE booted.token = "" /\ ~auth.enabled
        <4>1. Replies(c, 403)
          BY <1>3, <3>5 DEF DebugAuthorise, DebugUnconfigured
        <4>2. QED
          BY <4>1
      <3>6. QED
        BY <3>1, <3>2, <3>3, <3>4, <3>5
    <2>3. QED
      BY <1>1, <2>1, <2>2
  <1>4. CASE HandleBadBody(c) \/ HandleReady(c) \/ HandleTaskStart(c) \/ HandleInjectMetrics(c)
    BY <1>1, <1>4 DEF HandleBadBody, HandleReady, HandleTaskStart, HandleInjectMetrics, Handling, At_
  <1>5. QED
    BY <1>1, <1>2, <1>3, <1>4 DEF HandlerStep

\* A command begins with a request that has no verdict, goes on with another
\* one, or ends without any.
LEMMA ClientStepDoes ==
    ASSUME Shapes, NEW c \in Clients, ClientStep(c)
    PROVE  /\ Alone(c)
           /\ req'[c].step \in {"none", "auth", "replied"} /\ req'[c].status \in {0, 429}
           /\ req'[c].step # "replied" => req'[c].status = 0
  <1>1. ASSUME NEW op, Send(c, op), DOMAIN cmd' = Clients,
               \A d \in Clients \ {c} : cmd'[d] = cmd[d]
        PROVE  /\ Alone(c)
               /\ req'[c].step \in {"none", "auth", "replied"} /\ req'[c].status \in {0, 429}
               /\ req'[c].step # "replied" => req'[c].status = 0
    <2>1. PICK allowed \in BOOLEAN :
            req' = [req EXCEPT ![c] = [NoRequest EXCEPT
                      !.op = op,
                      !.step = IF Listening /\ allowed THEN "auth" ELSE "replied",
                      !.status = IF Listening /\ ~allowed THEN 429 ELSE 0]]
      BY <1>1 DEF Send, LimiterAllows
    <2>2. Alone(c)
      BY <1>1, <2>1 DEF Shapes, Fields, Alone, NoRequest
    <2>3. req'[c].step = IF Listening /\ allowed THEN "auth" ELSE "replied"
      BY <2>1 DEF Shapes, NoRequest
    <2>4. req'[c].status = IF Listening /\ ~allowed THEN 429 ELSE 0
      BY <2>1 DEF Shapes, NoRequest
    <2>5. QED
      BY <2>2, <2>3, <2>4
  <1>2. CASE Begin(c)
    <2>1. PICK command : cmd' = [cmd EXCEPT ![c] = command] /\ Send(c, FirstRequest(command))
      BY <1>2 DEF Begin
    <2>2. DOMAIN cmd' = Clients /\ \A d \in Clients \ {c} : cmd'[d] = cmd[d]
      BY <2>1 DEF Shapes
    <2>3. QED
      BY <1>1, <2>1, <2>2
  <1>3. CASE RunNotifies(c)
    <2>1. Send(c, "notify") /\ cmd' = cmd
      BY <1>3 DEF RunNotifies
    <2>2. QED
      BY <1>1, <2>1 DEF Shapes
  <1>4. CASE RunDenied(c) \/ RunExecutes(c) \/ OtherEnds(c)
    BY <1>4 DEF Shapes, Fields, Alone, RunDenied, RunExecutes, OtherEnds, Ends, NoRequest
  <1>5. QED
    BY <1>2, <1>3, <1>4 DEF ClientStep

\* A request moves alone.
LEMMA OneMoves ==
    ASSUME Shapes, NEW c \in Clients, HandlerStep(c) \/ ClientStep(c)
    PROVE  Alone(c)
  BY HandlerForms, GoesDoes, RepliesDoes, AskReadDoes, AskCheckDoes, ClientStepDoes

\* Requests keep their fields.
LEMMA ShapesStep == Shapes /\ [Next]_vars => Shapes'
  <1> SUFFICES ASSUME Shapes, [Next]_vars PROVE Shapes'
    OBVIOUS
  <1>1. file' \in Files
    BY FileStays
  <1>2. CASE ~Asks
    BY <1>1, <1>2, OtherStepsAreQuiet DEF Shapes, Quiet
  <1>3. CASE Asks
    <2>1. PICK c \in Clients : HandlerStep(c) \/ ClientStep(c)
      BY <1>3 DEF Asks
    <2>2. Alone(c)
      BY <2>1, OneMoves
    <2>3. QED
      BY <1>1, <2>2 DEF Shapes, Alone, Fields
  <1>4. QED
    BY <1>2, <1>3

\* The reload changes the thresholds only when no Ask holds the lock.
LEMMA ThresholdsWait ==
    ASSUME Shapes, [Next]_vars, ~Asks
    PROVE  thresholds' = thresholds \/ \A c \in Clients : req[c].step # "check"
  BY DEF Next, Asks, vars, settings, AggregatorWorks, AggregatorEnds, AggregatorTicks,
         restUnchanged, Edit, Sighup, ReloaderStep, reloadUnchanged, ReloadTakes, ReloadLoads,
         ReloadAuth, ReloadLocks, ReloadThresholds, ReloadConfig, ReloaderExits, ShutBegins, ShutAggregator,
         ShutMoves, ManagerFree

\* A verdict stays that of one moment.
LEMMA VerdictsStep == Shapes /\ Verdicts /\ [Next]_vars => Verdicts'
  <1> SUFFICES ASSUME Shapes, Verdicts, [Next]_vars PROVE Verdicts'
    OBVIOUS
  <1>1. CASE ~Asks
    <2>1. req' = req
      BY <1>1, OtherStepsAreQuiet DEF Quiet
    <2>2. CASE thresholds' = thresholds
      BY <2>1, <2>2 DEF Verdicts, Verdict
    <2>3. CASE \A c \in Clients : req[c].step # "check"
      BY <2>1, <2>3 DEF Verdicts, Verdict
    <2>4. QED
      BY <1>1, <2>2, <2>3, ThresholdsWait
  <1>2. CASE Asks
    <2>1. PICK c \in Clients : HandlerStep(c) \/ ClientStep(c)
      BY <1>2 DEF Asks
    <2>2. Alone(c) /\ thresholds' = thresholds
      BY <1>2, <2>1, OneMoves, AsksChangeNoSetting DEF settings
    <2> DEFINE Fine(d) ==
            /\ req[d].step # "replied" => req[d].status = 0
            /\ req[d].step = "check" =>
                   req[d].op = "ask" /\ (req[d].fits <=> Check(req[d].seen, thresholds) = {})
            /\ Verdict(d) => (req[d].status = 200 <=> req[d].fits)
    <2>3. Fine(c)'
      <3>1. Fine(c)
        BY DEF Verdicts
      <3>2. CASE \E step \in {"debug", "handle"} : Goes(c, step) /\ req[c].step \in {"auth", "debug"} /\ cmd' = cmd
        BY <3>1, <3>2, GoesDoes DEF Verdict
      <3>3. CASE \E status \in {400, 401, 403, 405} : Replies(c, status) /\ cmd' = cmd
        BY <3>3, RepliesDoes DEF Verdict
      <3>4. CASE req[c].op # "ask" /\ \E status : Replies(c, status) /\ cmd' = cmd
        BY <3>4, RepliesDoes DEF Verdict
      <3>5. CASE AskRead(c)
        <4>1. /\ req[c].step = "handle" /\ req'[c].step = "check" /\ req'[c].op = "ask"
              /\ req'[c].status = req[c].status
          BY <3>5, AskReadDoes
        <4>2. req'[c].fits <=> Check(req'[c].seen, thresholds') = {}
          BY <2>2, <3>5, AskReadDoes, Zenon
        <4>3. req[c].status = 0
          BY <3>1, <4>1
        <4>4. QED
          BY <4>1, <4>2, <4>3 DEF Verdict
      <3>6. CASE AskCheck(c)
        BY <3>1, <3>6, AskCheckDoes DEF Verdict
      <3>7. CASE ClientStep(c)
        BY <3>7, ClientStepDoes DEF Verdict
      <3>8. QED
        BY <2>1, <3>2, <3>3, <3>4, <3>5, <3>6, <3>7, HandlerForms
    <2>4. \A d \in Clients \ {c} : Fine(d)'
      BY <2>2 DEF Verdicts, Alone, Verdict
    <2>5. QED
      BY <2>3, <2>4 DEF Verdicts
  <1>3. QED
    BY <1>1, <1>2

\* The authentication in force is that of a file, and so is that of a reload
\* under way.
LEMMA AuthFromFile ==
    ASSUME Shapes, Debugs, [Next]_vars
    PROVE  /\ \E f \in Files : auth' = AuthOf(LoadOrDefault(f))
           /\ reloader' = "auth" => \E f \in Files : newCfg' = LoadOrDefault(f)
  <1>1. CASE ReloadLoads
    BY <1>1 DEF Shapes, Debugs, ReloadLoads, settings
  <1>2. CASE ReloadAuth
    BY <1>2 DEF Debugs, ReloadAuth
  <1>3. CASE ReloadTakes \/ ReloadLocks \/ ReloadThresholds \/ ReloadConfig \/ ReloaderExits
    BY <1>3 DEF Debugs, ReloadTakes, ReloadLocks, ReloadThresholds, ReloadConfig, ReloaderExits, AfterReload,
            settings
  <1>4. CASE Asks
    BY <1>4, AsksChangeNoSetting DEF Debugs, settings, reloadVars
  <1>5. CASE ~Asks /\ ~ReloaderStep
    <2>1. auth' = auth /\ reloader' = reloader /\ newCfg' = newCfg
      BY <1>5 DEF Next, Asks, vars, settings, reloadVars, AggregatorWorks, AggregatorEnds,
              AggregatorTicks, restUnchanged, Edit, Sighup, ShutBegins, ShutAggregator, ShutMoves
    <2>2. QED
      BY <2>1 DEF Debugs
  <1>6. QED
    BY <1>1, <1>2, <1>3, <1>4, <1>5 DEF ReloaderStep

\* Nobody gets to a debug handler but through DebugAuth.
LEMMA DebugsStep == Shapes /\ Verdicts /\ Debugs /\ [Next]_vars => Debugs'
  <1> SUFFICES ASSUME Shapes, Verdicts, Debugs, [Next]_vars PROVE Debugs'
    OBVIOUS
  <1> DEFINE Fine(d) ==
          (req[d].op = "inject" /\ (req[d].step = "handle" \/ req[d].status = 200))
          => LetThrough(cmd[d].cred)
  <1>1. \A d \in Clients : Fine(d)
    BY DEF Debugs
  <1>2. booted' = booted
    BY OtherStepsAreQuiet, AsksChangeNoSetting
  <1>3. \A cred : LetThrough(cred)' <=> LetThrough(cred)
    BY <1>2 DEF LetThrough
  <1>4. CASE ~Asks
    <2>1. req' = req /\ cmd' = cmd
      BY <1>4, OtherStepsAreQuiet DEF Quiet
    <2>2. \A d \in Clients : Fine(d)'
      BY <1>1, <1>2, <2>1 DEF LetThrough
    <2>3. QED
      BY <2>2, AuthFromFile DEF Debugs
  <1>5. CASE Asks
    <2>1. PICK c \in Clients : HandlerStep(c) \/ ClientStep(c)
      BY <1>5 DEF Asks
    <2>2. Alone(c)
      BY <2>1, OneMoves
    <2>3. \A d \in Clients \ {c} : Fine(d)'
      <3> SUFFICES ASSUME NEW d \in Clients \ {c} PROVE Fine(d)'
        OBVIOUS
      <3>1. req'[d] = req[d] /\ cmd'[d] = cmd[d]
        BY <2>2 DEF Alone
      <3>2. Fine(d)
        BY <1>1
      <3>3. LetThrough(cmd[d].cred)' <=> LetThrough(cmd[d].cred)
        BY ONLY <1>2, <3>1 DEF LetThrough
      <3>4. QED
        BY ONLY <3>1, <3>2, <3>3, Zenon
    <2>4. req[c].step # "replied" => req[c].status = 0
      BY DEF Verdicts
    <2>5. Fine(c)'
      <3>1. CASE /\ cmd' = cmd
                 /\ \E step \in {"debug", "handle"} :
                     Goes(c, step) /\ req[c].step = "auth" /\ (req[c].op = "inject" => step = "debug")
        BY <2>4, <3>1, GoesDoes
      <3>2. CASE /\ cmd' = cmd
                 /\ Goes(c, "handle") /\ req[c].step = "debug" /\ Passes(cmd[c].cred)
        <4>1. LetThrough(cmd[c].cred)
          BY <3>2 DEF Passes, LetThrough, Debugs
        <4>2. QED
          BY <1>2, <3>2, <4>1 DEF LetThrough
      <3>3. CASE cmd' = cmd /\ \E status \in {400, 401, 403, 405} : Replies(c, status)
        BY <3>3, RepliesDoes
      <3>4. CASE /\ cmd' = cmd
                 /\ \E status \in {200, 503} :
                        Replies(c, status) /\ req[c].step = "handle" /\ req[c].op # "ask"
        <4>1. req'[c].op = req[c].op /\ req[c].step = "handle"
          BY <3>4, RepliesDoes
        <4>2. Fine(c) /\ cmd' = cmd
          BY <1>1, <3>4
        <4>3. LetThrough(cmd[c].cred) => LetThrough(cmd[c].cred)'
          BY ONLY <1>2, <4>2 DEF LetThrough
        <4>4. QED
          BY <4>1, <4>2, <4>3, Zenon
      <3>5. CASE AskRead(c) \/ AskCheck(c)
        <4>1. req'[c].op = "ask"
          BY <3>5, AskReadDoes, AskCheckDoes DEF Verdicts
        <4>2. QED
          BY <4>1
      <3>6. CASE ClientStep(c)
        BY <3>6, ClientStepDoes
      <3>7. QED
        BY <2>1, <3>1, <3>2, <3>3, <3>4, <3>5, <3>6, HandlerForms
    <2>6. QED
      BY <2>3, <2>5, AuthFromFile DEF Debugs
  <1>6. QED
    BY <1>4, <1>5

\* A reload goes on, or is due again.
LEMMA ReloadsStep == Reloads /\ [Next]_vars => Reloads'
  <1> SUFFICES ASSUME Reloads, [Next]_vars PROVE Reloads'
    OBVIOUS
  <1>1. CASE Asks
    BY <1>1, AsksChangeNoSetting DEF Reloads, settings, operatorVars, reloadVars
  <1>2. CASE ReloadLoads
    BY <1>2, LoadedIsValid DEF Reloads, ReloadLoads, reloadUnchanged, settings, operatorVars
  <1>3. CASE ReloadTakes \/ ReloadAuth \/ ReloadLocks \/ ReloadThresholds \/ ReloadConfig \/ ReloaderExits
    BY <1>3 DEF Reloads, ReloadTakes, ReloadAuth, ReloadLocks, ReloadThresholds, ReloadConfig, ReloaderExits,
            AfterReload, reloadUnchanged, settings, operatorVars
  <1>4. CASE Edit \/ Sighup
    BY <1>4 DEF Reloads, Edit, Sighup, RoomInChannel
  <1>5. CASE AggregatorWorks \/ AggregatorEnds \/ AggregatorTicks \/ UNCHANGED vars
    BY <1>5 DEF Reloads, AggregatorWorks, AggregatorEnds, AggregatorTicks, restUnchanged, vars,
            settings, operatorVars, reloadVars
  <1>6. CASE ShutBegins \/ ShutAggregator
    BY <1>6 DEF Reloads, ShutBegins, ShutAggregator, ShutMoves
  <1>7. QED
    BY <1>1, <1>2, <1>3, <1>4, <1>5, <1>6 DEF Next, Asks, ReloaderStep

\* The invariant is one.
LEMMA Invariance == Spec => []SInv
  <1>1. SInv /\ [Next]_vars => SInv'
    BY ShapesStep, VerdictsStep, DebugsStep, ReloadsStep DEF SInv
  <1>2. QED
    BY InitSInv, <1>1, PTL DEF Spec
-----------------------------------------------------------------------------
\* Whatever reloads do meanwhile, the verdict of an Ask compares a reading and
\* thresholds that were current together (capacity/manager.go, Ask).
THEOREM VerdictOfOneMoment == Spec => []OneMoment
  <1>1. SInv => OneMoment
    BY DEF SInv, Verdicts, OneMoment
  <1>2. QED
    BY Invariance, <1>1, PTL

\* No sequence of edits and reloads opens the debug endpoints
\* (server/middleware/debug_auth.go, DebugAuth).
THEOREM DebugStaysClosed == Spec => []DebugNeverOpen
  <1>1. SInv => DebugNeverOpen
    BY DEF SInv, Debugs, LetThrough, DebugNeverOpen
  <1>2. QED
    BY Invariance, <1>1, PTL

\* When no SIGHUP is due and no reload under way, the settings in force are
\* those of the file that the last SIGHUP found (cli/start.go, ReloadConfig).
THEOREM ReloadIsComplete == Spec => []ReloadNotLost
  <1>1. SInv => ReloadNotLost
    BY DEF SInv, Reloads, ReloadNotLost
  <1>2. QED
    BY Invariance, <1>1, PTL
-----------------------------------------------------------------------------
(* Readings and their ages.                                                *)

\* What is being built is the one state of the collect under way; it is as young
\* as the served one, unless that was injected meanwhile.
Ages ==
    /\ now \in Nat /\ state.at \in Nat /\ state.at <= now
    /\ {"at", "injected"} \subseteq DOMAIN state
    /\ \A s \in building :
           /\ s.at \in Nat /\ s.at <= now /\ {"at", "injected"} \subseteq DOMAIN s
           /\ ~state.injected => state.at <= s.at
    /\ loop \in {"start", "select"} => building = {}
    /\ \A s, t \in building : s = t

LEMMA InitAges == Init => Ages
  BY DEF Init, AggInit, Ages, At

\* A collect begins when none is under way.
LEMMA CollectKeepsAges ==
    ASSUME Ages, NEW from, NEW to, Collect(from, to), from => loop \in {"start", "select"},
           to \notin {"start", "select"}
    PROVE  Ages' /\ state' = state
  <1>1. now' \in Nat /\ now' >= now
    BY DEF Ages, Collect, ClockReads
  <1>2. building = {} /\ state' = state /\ loop' = to
    BY DEF Ages, Collect
  <1>3. PICK machine \in Machine, failed \in Failures :
            building' = {At(now', Collected(machine, failed))}
    BY <1>2 DEF Collect
  <1> DEFINE s == At(now', Collected(machine, failed))
  <1>4. s.at = now' /\ {"at", "injected"} \subseteq DOMAIN s
    BY DEF At
  <1> HIDE DEF s
  <1>5. building' = {s}
    BY <1>3 DEF s
  <1>6. QED
    BY <1>1, <1>2, <1>4, <1>5 DEF Ages

\* The steps of the aggregator's loop.
LEMMA StoreKeepsAges ==
    ASSUME Ages, Store
    PROVE  Ages' /\ (state'.at < state.at => state.injected /\ building # {})
  <1>1. PICK s \in building : state' = s /\ building' = building \ {s}
    BY DEF Store
  <1>2. building' = {} /\ now' = now
    BY <1>1 DEF Ages, Store
  <1>3. s.at \in Nat /\ s.at <= now /\ {"at", "injected"} \subseteq DOMAIN s
    BY DEF Ages
  <1>4. ~state.injected => state.at <= s.at
    BY DEF Ages
  <1>5. Ages'
    BY <1>1, <1>2, <1>3 DEF Ages
  <1>6. QED
    BY <1>1, <1>3, <1>4, <1>5 DEF Ages

\* An injection is the youngest state there is.
LEMMA InjectKeepsAges ==
    ASSUME Ages, NEW metrics, Inject(metrics)
    PROVE  Ages' /\ state'.at >= state.at
  <1>1. now' \in Nat /\ now' >= now
    BY DEF Ages, Inject, ClockReads
  <1>2. DOMAIN state' = DOMAIN state /\ state'.at = now' /\ state'.injected = TRUE
    BY DEF Inject, Ages
  <1>3. building' = building /\ loop' = loop
    BY DEF Inject
  <1>4. QED
    BY <1>1, <1>2, <1>3 DEF Ages

NoNewReading == UNCHANGED <<now, state, building>>
LoopWaits == loop' = loop \/ loop' = "returned"

LEMMA OthersKeepAges ==
    ASSUME Ages, NoNewReading, LoopWaits
    PROVE  Ages' /\ state' = state
  BY DEF Ages, NoNewReading, LoopWaits

LEMMA AgesStep ==
    Ages /\ [Next]_vars => Ages' /\ (state'.at < state.at => state.injected /\ building # {})
  <1> SUFFICES ASSUME Ages, [Next]_vars
               PROVE  Ages' /\ (state'.at < state.at => state.injected /\ building # {})
    OBVIOUS
  <1>1. ASSUME Ages', state' = state \/ state'.at >= state.at PROVE ~(state'.at < state.at)
    <2>1. CASE state' = state
      BY <2>1 DEF Ages
    <2>2. CASE state'.at >= state.at
      BY <1>1, <2>2 DEF Ages
    <2>3. QED
      BY <1>1, <2>1, <2>2
  <1>2. CASE StartCollect \/ TickCollect
    BY <1>1, <1>2, CollectKeepsAges DEF StartCollect, TickCollect, TickTaken
  <1>3. CASE Store
    BY <1>3, StoreKeepsAges
  <1>4. CASE \E c \in Clients : HandleInjectMetrics(c) /\ ~UNCHANGED aggVars
    <2>1. PICK metrics : Inject(metrics)
      BY <1>4 DEF HandleInjectMetrics
    <2>2. QED
      BY <1>1, <2>1, InjectKeepsAges
  <1>5. CASE NoNewReading /\ LoopWaits
    BY <1>1, <1>5, OthersKeepAges
  <1>6. CASE UNCHANGED aggVars
    BY <1>5, <1>6 DEF aggVars, NoNewReading, LoopWaits
  <1>7. CASE AggregatorEnds \/ ShutBegins \/ ShutAggregator
    BY <1>5, <1>7 DEF AggregatorEnds, LoopReturns, ShutBegins, ShutAggregator, AggregatorStop,
       aggVars, NoNewReading, LoopWaits
  <1>8. CASE Asks
    <2>1. CASE \E c \in Clients : HandleInjectMetrics(c)
      BY <1>4, <1>6, <2>1
    <2>2. CASE ~\E c \in Clients : HandleInjectMetrics(c)
      <3>1. ASSUME NEW c \in Clients, HandlerStep(c) PROVE UNCHANGED aggVars
        BY <2>2, <3>1 DEF HandlerStep, Authorise, DebugAuthorise, HandleBadBody, HandleReady,
           HandleTaskStart, AskRead, AskCheck
      <3>2. ASSUME NEW c \in Clients, ClientStep(c) PROVE UNCHANGED aggVars
        BY <3>2 DEF ClientStep, Begin, RunDenied, RunNotifies, RunExecutes, OtherEnds, Ends,
           clientsUnchanged
      <3>3. QED
        BY <1>6, <1>8, <3>1, <3>2 DEF Asks
    <2>3. QED
      BY <2>1, <2>2
  <1>9. CASE Edit \/ Sighup \/ ReloaderStep \/ UNCHANGED vars
    BY <1>6, <1>9 DEF Edit, Sighup, ReloaderStep, ReloadTakes, ReloadLoads, ReloadAuth, ReloadLocks,
       ReloadThresholds, ReloadConfig, ReloaderExits, reloadUnchanged, vars
  <1>10. QED
    BY <1>2, <1>3, <1>7, <1>8, <1>9 DEF Next, Asks, AggregatorWorks, AggregatorTicks

\* No collect replaces a reading by an older one, whatever the machine, the
\* monitors that fail and the clients do; it replaces an injection only
\* (monitor/aggregator.go, collect).
THEOREM NoReadingGoesBack == Spec => BackOnlyOverInjection
  <1>1. Spec => []Ages
    BY InitAges, AgesStep, PTL DEF Spec
  <1>2. Ages /\ [Next]_vars => [state'.at < state.at => state.injected /\ building # {}]_vars
    BY AgesStep
  <1>3. Spec => [][state'.at < state.at => state.injected /\ building # {}]_vars
    BY <1>1, <1>2, PTL DEF Spec
  <1>4. QED
    BY <1>3 DEF BackOnlyOverInjection
-----------------------------------------------------------------------------
(* Types.                                                                  *)

\* The clock.
Times == now \in 1..MaxTime /\ state.at \in 0..now /\ \A s \in building : s.at \in 1..now

\* The settings in force, and those of a reload under way, are those of files.
FromFiles ==
    /\ file \in Files
    /\ Valid(booted) /\ Valid(config) /\ Valid(newCfg)
    /\ auth \in {AuthOf(LoadOrDefault(f)) : f \in Files}
    /\ thresholds \in {ThresholdsOf(LoadOrDefault(f)) : f \in Files}
    /\ reloader \in {"auth", "lock", "thresholds", "config"} => \E f \in Files : newCfg = LoadOrDefault(f)

\* Where the goroutines and the clients are.
Places ==
    /\ reloader \in {"select", "load", "auth", "lock", "thresholds", "config", "exited"}
    /\ shut \in {"none", "draining", "ended"}
    /\ DOMAIN cmd = Clients /\ DOMAIN pc = Clients
    /\ \A c \in Clients : pc[c] = "idle" <=> cmd[c] = NoCommand

TInv == Times /\ FromFiles /\ Places

LEMMA InitTInv == Init => TInv
  <1> SUFFICES ASSUME Init PROVE TInv
    OBVIOUS
  <1>1. Times
    BY ServerAssumption DEF Init, AggInit, At, Times, ServerAssumption
  <1>2. FromFiles
    BY LoadedIsValid, DefaultIsValid DEF Init, FromFiles
  <1>3. Places
    BY DEF Init, Places
  <1>4. QED
    BY <1>1, <1>2, <1>3 DEF TInv

\* A reading is as old as the clock at the latest.
LEMMA TimesStep == Times /\ [Next]_vars => Times'
  <1> SUFFICES ASSUME Times, [Next]_vars PROVE Times'
    OBVIOUS
  <1>1. ASSUME now' \in ClockReads PROVE now' \in 1..MaxTime /\ now' >= now
    BY <1>1, ServerAssumption DEF Times, ClockReads, ServerAssumption
  <1>2. ASSUME NEW from, NEW to, Collect(from, to) PROVE Times'
    <2>1. now' \in 1..MaxTime /\ now' >= now /\ state' = state
      BY <1>1, <1>2 DEF Collect
    <2>2. PICK machine \in Machine, failed \in Failures :
              building' = building \cup {At(now', Collected(machine, failed))}
      BY <1>2 DEF Collect
    <2>3. At(now', Collected(machine, failed)).at = now'
      BY DEF At
    <2>4. QED
      BY <2>1, <2>2, <2>3 DEF Times
  <1>3. CASE StartCollect \/ TickCollect
    BY <1>2, <1>3 DEF StartCollect, TickCollect
  <1>4. CASE Store
    BY <1>4 DEF Store, Times
  <1>5. ASSUME NEW metrics, Inject(metrics) PROVE Times'
    <2>1. now' \in 1..MaxTime /\ now' >= now /\ building' = building
      BY <1>1, <1>5 DEF Inject
    <2>2. state'.at \in 0..now'
      BY <1>5, <2>1 DEF Inject
    <2>3. QED
      BY <2>1, <2>2 DEF Times
  <1>6. CASE NoNewReading
    BY <1>6 DEF NoNewReading, Times
  <1>7. CASE Asks
    <2>1. ASSUME NEW c \in Clients, HandlerStep(c) PROVE NoNewReading \/ \E metrics : Inject(metrics)
      BY <2>1 DEF HandlerStep, Authorise, DebugAuthorise, HandleBadBody, HandleReady,
         HandleTaskStart, HandleInjectMetrics, AskRead, AskCheck, NoNewReading, aggVars
    <2>2. ASSUME NEW c \in Clients, ClientStep(c) PROVE NoNewReading
      BY <2>2 DEF ClientStep, Begin, RunDenied, RunNotifies, RunExecutes, OtherEnds, Ends,
         clientsUnchanged, NoNewReading, aggVars
    <2>3. QED
      BY <1>5, <1>6, <1>7, <2>1, <2>2 DEF Asks
  <1>8. CASE ~Asks /\ ~StartCollect /\ ~TickCollect /\ ~Store
    BY <1>6, <1>8 DEF Next, Asks, vars, AggregatorWorks, AggregatorEnds, AggregatorTicks,
       LoopReturns, Edit, Sighup, ReloaderStep, reloadUnchanged, ReloadTakes, ReloadLoads,
       ReloadAuth, ReloadLocks, ReloadThresholds, ReloadConfig, ReloaderExits, ShutBegins, ShutAggregator,
       AggregatorStop, NoNewReading, aggVars
  <1>9. QED
    BY <1>3, <1>4, <1>7, <1>8

\* Settings come from files that LoadOrDefault has made of.
LEMMA FromFilesStep == Shapes /\ FromFiles /\ [Next]_vars => FromFiles'
  <1> SUFFICES ASSUME Shapes, FromFiles, [Next]_vars PROVE FromFiles'
    OBVIOUS
  <1> USE DEF FromFiles
  <1>1. file' \in Files
    BY FileStays
  <1>2. CASE Asks
    BY <1>1, <1>2, AsksChangeNoSetting DEF settings, reloadVars
  <1>3. CASE ReloadLoads
    BY <1>1, <1>3, LoadedIsValid DEF ReloadLoads, reloadUnchanged, settings
  <1>4. CASE ReloadAuth
    BY <1>1, <1>4 DEF ReloadAuth, reloadUnchanged
  <1>5. CASE ReloadThresholds
    BY <1>1, <1>5 DEF ReloadThresholds, reloadUnchanged
  <1>6. CASE ReloadConfig
    BY <1>1, <1>6, DefaultIsValid DEF ReloadConfig, AfterReload, reloadUnchanged
  <1>7. CASE ReloadTakes \/ ReloadLocks \/ ReloaderExits
    BY <1>1, <1>7 DEF ReloadTakes, ReloadLocks, ReloaderExits, reloadUnchanged, settings
  <1>8. CASE ~Asks /\ ~ReloaderStep
    <2>1. UNCHANGED <<booted, auth, thresholds, config, reloader, newCfg>>
      BY <1>8 DEF Next, Asks, vars, settings, reloadVars, AggregatorWorks, AggregatorEnds,
         AggregatorTicks, restUnchanged, Edit, Sighup, ShutBegins, ShutAggregator, ShutMoves
    <2>2. QED
      BY <1>1, <2>1
  <1>9. QED
    BY <1>2, <1>3, <1>4, <1>5, <1>6, <1>7, <1>8 DEF ReloaderStep

\* A client has a command while it is not idle.
LEMMA PlacesStep == Places /\ [Next]_vars => Places'
  <1> SUFFICES ASSUME Places, [Next]_vars PROVE Places'
    OBVIOUS
  <1>1. CASE ~Asks
    <2>1. UNCHANGED clientVars
      BY <1>1 DEF Next, Asks, vars, AggregatorWorks, AggregatorEnds, AggregatorTicks,
         restUnchanged, Edit, Sighup, ReloaderStep, reloadUnchanged, ReloadTakes, ReloadLoads,
         ReloadAuth, ReloadLocks, ReloadThresholds, ReloadConfig, ReloaderExits, ShutBegins, ShutAggregator,
         ShutMoves
    <2>2. reloader' \in {"select", "load", "auth", "lock", "thresholds", "config", "exited"}
      BY <1>1 DEF Places, Next, Asks, vars, reloadVars, AggregatorWorks, AggregatorEnds,
         AggregatorTicks, restUnchanged, Edit, Sighup, ReloaderStep, ReloadTakes, ReloadLoads,
         ReloadAuth, ReloadLocks, ReloadThresholds, ReloadConfig, AfterReload, ReloaderExits, ShutBegins,
         ShutAggregator, ShutMoves
    <2>3. shut' \in {"none", "draining", "ended"}
      BY <1>1 DEF Places, Next, Asks, vars, AggregatorWorks, AggregatorEnds, AggregatorTicks,
         restUnchanged, Edit, Sighup, ReloaderStep, reloadUnchanged, ReloadTakes, ReloadLoads,
         ReloadAuth, ReloadLocks, ReloadThresholds, ReloadConfig, ReloaderExits, ShutBegins, ShutAggregator,
         ShutMoves
    <2>4. QED
      BY <2>1, <2>2, <2>3 DEF Places, clientVars
  <1>2. CASE Asks
    <2>1. UNCHANGED <<reloader, shut>>
      BY <1>2, AsksChangeNoSetting DEF reloadVars
    <2>2. ASSUME NEW c \in Clients, HandlerStep(c) PROVE UNCHANGED clientVars
      BY <2>2 DEF HandlerStep, Authorise, DebugAuthorise, HandleBadBody, HandleReady,
         HandleTaskStart, HandleInjectMetrics, AskRead, AskCheck, serverUnchanged
    <2>3. ASSUME NEW c \in Clients, Begin(c)
          PROVE  Places'
      <3>1. PICK command \in Commands[c] : cmd' = [cmd EXCEPT ![c] = command]
        BY <2>3 DEF Begin
      <3>2. command # NoCommand
        BY ServerAssumption DEF ServerAssumption, NoCommand
      <3>3. pc' = [pc EXCEPT ![c] = "asking"]
        BY <2>3 DEF Begin
      <3>4. QED
        BY <2>1, <3>1, <3>2, <3>3 DEF Places
    <2>4. ASSUME NEW c \in Clients, Ends(c)
          PROVE  Places'
      BY <2>1, <2>4 DEF Ends, Places
    <2>5. ASSUME NEW c \in Clients, RunNotifies(c)
          PROVE  Places'
      <3>1. pc[c] = "asking" /\ pc' = [pc EXCEPT ![c] = "notifying"] /\ cmd' = cmd
        BY <2>5 DEF RunNotifies, Answered
      <3>2. QED
        BY <2>1, <3>1 DEF Places
    <2>6. UNCHANGED clientVars => Places'
      BY <2>1 DEF Places, clientVars
    <2>7. QED
      BY <1>2, <2>2, <2>3, <2>4, <2>5, <2>6 DEF Asks, ClientStep, RunDenied, RunExecutes, OtherEnds
  <1>3. QED
    BY <1>1, <1>2

\* The settings in force are at every moment, in the middle of a reload too,
\* each that of a file that passes Validate (config/config.go, LoadOrDefault).
THEOREM ServerTypeCorrect == Spec => []TypeOK
  <1>1. SInv /\ TInv /\ [Next]_vars => TInv'
    BY TimesStep, FromFilesStep, PlacesStep DEF SInv, TInv
  <1>2. Spec => []TInv
    BY Invariance, InitTInv, <1>1, PTL DEF Spec
  <1>3. TInv => TypeOK
    BY DEF TInv, Times, FromFiles, Places, TypeOK
  <1>4. QED
    BY <1>2, <1>3, PTL
=============================================================================
