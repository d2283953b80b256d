----------------------------- MODULE AgentProofs -----------------------------
(***************************************************************************)
(* Proofs about Agent, for any requests, probes and ticks.                 *)
(***************************************************************************)
EXTENDS Agent, SequenceTheorems, TLAPS

Given == {"healthy", "unhealthy", "unknown"}

(* The types, in three groups: the run, the watchdog, the requests. *)

RunTypes ==
    /\ proc \in {"down", "up", "exited", "crashed"}
    /\ cancelled \in BOOLEAN /\ logger \in {"none", "open", "nil", "closed"}
    /\ shut \in {"wait", "stop", "drain", "done"}
    /\ lifeLog \in Seq({"startup", "shutdown"})

WatchdogTypes ==
    /\ wd \in {"wait", "check", "log", "done"}
    /\ prev \in Statuses \cup {"unknown"} /\ found \in Statuses \cup {"unknown"}
    /\ seen \in Seq(Given) /\ Len(seen) <= Probes
    /\ ticks \in 0..MaxTicks
    /\ healthLog \in Seq([from : Statuses, to : Statuses])
    /\ wd \in {"check", "log"} => found \in Statuses
    /\ wd = "log" => prev \in Statuses

RequestTypes ==
    /\ pc \in [Reqs -> {"new", "authn", "authz", "exec", "audit", "reply", "done"}]
    /\ ask \in [Reqs -> Asks \cup {NoAsk}]
    /\ outcome \in [Reqs -> Outcomes \cup {"", "unauthenticated", "unsupported"}]
    /\ reply \in [Reqs -> Outcomes \cup {"", "unauthenticated", "unsupported"}]
    /\ effects \subseteq Reqs
    /\ rpcLog \in [Reqs -> Seq(Outcomes)]
    /\ \A r \in Reqs : pc[r] = "audit" => outcome[r] \in Outcomes

Base == RunTypes /\ WatchdogTypes /\ RequestTypes

LEMMA NoneSeen == <<>> \in Seq(Given) /\ Len(<<>>) <= Probes
BY EmptySeq, ProbesAssumption

LEMMA NoTicks == 0 \in 0..MaxTicks
BY MaxTicksAssumption

LEMMA InitBase == Init => Base
<1> SUFFICES ASSUME Init PROVE Base
  OBVIOUS
<1> USE DEF Init
<1>1. RunTypes
  BY EmptySeq DEF RunTypes
<1>2. WatchdogTypes
  <2>1. ticks \in 0..MaxTicks
    BY NoTicks
  <2>2. healthLog \in Seq([from : Statuses, to : Statuses])
    BY EmptySeq
  <2>3. QED BY <2>1, <2>2, NoneSeen DEF WatchdogTypes
<1>3. RequestTypes
  BY EmptySeq DEF RequestTypes
<1>4. QED BY <1>1, <1>2, <1>3 DEF Base

(* A step that leaves a group alone keeps its types. *)

LEMMA SameRun ==
    ASSUME RunTypes, UNCHANGED <<proc, cancelled, logger, shut, lifeLog>> PROVE RunTypes'
BY DEF RunTypes

LEMMA SameWatchdog ==
    ASSUME WatchdogTypes, UNCHANGED <<watchdog, healthLog>> PROVE WatchdogTypes'
BY DEF WatchdogTypes, watchdog

LEMMA SameRequests ==
    ASSUME RequestTypes, UNCHANGED <<requests, rpcLog>> PROVE RequestTypes'
BY DEF RequestTypes, requests

LEMMA PanicBase == ASSUME Base, Panic PROVE Base'
<1> USE DEF Panic, logs
<1>1. RunTypes'
  BY DEF Base, RunTypes
<1>2. WatchdogTypes'
  BY NoneSeen DEF Base, WatchdogTypes
<1>3. RequestTypes'
  BY DEF Base, RequestTypes
<1>4. QED BY <1>1, <1>2, <1>3 DEF Base

LEMMA RequestBase ==
    ASSUME Base, NEW r \in Reqs, Handle(r) \/ EndStream(r) \/ \E a \in Asks : Arrive(r, a)
    PROVE  Base'
<1>0. RunTypes /\ WatchdogTypes /\ RequestTypes
  BY DEF Base
<1>1. CASE \E a \in Asks : Arrive(r, a)
  <2>1. PICK a \in Asks : Arrive(r, a)
    BY <1>1
  <2>2. RequestTypes'
    BY <2>1, <1>0 DEF Arrive, RequestTypes, logs
  <2>3. QED BY <1>0, <2>1, <2>2, SameRun, SameWatchdog DEF Arrive, Base, logs
<1>2. CASE Authenticate(r)
  <2>1. RequestTypes'
    BY <1>2, <1>0 DEF Authenticate, Ends, Handling, NotHandler, RequestTypes, Outcomes, logs
  <2>2. QED BY <1>0, <1>2, <2>1, SameRun, SameWatchdog DEF Authenticate, NotHandler, Base, logs
<1>3. CASE Authorize(r)
  <2>1. RequestTypes'
    BY <1>3, <1>0 DEF Authorize, Refusal, Ends, Handling, NotHandler, RequestTypes, Outcomes, logs
  <2>2. QED BY <1>0, <1>3, <2>1, SameRun, SameWatchdog DEF Authorize, NotHandler, Base, logs
<1>4. CASE Control(r)
  <2>1. PICK o \in {"success", "error"} :
            (effects' = effects \cup {r} \/ effects' = effects) /\ Ends(r, o, "audit")
    BY <1>4 DEF Control
  <2>2. RequestTypes'
    <3>1. /\ outcome' = [outcome EXCEPT ![r] = o] /\ pc' = [pc EXCEPT ![r] = "audit"]
          /\ ask' = ask /\ reply' = reply /\ rpcLog' = rpcLog
      BY <1>4, <2>1 DEF Control, Ends, NotHandler, logs
    <3>2. o \in Outcomes
      BY DEF Outcomes
    <3>3. effects' \subseteq Reqs
      BY <1>0, <2>1 DEF RequestTypes
    <3>4. QED BY <1>0, <3>1, <3>2, <3>3 DEF RequestTypes
  <2>3. QED BY <1>0, <1>4, <2>2, SameRun, SameWatchdog DEF Control, NotHandler, Base, logs
<1>5. CASE EmitAudit(r) /\ logger # "nil"
  <2>1. outcome[r] \in Outcomes /\ rpcLog[r] \in Seq(Outcomes)
    BY <1>0, <1>5 DEF EmitAudit, Handling, RequestTypes
  <2>2. rpcLog[r] \o Logged(r) \in Seq(Outcomes)
    BY <2>1 DEF Logged
  <2>3. RequestTypes'
    BY <1>5, <2>1, <2>2, <1>0 DEF EmitAudit, NotHandler, RequestTypes
  <2>4. QED BY <1>0, <1>5, <2>3, SameRun, SameWatchdog DEF EmitAudit, NotHandler, Base
<1>6. CASE Reply(r)
  <2>1. RequestTypes'
    BY <1>6, <1>0 DEF Reply, Handling, RequestTypes, logs
  <2>2. QED BY <1>0, <1>6, <2>1, SameRun, SameWatchdog DEF Reply, Base, logs
<1>7. CASE EndStream(r)
  <2>0. PICK o \in {"success", "error"} : Ends(r, o, "audit")
    BY <1>7 DEF EndStream
  <2>1. RequestTypes'
    BY <1>7, <2>0, <1>0 DEF EndStream, Ends, NotHandler, RequestTypes, Outcomes, logs
  <2>2. QED BY <1>0, <1>7, <2>1, SameRun, SameWatchdog DEF EndStream, NotHandler, Base, logs
<1>8. QED
  BY <1>1, <1>2, <1>3, <1>4, <1>5, <1>6, <1>7, PanicBase DEF Handle, Exec, EmitAudit

LEMMA WatchdogBase == ASSUME Base, Tick \/ Watchdog PROVE Base'
<1>0. RunTypes /\ WatchdogTypes /\ RequestTypes
  BY DEF Base
<1>1. CASE Tick
  <2>1. ticks' \in 0..MaxTicks
    BY <1>0, <1>1, MaxTicksAssumption DEF Tick, WatchdogTypes
  <2>2. WatchdogTypes'
    BY <1>0, <1>1, <2>1, NoneSeen DEF Tick, WatchdogTypes, Statuses, logs
  <2>3. QED BY <1>0, <1>1, <2>2, SameRun, SameRequests DEF Tick, Base, logs
<1>2. CASE Probe
  <2>1. PICK s \in Reading(Len(seen) + 1) :
            /\ seen' = Append(seen, s)
            /\ found' = Aggregate(found, Len(seen) + 1, s)
    BY <1>2 DEF Probe
  <2>2. s \in Given
    BY DEF Reading, Bad, Given
  <2>3. seen' \in Seq(Given) /\ Len(seen') <= Probes
    BY <1>0, <1>2, <2>1, <2>2, AppendProperties DEF Probe, WatchdogTypes
  <2>4. found' \in Statuses
    BY <1>0, <1>2, <2>1 DEF Probe, Aggregate, WatchdogTypes, Statuses
  <2>5. WatchdogTypes'
    BY <1>0, <1>2, <2>3, <2>4 DEF Probe, WatchdogTypes, logs
  <2>6. QED BY <1>0, <1>2, <2>5, SameRun, SameRequests DEF Probe, Base, logs
<1>3. CASE Compare
  <2>1. WatchdogTypes'
    BY <1>0, <1>3, NoneSeen DEF Compare, Changed, WatchdogTypes, logs
  <2>2. QED BY <1>0, <1>3, <2>1, SameRun, SameRequests DEF Compare, Base, logs
<1>4. CASE LogHealth /\ logger # "nil"
  <2>1. [from |-> prev, to |-> found] \in [from : Statuses, to : Statuses]
    BY <1>0, <1>4 DEF LogHealth, WatchdogTypes
  <2>2. healthLog' \in Seq([from : Statuses, to : Statuses])
    <3>1. healthLog \in Seq([from : Statuses, to : Statuses])
      BY <1>0 DEF WatchdogTypes
    <3>2. Append(healthLog, [from |-> prev, to |-> found]) \in Seq([from : Statuses, to : Statuses])
      BY <2>1, <3>1, AppendProperties
    <3>3. QED BY <1>4, <3>1, <3>2 DEF LogHealth
  <2>3. WatchdogTypes'
    BY <1>0, <1>4, <2>2 DEF LogHealth, Remembered, WatchdogTypes
  <2>4. QED BY <1>0, <1>4, <2>3, SameRun, SameRequests DEF LogHealth, Base
<1>5. CASE WatchdogEnds
  <2>1. WatchdogTypes'
    BY <1>0, <1>5 DEF WatchdogEnds, WatchdogTypes, logs
  <2>2. QED BY <1>0, <1>5, <2>1, SameRun, SameRequests DEF WatchdogEnds, Base, logs
<1>6. QED BY <1>1, <1>2, <1>3, <1>4, <1>5, PanicBase DEF Watchdog, LogHealth

LEMMA RunBase ==
    ASSUME Base, Start \/ ListenFails \/ Cancel \/ Shutdown PROVE Base'
<1>0. RunTypes /\ WatchdogTypes /\ RequestTypes
  BY DEF Base
<1>1. ASSUME NEW s, NEW e \in {"startup", "shutdown"}, EmitLifecycle(s, e)
      PROVE  lifeLog' \in Seq({"startup", "shutdown"})
  BY <1>0, <1>1, AppendProperties DEF EmitLifecycle, RunTypes
<1>2. CASE Start
  BY <1>0, <1>1, <1>2, SameWatchdog, SameRequests DEF Start, RunTypes, Base
<1>3. CASE ListenFails
  BY <1>0, <1>1, <1>3, SameWatchdog, SameRequests DEF ListenFails, RunTypes, Base
<1>4. CASE LogShutdown
  BY <1>0, <1>1, <1>4, SameWatchdog, SameRequests DEF LogShutdown, RunTypes, Base
<1>5. CASE Cancel
  BY <1>0, <1>5, SameWatchdog, SameRequests DEF Cancel, RunTypes, Base, logs
<1>6. CASE BeginStop \/ EndStop
  BY <1>0, <1>6, SameWatchdog, SameRequests DEF BeginStop, EndStop, RunTypes, Base, logs
<1>7. CASE CloseLogger \/ Exit
  BY <1>0, <1>7, SameWatchdog, SameRequests DEF CloseLogger, Exit, RunTypes, Base, logs
<1>8. QED BY <1>2, <1>3, <1>4, <1>5, <1>6, <1>7 DEF Shutdown

LEMMA NextBase == Base /\ [Next]_vars => Base'
<1> SUFFICES ASSUME Base, [Next]_vars PROVE Base'
  OBVIOUS
<1>1. CASE Next
  BY <1>1, RunBase, WatchdogBase, RequestBase, PanicBase DEF Next, Kill
<1>2. CASE UNCHANGED vars
  BY <1>2, SameRun, SameWatchdog, SameRequests DEF Base, vars, logs
<1>3. QED BY <1>1, <1>2

\* The types of the state of a run (main.go run, handler.go, checker.go).
THEOREM AgentTypes == Spec => []TypeOK
<1>1. Spec => []Base
  BY InitBase, NextBase, PTL DEF Spec
<1>2. Base => TypeOK
  BY DEF Base, RunTypes, WatchdogTypes, RequestTypes, TypeOK, Given
<1>3. QED BY <1>1, <1>2, PTL

-----------------------------------------------------------------------------
(* The requests: what each has behind it, wherever it is. *)

PathOf(r) ==
    /\ pc[r] = "authz" => ask[r].known
    /\ pc[r] = "exec" => ask[r].known /\ ask[r].policy = "allow"
    /\ r \in effects => /\ pc[r] \in {"audit", "reply", "done"}
                        /\ ask[r].known /\ ask[r].policy = "allow"
                        /\ pc[r] = "reply" => outcome[r] \in Outcomes
                        /\ pc[r] = "done" /\ proc # "crashed" => reply[r] \in Outcomes

\* The event comes before the answer.
AnswersOf(r) ==
    /\ pc[r] \in {"new", "authn", "authz", "exec", "audit"} => rpcLog[r] = <<>>
    /\ pc[r] # "done" => reply[r] = ""
    /\ pc[r] = "reply" /\ outcome[r] \in Outcomes => rpcLog[r] = <<outcome[r]>>
    /\ reply[r] \in Outcomes => rpcLog[r] = <<reply[r]>>

Path == \A r \in Reqs : PathOf(r)
Answers == \A r \in Reqs : AnswersOf(r)

\* Where the run is, and where the others then are.
Stages ==
    /\ proc = "down" => /\ \A r \in Reqs : pc[r] = "new"
                        /\ effects = {} /\ lifeLog = <<>> /\ healthLog = <<>>
                        /\ wd = "wait" /\ prev = "unknown" /\ shut = "wait"
    /\ proc = "up" => logger # "none"
    /\ proc = "up" /\ shut = "done" => \A r \in Reqs : pc[r] \in {"new", "done"}
    /\ proc = "exited" => \A r \in Reqs : pc[r] \in {"new", "done"}
    /\ logger = "closed" => /\ \A r \in Reqs : pc[r] \in {"new", "done"}
                            /\ wd \notin {"check", "log"}
                            /\ proc = "up" => shut = "done" /\ wd = "done"

\* What the log says of the run.
Life ==
    /\ proc = "up" /\ logger # "nil" =>
           lifeLog = IF shut = "wait" THEN <<"startup">> ELSE <<"startup", "shutdown">>
    /\ proc = "exited" /\ shut = "done" /\ logger # "nil" =>
           lifeLog = <<"startup", "shutdown">>

Flow == Path /\ Answers /\ Stages /\ Life

LEMMA InitFlow == Init => Flow
BY DEF Init, Flow, Path, PathOf, Answers, AnswersOf, Stages, Life, Outcomes

LEMMA PanicFlow == ASSUME Base, Flow, proc = "up", Panic PROVE Flow'
<1>1. Path'
  BY DEF Panic, Flow, Path, PathOf
<1>2. Answers'
  BY DEF Panic, Flow, Answers, AnswersOf, Base, RequestTypes, Outcomes, logs
<1>3. Stages'
  BY DEF Panic, Stages
<1>4. Life'
  BY DEF Panic, Life
<1>5. QED BY <1>1, <1>2, <1>3, <1>4 DEF Flow

\* A step of request r leaves the others alone.
Others(r) ==
    \A s \in Reqs \ {r} :
        /\ pc'[s] = pc[s] /\ ask'[s] = ask[s] /\ outcome'[s] = outcome[s]
        /\ reply'[s] = reply[s] /\ rpcLog'[s] = rpcLog[s]
        /\ s \in effects' <=> s \in effects
        /\ proc' = proc

LEMMA OneRequest ==
    ASSUME Path, Answers, NEW r \in Reqs, Others(r), PathOf(r)', AnswersOf(r)'
    PROVE  Path' /\ Answers'
<1> SUFFICES ASSUME NEW s \in Reqs, s # r PROVE PathOf(s)' /\ AnswersOf(s)'
  BY DEF Path, Answers
<1>1. PathOf(s) /\ AnswersOf(s)
  BY DEF Path, Answers
<1>2. /\ pc'[s] = pc[s] /\ ask'[s] = ask[s] /\ outcome'[s] = outcome[s]
      /\ reply'[s] = reply[s] /\ rpcLog'[s] = rpcLog[s]
      /\ s \in effects' <=> s \in effects
      /\ proc' = proc
  BY DEF Others
<1>3. PathOf(s)'
  BY <1>1, <1>2 DEF PathOf
<1>4. AnswersOf(s)'
  BY <1>1, <1>2 DEF AnswersOf
<1>5. QED BY <1>3, <1>4

LEMMA AskPolicy ==
    \A a \in Asks \cup {NoAsk} : a.policy \in {"allow", "deny", "error"}
BY DEF Asks, NoAsk

LEMMA RequestFlow ==
    ASSUME Base, Flow, NEW r \in Reqs,
           Handle(r) \/ EndStream(r) \/ \E a \in Asks : Arrive(r, a)
    PROVE  Flow'
<1>0. RequestTypes /\ Path /\ Answers /\ Stages /\ Life
  BY DEF Base, Flow
<1> USE DEF Ends, Handling, NotHandler, watchdog, logs
<1>1. CASE \E a \in Asks : Arrive(r, a)
  <2>1. PICK a \in Asks : Arrive(r, a)
    BY <1>1
  <2>2. Others(r)
    BY <1>0, <2>1 DEF Arrive, RequestTypes, Others
  <2>3. PathOf(r)' /\ AnswersOf(r)'
    <3>1. PathOf(r) /\ AnswersOf(r)
      BY <1>0 DEF Path, Answers
    <3>2. PathOf(r)'
      BY <1>0, <2>1, <3>1 DEF Arrive, RequestTypes, PathOf, Outcomes
    <3>3. AnswersOf(r)'
      BY <1>0, <2>1, <3>1 DEF Arrive, RequestTypes, AnswersOf, Outcomes
    <3>4. QED BY <3>2, <3>3
  <2>4. Stages' /\ Life'
    BY <1>0, <2>1 DEF Arrive, RequestTypes, Stages, Life
  <2>5. QED BY <1>0, <2>2, <2>3, <2>4, OneRequest DEF Flow
<1>2. CASE Authenticate(r)
  <2>2. Others(r)
    BY <1>0, <1>2 DEF Authenticate, RequestTypes, Others
  <2>3. PathOf(r)' /\ AnswersOf(r)'
    <3>1. PathOf(r) /\ AnswersOf(r)
      BY <1>0 DEF Path, Answers
    <3>2. PathOf(r)'
      BY <1>0, <1>2, <3>1 DEF Authenticate, RequestTypes, PathOf, Outcomes
    <3>3. AnswersOf(r)'
      BY <1>0, <1>2, <3>1 DEF Authenticate, RequestTypes, AnswersOf, Outcomes
    <3>4. QED BY <3>2, <3>3
  <2>4. Stages' /\ Life'
    BY <1>0, <1>2 DEF Authenticate, RequestTypes, Stages, Life
  <2>5. QED BY <1>0, <2>2, <2>3, <2>4, OneRequest DEF Flow
<1>3. CASE Authorize(r)
  <2>1. ask[r].policy \in {"allow", "deny", "error"}
    BY <1>0, AskPolicy DEF RequestTypes
  <2>2. Others(r)
    BY <1>0, <1>3, <2>1 DEF Authorize, RequestTypes, Others
  <2>3. PathOf(r)' /\ AnswersOf(r)'
    <3>1. PathOf(r) /\ AnswersOf(r)
      BY <1>0 DEF Path, Answers
    <3>2. PathOf(r)'
      BY <1>0, <1>3, <2>1, <3>1 DEF Authorize, Refusal, RequestTypes, PathOf, Outcomes
    <3>3. AnswersOf(r)'
      BY <1>0, <1>3, <2>1, <3>1 DEF Authorize, Refusal, RequestTypes, AnswersOf, Outcomes
    <3>4. QED BY <3>2, <3>3
  <2>4. Stages' /\ Life'
    BY <1>0, <1>3, <2>1 DEF Authorize, RequestTypes, Stages, Life
  <2>5. QED BY <1>0, <2>2, <2>3, <2>4, OneRequest DEF Flow
<1>4. CASE Handling(r, "exec") /\ Control(r)
  <2>1. PICK o \in {"success", "error"} :
            (effects' = effects \cup {r} \/ effects' = effects) /\ Ends(r, o, "audit")
    BY <1>4 DEF Control
  <2>2. Others(r)
    BY <1>0, <1>4, <2>1 DEF Control, RequestTypes, Others
  <2>3. PathOf(r)' /\ AnswersOf(r)'
    <3>1. PathOf(r) /\ AnswersOf(r)
      BY <1>0 DEF Path, Answers
    <3>2. PathOf(r)'
      BY <1>0, <1>4, <2>1, <3>1 DEF Control, RequestTypes, PathOf, Outcomes
    <3>3. AnswersOf(r)'
      BY <1>0, <1>4, <2>1, <3>1 DEF Control, RequestTypes, AnswersOf, Outcomes
    <3>4. QED BY <3>2, <3>3
  <2>4. Stages' /\ Life'
    BY <1>0, <1>4, <2>1 DEF Control, RequestTypes, Stages, Life
  <2>5. QED BY <1>0, <2>2, <2>3, <2>4, OneRequest DEF Flow
<1>5. CASE EmitAudit(r) /\ logger # "nil"
  <2>1. rpcLog' = [rpcLog EXCEPT ![r] = <<outcome[r]>>]
    <3>1. logger = "open"
      BY <1>0, <1>5 DEF EmitAudit, Stages, Base, RunTypes
    <3>2. rpcLog[r] = <<>>
      BY <1>0, <1>5 DEF EmitAudit, Answers, AnswersOf
    <3>3. QED BY <1>5, <3>1, <3>2 DEF EmitAudit, Logged
  <2>2. Others(r)
    BY <1>0, <1>5, <2>1 DEF EmitAudit, RequestTypes, Others
  <2>3. PathOf(r)' /\ AnswersOf(r)'
    <3>1. PathOf(r) /\ AnswersOf(r)
      BY <1>0 DEF Path, Answers
    <3>2. PathOf(r)'
      BY <1>0, <1>5, <2>1, <3>1 DEF EmitAudit, RequestTypes, PathOf, Outcomes
    <3>3. AnswersOf(r)'
      BY <1>0, <1>5, <2>1, <3>1 DEF EmitAudit, RequestTypes, AnswersOf, Outcomes
    <3>4. QED BY <3>2, <3>3
  <2>4. Stages' /\ Life'
    BY <1>0, <1>5, <2>1 DEF EmitAudit, RequestTypes, Stages, Life
  <2>5. QED BY <1>0, <2>2, <2>3, <2>4, OneRequest DEF Flow
<1>6. CASE Reply(r)
  <2>2. Others(r)
    BY <1>0, <1>6 DEF Reply, RequestTypes, Others
  <2>3. PathOf(r)' /\ AnswersOf(r)'
    <3>1. PathOf(r) /\ AnswersOf(r)
      BY <1>0 DEF Path, Answers
    <3>2. PathOf(r)'
      BY <1>0, <1>6, <3>1 DEF Reply, RequestTypes, PathOf, Outcomes
    <3>3. AnswersOf(r)'
      BY <1>0, <1>6, <3>1 DEF Reply, RequestTypes, AnswersOf, Outcomes
    <3>4. QED BY <3>2, <3>3
  <2>4. Stages' /\ Life'
    BY <1>0, <1>6 DEF Reply, RequestTypes, Stages, Life
  <2>5. QED BY <1>0, <2>2, <2>3, <2>4, OneRequest DEF Flow
<1>7. CASE EndStream(r)
  <2>1. PICK o \in {"success", "error"} : Ends(r, o, "audit")
    BY <1>7 DEF EndStream
  <2>2. Others(r)
    BY <1>0, <1>7, <2>1 DEF EndStream, RequestTypes, Others
  <2>3. PathOf(r)' /\ AnswersOf(r)'
    <3>1. PathOf(r) /\ AnswersOf(r)
      BY <1>0 DEF Path, Answers
    <3>2. PathOf(r)'
      BY <1>0, <1>7, <2>1, <3>1 DEF EndStream, RequestTypes, PathOf, Outcomes
    <3>3. AnswersOf(r)'
      BY <1>0, <1>7, <2>1, <3>1 DEF EndStream, RequestTypes, AnswersOf, Outcomes
    <3>4. QED BY <3>2, <3>3
  <2>4. Stages' /\ Life'
    BY <1>0, <1>7, <2>1 DEF EndStream, RequestTypes, Stages, Life
  <2>5. QED BY <1>0, <2>2, <2>3, <2>4, OneRequest DEF Flow
<1>8. QED
  BY <1>1, <1>2, <1>3, <1>4, <1>5, <1>6, <1>7, PanicFlow DEF Handle, Exec, EmitAudit

LEMMA StartAndEnd == Append(<<"startup">>, "shutdown") = <<"startup", "shutdown">>
<1> DEFINE one == <<"startup">>
           two == Append(one, "shutdown")
<1>1. one \in Seq({"startup", "shutdown"}) /\ Len(one) = 1 /\ one[1] = "startup"
  OBVIOUS
<1>2. two \in Seq({"startup", "shutdown"}) /\ Len(two) = 2 /\ two[1] = "startup" /\ two[2] = "shutdown"
  BY <1>1, AppendProperties
<1>3. <<"startup", "shutdown">> \in Seq({"startup", "shutdown"})
  OBVIOUS
<1> HIDE DEF one, two
<1>4. two = <<"startup", "shutdown">>
  BY <1>2, <1>3, SeqEqual
<1>5. QED BY <1>4 DEF one, two

LEMMA OtherFlow ==
    ASSUME Base, Flow, UNCHANGED <<requests, rpcLog>>,
           Start \/ ListenFails \/ Cancel \/ Tick \/ Watchdog \/ Shutdown \/ UNCHANGED vars
    PROVE  Flow'
<1>0. Path /\ Answers /\ Stages /\ Life /\ RunTypes
  BY DEF Base, Flow
<1> USE DEF requests, watchdog, logs
<1>1. Answers'
  BY <1>0 DEF Answers, AnswersOf
<1>2. proc' # proc => proc \in {"down", "up"} /\ proc' \in {"up", "exited", "crashed"}
  BY DEF Start, ListenFails, Cancel, Tick, Watchdog, Probe, Compare, LogHealth, WatchdogEnds,
         Shutdown, LogShutdown, BeginStop, EndStop, CloseLogger, Exit, Panic, vars
<1>3. Path'
  BY <1>0, <1>2 DEF Path, PathOf, Stages
<1>4. CASE Start
  BY <1>0, <1>1, <1>3, <1>4 DEF Start, EmitLifecycle, Stages, Life, Flow
<1>5. CASE ListenFails
  BY <1>0, <1>1, <1>3, <1>5 DEF ListenFails, Stages, Life, Flow
<1>6. CASE Cancel \/ Tick
  BY <1>0, <1>1, <1>3, <1>6 DEF Cancel, Tick, Stages, Life, Flow
<1>7. CASE Probe \/ Compare \/ WatchdogEnds
  BY <1>0, <1>1, <1>3, <1>7 DEF Probe, Compare, WatchdogEnds, Stages, Life, Flow
<1>8. CASE LogHealth
  BY <1>0, <1>1, <1>3, <1>8, PanicFlow DEF LogHealth, Stages, Life, Flow
<1>9. CASE LogShutdown
  <2>1. Stages'
    BY <1>0, <1>9 DEF LogShutdown, Stages
  <2>2. logger # "nil" => logger = "open" /\ lifeLog' = Append(<<"startup">>, "shutdown")
    BY <1>0, <1>9 DEF LogShutdown, EmitLifecycle, RunTypes, Stages, Life
  <2>3. Append(<<"startup">>, "shutdown") = <<"startup", "shutdown">>
    BY <1>0, StartAndEnd
  <2>4. Life'
    BY <1>0, <1>9, <2>2, <2>3 DEF LogShutdown, Life
  <2>5. QED BY <1>1, <1>3, <2>1, <2>4 DEF Flow
<1>10. CASE BeginStop \/ EndStop
  BY <1>0, <1>1, <1>3, <1>10
  DEF BeginStop, EndStop, Drained, InService, Stages, Life, Flow
<1>11. CASE CloseLogger \/ Exit
  BY <1>0, <1>1, <1>3, <1>11 DEF CloseLogger, Exit, Waited, Stages, Life, Flow
<1>12. CASE UNCHANGED vars
  BY <1>0, <1>1, <1>3, <1>12 DEF vars, Stages, Life, Flow
<1>13. QED
  BY <1>4, <1>5, <1>6, <1>7, <1>8, <1>9, <1>10, <1>11, <1>12 DEF Watchdog, Shutdown

LEMMA NextFlow == Base /\ Flow /\ [Next]_vars => Flow'
<1> SUFFICES ASSUME Base, Flow, [Next]_vars PROVE Flow'
  OBVIOUS
<1>1. CASE Kill
  BY <1>1, PanicFlow DEF Kill
<1>2. CASE LogHealth /\ logger = "nil"
  BY <1>2, PanicFlow DEF LogHealth
<1>3. CASE \E r \in Reqs : Handle(r) \/ EndStream(r) \/ \E a \in Asks : Arrive(r, a)
  BY <1>3, RequestFlow
<1>4. ASSUME Start \/ ListenFails \/ Cancel \/ Tick \/ Watchdog \/ Shutdown \/ UNCHANGED vars,
             ~(LogHealth /\ logger = "nil")
      PROVE  UNCHANGED <<requests, rpcLog>>
  BY <1>4
  DEF Start, ListenFails, Cancel, Tick, Watchdog, Probe, Compare, LogHealth, WatchdogEnds,
      Shutdown, LogShutdown, BeginStop, EndStop, CloseLogger, Exit, vars, logs, requests
<1>5. QED BY <1>1, <1>2, <1>3, <1>4, OtherFlow DEF Next

LEMMA FlowInvariant == Spec => [](Base /\ Flow)
BY InitBase, NextBase, InitFlow, NextFlow, PTL DEF Spec

\* Nothing changes the node but what the policy allows a known identity
\* (handler.go Execute).
THEOREM OnlyAuthorizedChange == Spec => []OnlyAuthorized
<1>1. Base /\ Flow => OnlyAuthorized
  BY DEF Base, RequestTypes, Flow, Path, PathOf, OnlyAuthorized
<1>2. QED BY <1>1, FlowInvariant, PTL

\* Whoever was answered success, denied or error is in the log, once and with that
\* outcome (handler.go emitAudit).
THEOREM AnswersAreLogged == Spec => []AnswerIsLogged
<1>1. Flow => AnswerIsLogged
  BY DEF Flow, Answers, AnswersOf, AnswerIsLogged
<1>2. QED BY <1>1, FlowInvariant, PTL

\* The logger is closed when nobody is left who would log (main.go run).
THEOREM LoggerClosedLast == Spec => []ClosedLast
<1>1. Flow => ClosedLast
  BY DEF Flow, Stages, ClosedLast
<1>2. QED BY <1>1, FlowInvariant, PTL

\* When run has returned from a shutdown every change is logged and answered, and
\* the log has the run's start and its end (main.go run, server.go GracefulStop).
THEOREM ShutdownKeepsAll == Spec => []ShutdownLosesNothing
<1>1. Base /\ Flow => ShutdownLosesNothing
  <2> SUFFICES ASSUME Base, Flow, proc = "exited", shut = "done", logger # "nil"
               PROVE  /\ \A r \in effects : rpcLog[r] # <<>> /\ reply[r] # ""
                      /\ lifeLog = <<"startup", "shutdown">>
    BY DEF ShutdownLosesNothing
  <2>1. ASSUME NEW r \in effects PROVE reply[r] \in Outcomes /\ rpcLog[r] = <<reply[r]>>
    <3>1. r \in Reqs /\ PathOf(r) /\ AnswersOf(r)
      BY DEF Base, RequestTypes, Flow, Path, Answers
    <3>2. pc[r] = "done"
      BY <3>1 DEF Flow, Stages, PathOf
    <3>3. reply[r] \in Outcomes
      BY <3>1, <3>2 DEF PathOf
    <3>4. QED BY <3>1, <3>3 DEF AnswersOf
  <2>2. ASSUME NEW r \in effects PROVE rpcLog[r] # <<>> /\ reply[r] # ""
    <3>1. reply[r] # ""
      BY <2>1 DEF Outcomes
    <3>2. <<reply[r]>> # <<>>
      OBVIOUS
    <3>3. QED BY <2>1, <3>1, <3>2
  <2>3. lifeLog = <<"startup", "shutdown">>
    BY DEF Flow, Life
  <2>4. QED BY <2>2, <2>3
<1>2. QED BY <1>1, FlowInvariant, PTL

-----------------------------------------------------------------------------
(* The watchdog. *)

LEMMA InitAggregate == Init => AggregateIsWorst
BY DEF Init, AggregateIsWorst

LEMMA NextAggregate == Base /\ AggregateIsWorst /\ [Next]_vars => AggregateIsWorst'
<1> SUFFICES ASSUME Base, AggregateIsWorst, [Next]_vars, wd' = "check"
             PROVE  AggregateIsWorst'
  BY DEF AggregateIsWorst
<1>1. CASE Tick
  BY <1>1 DEF Tick, AggregateIsWorst
<1>2. CASE Probe
  <2> DEFINE p == Len(seen) + 1
             bad == {q \in DOMAIN seen : seen[q] # "healthy"}
  <2>1. PICK s \in Reading(p) : seen' = Append(seen, s) /\ found' = Aggregate(found, p, s)
    BY <1>2 DEF Probe
  <2>2. s \in Given /\ (s # "healthy" => (s = "unhealthy" <=> p \in Critical))
    BY DEF Reading, Bad, Given
  <2>3. seen \in Seq(Given)
    BY DEF Base, WatchdogTypes
  <2>4. /\ DOMAIN seen = 1..Len(seen) /\ DOMAIN seen' = 1..p /\ Len(seen) \in Nat
        /\ \A q \in 1..Len(seen) : seen'[q] = seen[q]
        /\ seen'[p] = s
    BY <2>1, <2>2, <2>3, AppendProperties, LenProperties
  <2>5. {q \in DOMAIN seen' : seen'[q] # "healthy"}
            = IF s = "healthy" THEN bad ELSE bad \cup {p}
    BY <2>4
  <2>6. found = IF bad \cap Critical # {} THEN "unhealthy"
                ELSE IF bad # {} THEN "degraded" ELSE "healthy"
    BY <1>2 DEF Probe, AggregateIsWorst
  <2> HIDE DEF bad, p
  <2>7. QED BY <2>1, <2>2, <2>5, <2>6 DEF Aggregate, AggregateIsWorst
<1>3. CASE ~Tick /\ ~Probe
  <2>1. wd = "check" /\ UNCHANGED <<seen, found>>
    BY <1>3
    DEF Next, Start, ListenFails, Cancel, Kill, Panic, Arrive, Handle, Authenticate, Authorize,
        Exec, Control, EmitAudit, Reply, EndStream, Watchdog, Compare, LogHealth, WatchdogEnds,
        Shutdown, LogShutdown, BeginStop, EndStop, CloseLogger, Exit, NotHandler, watchdog, vars
  <2>2. QED BY <2>1 DEF AggregateIsWorst
<1>4. QED BY <1>1, <1>2, <1>3

\* The watchdog remembers the status its last event ended with.
Story ==
    /\ HealthStory
    /\ wd = "log" => found # prev
    /\ proc = "up" /\ healthLog # <<>> =>
           prev # "unknown" /\ healthLog[Len(healthLog)].to = prev

LEMMA InitStory == Init => Story
<1> SUFFICES ASSUME Init PROVE Story
  OBVIOUS
<1>1. healthLog = <<>> /\ proc # "up" /\ wd # "log"
  BY DEF Init
<1>2. \A i \in DOMAIN healthLog : FALSE
  BY <1>1
<1>3. HealthStory
  BY <1>2 DEF HealthStory
<1>4. QED BY <1>1, <1>3 DEF Story

LEMMA NextStory == Base /\ Flow /\ Story /\ [Next]_vars => Story'
<1> SUFFICES ASSUME Base, Flow, Story, [Next]_vars PROVE Story'
  OBVIOUS
<1>0. healthLog \in Seq([from : Statuses, to : Statuses])
  BY DEF Base, WatchdogTypes
<1>1. CASE Panic
  BY <1>1 DEF Panic, Story, HealthStory, logs
<1>2. CASE Tick \/ Probe
  BY <1>2 DEF Tick, Probe, Story, HealthStory, logs
<1>3. CASE Compare
  <2>1. healthLog # <<>> => prev # "unknown" /\ healthLog[Len(healthLog)].to = prev
    BY <1>3 DEF Compare, Story
  <2>2. found \in Statuses
    BY <1>3 DEF Compare, Base, WatchdogTypes
  <2>3. healthLog' = healthLog /\ HealthStory'
    BY <1>3 DEF Compare, Story, HealthStory, logs
  <2>4. QED BY <1>3, <2>1, <2>2, <2>3 DEF Compare, Changed, Story, Statuses
<1>4. CASE LogHealth /\ logger = "open"
  <2> DEFINE event == [from |-> prev, to |-> found]
             n == Len(healthLog)
  <2>1. healthLog' = Append(healthLog, event) /\ wd' = "wait" /\ prev' = found /\ prev # found
    BY <1>4 DEF LogHealth, Remembered, Story
  <2>2. event \in [from : Statuses, to : Statuses] /\ found \in Statuses
    BY <1>4 DEF LogHealth, Base, WatchdogTypes
  <2>3. n \in Nat /\ DOMAIN healthLog = 1..n /\ (n = 0 <=> healthLog = <<>>)
    BY <1>0, LenProperties, EmptySeq
  <2>4. /\ DOMAIN healthLog' = 1..(n + 1) /\ Len(healthLog') = n + 1
        /\ \A i \in 1..n : healthLog'[i] = healthLog[i]
        /\ healthLog'[n + 1] = event
    BY <1>0, <2>1, <2>2, <2>3, AppendProperties, LenProperties
  <2>5. n > 0 => healthLog[n].to = prev
    BY <1>4, <2>3 DEF LogHealth, Story
  <2>6. HealthStory'
    <3> SUFFICES ASSUME NEW i \in 1..(n + 1)
                 PROVE  /\ healthLog'[i].from # healthLog'[i].to
                        /\ i > 1 => healthLog'[i].from = healthLog'[i - 1].to
      BY <2>4 DEF HealthStory
    <3>1. CASE i \in 1..n
      <4>1. /\ healthLog[i].from # healthLog[i].to
            /\ i > 1 => healthLog[i].from = healthLog[i - 1].to
        BY <2>3, <3>1 DEF Story, HealthStory
      <4>2. i > 1 => i - 1 \in 1..n
        BY <2>3, <3>1
      <4>3. QED BY <2>4, <3>1, <4>1, <4>2
    <3>2. CASE i = n + 1
      <4>1. i > 1 => n \in 1..n /\ i - 1 = n
        BY <2>3, <3>2
      <4>2. QED BY <2>1, <2>4, <2>5, <3>2, <4>1
    <3>3. QED BY <2>3, <3>1, <3>2
  <2>7. healthLog'[Len(healthLog')].to = prev' /\ prev' # "unknown"
    BY <2>1, <2>2, <2>4 DEF Statuses
  <2>8. QED BY <2>1, <2>6, <2>7 DEF Story
<1>5. CASE LogHealth /\ logger # "open"
  <2>1. logger = "nil"
    BY <1>5 DEF LogHealth, Base, RunTypes, Flow, Stages
  <2>2. QED BY <1>1, <1>5, <2>1 DEF LogHealth
<1>6. CASE Start \/ ListenFails
  BY <1>6 DEF Start, ListenFails, Flow, Stages, Story, HealthStory, watchdog
<1>7. CASE ~Panic /\ ~Tick /\ ~Watchdog /\ ~Start /\ ~ListenFails
  <2>1. UNCHANGED <<healthLog, wd, prev, found>> /\ (proc' = "up" => proc = "up")
    BY <1>7
    DEF Next, Cancel, Kill, Arrive, Handle, Authenticate, Authorize, Exec, Control, EmitAudit,
        Reply, EndStream, Handling, Shutdown, LogShutdown, BeginStop, EndStop, CloseLogger, Exit,
        NotHandler, watchdog, logs, vars
  <2>2. QED BY <2>1 DEF Story, HealthStory
<1>8. CASE WatchdogEnds
  BY <1>8 DEF WatchdogEnds, Story, HealthStory, logs
<1>9. QED BY <1>1, <1>2, <1>3, <1>4, <1>5, <1>6, <1>7, <1>8 DEF Watchdog

\* The result of a check is the worst that its probes gave (checker.go Check).
THEOREM AggregateWorst == Spec => []AggregateIsWorst
BY InitBase, NextBase, InitAggregate, NextAggregate, PTL DEF Spec

\* Each health_change event starts where the one before ended (main.go
\* watchdogLoop).
THEOREM HealthStoryTold == Spec => []HealthStory
<1>1. Spec => []Story
  BY InitBase, NextBase, InitFlow, NextFlow, InitStory, NextStory, PTL DEF Spec
<1>2. Story => HealthStory
  BY DEF Story
<1>3. QED BY <1>1, <1>2, PTL
=============================================================================
