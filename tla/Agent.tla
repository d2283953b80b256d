------------------------------- MODULE Agent -------------------------------
(***************************************************************************)
(* One run of hb-agent: run of cmd/hb-agent/main.go, the requests that     *)
(* internal/handler/handler.go takes through authentication, authorisation *)
(* and audit, the watchdog, and the shutdown.                              *)
(*                                                                         *)
(* The server, the shutdown and the watchdog are goroutines of one         *)
(* errgroup, and each request has one of its own.  They share the context  *)
(* that SIGTERM cancels and the audit logger, which is used as the two     *)
(* operations Log and Close (AuditLog models what they do to the files).   *)
(***************************************************************************)
EXTENDS Integers, Sequences

CONSTANTS
    Reqs,       \* the requests made
    Probes,     \* the number of health probes
    Critical,   \* the probes that are critical: those of the services plugin
    LoggerFails,\* TRUE: NewFileLogger may fail
    Kills,      \* TRUE: the agent may be killed
    MaxTicks    \* bound: ticks of the watchdog

AllKinds ==
    { "control",    \* an RPC that changes the node
      "follow",     \* Logs or Dmesg, followed until the client ends it
      "health",     \* Health
      "unknown" }   \* ServiceControl with an action or a unit it does not accept

Statuses == {"healthy", "degraded", "unhealthy"}

ASSUME ProbesAssumption == Probes \in Nat /\ Critical \subseteq 1..Probes
ASSUME FlagsAssumption == LoggerFails \in BOOLEAN /\ Kills \in BOOLEAN
ASSUME MaxTicksAssumption == MaxTicks \in Nat

VARIABLES
    proc,       \* the process
    cancelled,  \* the context of the errgroup is done
    shut,       \* the goroutine that shuts the server down
    wd,         \* the watchdog
    prev,       \* prevStatus
    found,      \* the result of the probes asked in this check
    seen,       \* the status each of these probes gave
    ticks,      \* ticks so far
    logger,     \* the audit logger: "nil" if it could not be made
    pc,         \* where each request is
    ask,        \* what it asks for, as whom, and what the policy says of that
    outcome,    \* how it came out
    reply,      \* what the client was answered
    effects,    \* requests that have changed the node
    rpcLog,     \* the events logged for each request
    healthLog,  \* the health_change events
    lifeLog     \* the startup and shutdown events

logs == <<rpcLog, healthLog, lifeLog>>
requests == <<pc, ask, outcome, reply, effects>>
watchdog == <<wd, prev, found, seen, ticks>>
vars == <<proc, cancelled, shut, logger, watchdog, requests, logs>>

NoAsk == [kind |-> "none", known |-> FALSE, policy |-> "deny"]
Outcomes == {"success", "denied", "error"}

\* What may be asked: the policy and the identity decide before the kind does.
Asks ==
    {[kind |-> k, known |-> TRUE, policy |-> "allow"] : k \in AllKinds}
    \cup {[kind |-> "control", known |-> TRUE, policy |-> p] : p \in {"deny", "error"}}
    \cup {[kind |-> "control", known |-> FALSE, policy |-> "deny"]}

TypeOK ==
    /\ proc \in {"down", "up", "exited", "crashed"}
    /\ cancelled \in BOOLEAN /\ logger \in {"none", "open", "nil", "closed"}
    /\ shut \in {"wait", "stop", "drain", "done"}
    /\ wd \in {"wait", "check", "log", "done"}
    /\ prev \in Statuses \cup {"unknown"} /\ found \in Statuses \cup {"unknown"}
    /\ seen \in Seq({"healthy", "unhealthy", "unknown"}) /\ Len(seen) <= Probes
    /\ ticks \in 0..MaxTicks
    /\ pc \in [Reqs -> {"new", "authn", "authz", "exec", "audit", "reply", "done"}]
    /\ ask \in [Reqs -> Asks \cup {NoAsk}]
    /\ outcome \in [Reqs -> Outcomes \cup {"", "unauthenticated", "unsupported"}]
    /\ reply \in [Reqs -> Outcomes \cup {"", "unauthenticated", "unsupported"}]
    /\ effects \subseteq Reqs
    /\ rpcLog \in [Reqs -> Seq(Outcomes)]
    /\ healthLog \in Seq([from : Statuses, to : Statuses])
    /\ lifeLog \in Seq({"startup", "shutdown"})

-----------------------------------------------------------------------------
Init ==
    /\ proc = "down" /\ cancelled = FALSE /\ logger = "none"
    /\ shut = "wait" /\ wd = "wait"
    /\ prev = "unknown" /\ found = "unknown" /\ seen = <<>> /\ ticks = 0
    /\ pc = [r \in Reqs |-> "new"]
    /\ ask = [r \in Reqs |-> NoAsk]
    /\ outcome = [r \in Reqs |-> ""]
    /\ reply = [r \in Reqs |-> ""]
    /\ effects = {}
    /\ rpcLog = [r \in Reqs |-> <<>>]
    /\ healthLog = <<>> /\ lifeLog = <<>>

\* emitLifecycle tests the *FileLogger itself, not an interface that holds it:
\* without a logger it logs nothing.
EmitLifecycle(state, event) ==
    lifeLog' = IF state = "open" THEN Append(lifeLog, event) ELSE lifeLog

\* run, down to the start of the three goroutines.
Start ==
    /\ proc = "down"
    /\ proc' = "up"
    /\ logger' \in {"open"} \cup (IF LoggerFails THEN {"nil"} ELSE {})
    /\ EmitLifecycle(logger', "startup")
    /\ UNCHANGED <<cancelled, shut, watchdog, requests, rpcLog, healthLog>>

\* run, when the address is taken: the start has been logged by then.
ListenFails ==
    /\ proc = "down"
    /\ proc' = "exited"
    /\ logger' \in {"closed"} \cup (IF LoggerFails THEN {"nil"} ELSE {})
    /\ EmitLifecycle(IF logger' = "nil" THEN "nil" ELSE "open", "startup")
    /\ UNCHANGED <<cancelled, shut, watchdog, requests, rpcLog, healthLog>>

\* SIGTERM, or an error of Serve.
Cancel ==
    /\ proc = "up"
    /\ ~cancelled
    /\ cancelled' = TRUE
    /\ UNCHANGED <<proc, shut, logger, watchdog, requests, logs>>

\* Nothing recovers a panic: the process is gone with all that it was doing.
Panic ==
    /\ proc' = "crashed" /\ logger' = "none"
    /\ cancelled' = FALSE /\ shut' = "wait" /\ wd' = "wait"
    /\ prev' = "unknown" /\ found' = "unknown" /\ seen' = <<>>
    /\ pc' = [r \in Reqs |-> "done"]
    /\ outcome' = [r \in Reqs |-> ""]
    /\ UNCHANGED <<ticks, ask, reply, effects, logs>>

Kill == proc = "up" /\ Kills /\ Panic

-----------------------------------------------------------------------------
(* A request. *)

Arrive(r, a) ==
    /\ proc = "up"
    /\ shut \in {"wait", "stop"}
    /\ pc[r] = "new"
    /\ ask' = [ask EXCEPT ![r] = a]
    /\ pc' = [pc EXCEPT ![r] = "authn"]
    /\ UNCHANGED <<proc, cancelled, shut, logger, watchdog, outcome, reply, effects, logs>>

Ends(r, o, where) ==
    /\ outcome' = [outcome EXCEPT ![r] = o]
    /\ pc' = [pc EXCEPT ![r] = where]

Handling(r, where) == proc = "up" /\ pc[r] = where

NotHandler == <<cancelled, shut, logger, watchdog, ask, reply>>

\* The interceptor refuses a request of no known identity; ServiceControl refuses
\* an action it does not know, and Execute a unit whose name is not valid.  All
\* three come before the first audit event.
Authenticate(r) ==
    /\ Handling(r, "authn")
    /\ CASE ~ask[r].known -> Ends(r, "unauthenticated", "reply")
         [] ask[r].known /\ ask[r].kind = "unknown" -> Ends(r, "unsupported", "reply")
         [] OTHER -> pc' = [pc EXCEPT ![r] = "authz"] /\ UNCHANGED outcome
    /\ UNCHANGED <<proc, effects, logs, NotHandler>>

\* A bug to catch: only an explicit denial stops the request.
Refusal_DenyOnly(r) == IF ask[r].policy = "deny" THEN "denied" ELSE ""

\* Execute's tests of the decision: the outcome of a refusal, or none.
Refusal(r) ==
    CASE ask[r].policy = "error" -> "error"
      [] ask[r].policy = "deny" -> "denied"
      [] OTHER -> ""

Authorize(r) ==
    /\ Handling(r, "authz")
    /\ IF Refusal(r) # ""
       THEN Ends(r, Refusal(r), "audit")
       ELSE pc' = [pc EXCEPT ![r] = "exec"] /\ UNCHANGED outcome
    /\ UNCHANGED <<proc, effects, logs, NotHandler>>

\* h.fn of an RPC that changes the node: it may fail after the change, when it
\* asks for the new state.
Control(r) ==
    /\ ask[r].kind = "control"
    /\ \/ effects' = effects \cup {r} /\ \E o \in {"success", "error"} : Ends(r, o, "audit")
       \/ effects' = effects /\ Ends(r, "error", "audit")
    /\ UNCHANGED <<proc, logs, NotHandler>>

\* The end of a followed stream: the client's doing, or journalctl's.
EndStream(r) ==
    /\ Handling(r, "exec")
    /\ ask[r].kind = "follow"
    /\ \E o \in {"success", "error"} : Ends(r, o, "audit")
    /\ UNCHANGED <<proc, effects, logs, NotHandler>>

\* buildDeps leaves Deps.Health nil, and the handler of Health calls it.
Exec(r) ==
    /\ Handling(r, "exec")
    /\ \/ Control(r)
       \/ ask[r].kind = "health" /\ Panic

\* A bug to catch: only what succeeded is logged.
Logged_SuccessOnly(r) == IF outcome[r] = "success" THEN <<"success">> ELSE <<>>

\* The events of emitAudit for a request that Execute has seen.
Logged(r) == <<outcome[r]>>

\* emitAudit, before Execute returns.  A logger that could not be made is a nil
\* *FileLogger in the interface: the nil test does not see it, and Log panics.
EmitAudit(r) ==
    /\ Handling(r, "audit")
    /\ \/ /\ logger # "nil"
          /\ rpcLog' = [rpcLog EXCEPT ![r] = IF logger = "open" THEN @ \o Logged(r) ELSE @]
          /\ pc' = [pc EXCEPT ![r] = "reply"]
          /\ UNCHANGED <<proc, outcome, effects, healthLog, lifeLog, NotHandler>>
       \/ logger = "nil" /\ Panic

Reply(r) ==
    /\ Handling(r, "reply")
    /\ reply' = [reply EXCEPT ![r] = outcome[r]]
    /\ pc' = [pc EXCEPT ![r] = "done"]
    /\ UNCHANGED <<proc, cancelled, shut, logger, watchdog, ask, outcome, effects, logs>>

Handle(r) == Authenticate(r) \/ Authorize(r) \/ Exec(r) \/ EmitAudit(r) \/ Reply(r)

-----------------------------------------------------------------------------
(* The watchdog. *)

\* The ticker; select may take a tick even if the context is done.
Tick ==
    /\ proc = "up"
    /\ wd = "wait"
    /\ ticks < MaxTicks
    /\ wd' = "check" /\ ticks' = ticks + 1
    /\ found' = "healthy" /\ seen' = <<>>
    /\ UNCHANGED <<proc, cancelled, shut, logger, prev, requests, logs>>

\* A probe of a unit is critical, the one of bootc is not and has no worse status
\* than unknown.
Bad(p) == IF p \in Critical THEN "unhealthy" ELSE "unknown"

\* What a probe looks at may change at any time, also between two probes, and a
\* probe asked when its context is done fails.
Reading(p) == {"healthy", Bad(p)}

\* A bug to catch: a later probe turns unhealthy into degraded.
Aggregate_Last(sofar, p, status) ==
    IF status = "unhealthy" /\ p \in Critical THEN "unhealthy"
    ELSE IF status # "healthy" THEN "degraded" ELSE sofar

\* Aggregator.Check's result after one more probe.
Aggregate(sofar, p, status) ==
    IF status = "unhealthy" /\ p \in Critical THEN "unhealthy"
    ELSE IF status # "healthy" /\ sofar = "healthy" THEN "degraded" ELSE sofar

\* The probes are asked one after the other.
Probe ==
    LET p == Len(seen) + 1
    IN  /\ proc = "up"
        /\ wd = "check"
        /\ p <= Probes
        /\ \E s \in Reading(p) :
               /\ seen' = Append(seen, s)
               /\ found' = Aggregate(found, p, s)
        /\ UNCHANGED <<proc, cancelled, shut, logger, wd, prev, ticks, requests, logs>>

Changed(new) == new # prev /\ prev # "unknown"

\* The watchdog compares the result with the one before.
Compare ==
    /\ proc = "up"
    /\ wd = "check"
    /\ Len(seen) = Probes
    /\ IF Changed(found)
       THEN wd' = "log" /\ UNCHANGED <<prev, found>>
       ELSE wd' = "wait" /\ prev' = found /\ found' = "unknown"
    /\ seen' = <<>>
    /\ UNCHANGED <<proc, cancelled, shut, logger, ticks, requests, logs>>

\* A bug to catch: the status is not remembered after a change was logged.
Remembered_Stale == prev

\* prevStatus after the change was logged.
Remembered == found

LogHealth ==
    /\ proc = "up"
    /\ wd = "log"
    /\ \/ /\ logger # "nil"
          /\ healthLog' = IF logger = "open"
                          THEN Append(healthLog, [from |-> prev, to |-> found])
                          ELSE healthLog
          /\ wd' = "wait" /\ prev' = Remembered
          /\ found' = "unknown"
          /\ UNCHANGED <<proc, cancelled, shut, logger, seen, ticks, requests, rpcLog, lifeLog>>
       \/ logger = "nil" /\ Panic

\* A bug to catch: the select has no case for the context.
DoneSeen_Never == FALSE

DoneSeen == cancelled

WatchdogEnds ==
    /\ proc = "up"
    /\ wd = "wait"
    /\ DoneSeen
    /\ wd' = "done"
    /\ UNCHANGED <<proc, cancelled, shut, logger, prev, found, seen, ticks, requests, logs>>

-----------------------------------------------------------------------------
(* The shutdown. *)

LogShutdown ==
    /\ proc = "up"
    /\ shut = "wait"
    /\ cancelled
    /\ EmitLifecycle(logger, "shutdown")
    /\ shut' = "stop"
    /\ UNCHANGED <<proc, cancelled, logger, watchdog, requests, rpcLog, healthLog>>

\* GracefulStop: no new requests, and then the wait for those being served.
BeginStop ==
    /\ proc = "up"
    /\ shut = "stop"
    /\ shut' = "drain"
    /\ UNCHANGED <<proc, cancelled, logger, watchdog, requests, logs>>

InService(r) == pc[r] \notin {"new", "done"}

\* A bug to catch: Stop in place of GracefulStop.
Drained_Stop == TRUE

Drained == \A r \in Reqs : ~InService(r)

EndStop ==
    /\ proc = "up"
    /\ shut = "drain"
    /\ Drained
    /\ shut' = "done"
    /\ UNCHANGED <<proc, cancelled, logger, watchdog, requests, logs>>

\* g.Wait: Serve has returned, and so have the other two goroutines.
Waited == shut = "done" /\ wd = "done"

\* The deferred Close, as run returns.
CloseLogger ==
    /\ proc = "up"
    /\ Waited
    /\ logger = "open"
    /\ logger' = "closed"
    /\ UNCHANGED <<proc, cancelled, shut, watchdog, requests, logs>>

Exit ==
    /\ proc = "up"
    /\ Waited
    /\ logger # "open"
    /\ proc' = "exited"
    /\ UNCHANGED <<cancelled, shut, logger, watchdog, requests, logs>>

Watchdog == Probe \/ Compare \/ LogHealth \/ WatchdogEnds
Shutdown == LogShutdown \/ BeginStop \/ EndStop \/ CloseLogger \/ Exit

Next ==
    \/ Start \/ ListenFails \/ Cancel \/ Kill
    \/ \E r \in Reqs, a \in Asks : Arrive(r, a)
    \/ \E r \in Reqs : Handle(r) \/ EndStream(r)
    \/ Tick \/ Watchdog
    \/ Shutdown

Spec == Init /\ [][Next]_vars

\* Each goroutine keeps running, and what a request has systemd or bootc do comes
\* to an end.  Nothing makes a client end its stream.
FairSpec ==
    /\ Spec
    /\ WF_vars(Watchdog) /\ WF_vars(Shutdown)
    /\ \A r \in Reqs : WF_vars(Handle(r))

-----------------------------------------------------------------------------
(* Properties. *)

\* Nothing changes the node but requests of a known identity that the policy
\* allows: a refusal or an error of the authorizer never reaches the function.
OnlyAuthorized ==
    \A r \in effects : ask[r].known /\ ask[r].policy = "allow"

\* A client that was told success, denied or error finds its request in the log,
\* once, with that outcome, whatever happens to the agent afterwards: emitAudit
\* comes before the answer, and no shutdown closes the logger in between.
AnswerIsLogged ==
    \A r \in Reqs : reply[r] \in Outcomes => rpcLog[r] = <<reply[r]>>

\* A shutdown loses nothing: when run returns from it, every change made to the
\* node has been logged and its client answered, and both the run's start and its
\* end are logged.
ShutdownLosesNothing ==
    proc = "exited" /\ shut = "done" /\ logger # "nil" =>
        /\ \A r \in effects : rpcLog[r] # <<>> /\ reply[r] # ""
        /\ lifeLog = <<"startup", "shutdown">>

\* Nobody has anything left to log once run has closed the logger: Log would write
\* to the closed file, and the event would be lost without a word.
ClosedLast ==
    logger = "closed" => /\ \A r \in Reqs : pc[r] \in {"new", "reply", "done"}
                         /\ wd \notin {"check", "log"}
                         /\ proc = "up" => shut = "done"

\* The result of a check is the worst of what its probes gave, whatever their
\* order, and the noncritical ones never make the node unhealthy.
AggregateIsWorst ==
    wd = "check" =>
        LET bad == {p \in DOMAIN seen : seen[p] # "healthy"}
        IN  found = IF bad \cap Critical # {} THEN "unhealthy"
                    ELSE IF bad # {} THEN "degraded" ELSE "healthy"

\* The health_change events tell one story: each starts where the last one ended.
HealthStory ==
    \A i \in DOMAIN healthLog :
        /\ healthLog[i].from # healthLog[i].to
        /\ i > 1 => healthLog[i].from = healthLog[i - 1].to

\* After SIGTERM the agent exits, or a client still follows a stream.
ShutsDown ==
    cancelled ~> \/ proc # "up"
                 \/ \E r \in Reqs : pc[r] = "exec" /\ ask[r].kind = "follow"
=============================================================================
