------------------------------- MODULE Control -------------------------------
(***************************************************************************)
(* The RPCs that change a node through other programs: Upgrade, Rollback   *)
(* and Reboot (internal/upgrade, internal/system/bootc) and ServiceControl *)
(* (serviceControlFn, internal/system/systemd), as many at a time as there *)
(* are clients.                                                            *)
(*                                                                         *)
(* Nothing in the agent orders them: each runs bootc or systemctl as a     *)
(* process of its own, killed when the context of its RPC is done, or has  *)
(* systemd queue a job and waits for it, whatever happens to the context.  *)
(* What bootc and systemd do with it is external, modelled as the code     *)
(* uses it.                                                                *)
(***************************************************************************)
EXTENDS Integers, FiniteSets

CONSTANTS
    Reqs,       \* the requests made
    Images,     \* images that may be staged
    Units,      \* units of systemd
    Invalid,    \* an argument validate.ImageRef or validate.UnitName refuses
    None,       \* nothing staged, no job
    Ops,        \* what may be asked for, a subset of OsOps \cup UnitOps
    Notices     \* TRUE: systemd's word that a job has ended may get lost

OsOps == {"upgrade", "rollback", "reboot"}
UnitOps == {"start", "stop", "restart"}

ASSUME NamesAssumption ==
    /\ Invalid \notin Images \cup Units
    /\ None \notin Images
ASSUME OpsAssumption == Ops \subseteq OsOps \cup UnitOps
ASSUME NoticesAssumption == Notices \in BOOLEAN

VARIABLES
    staged,     \* bootc's staged image, or None
    rebooting,  \* systemd has been told to reboot
    unit,       \* the state of each unit
    job,        \* the job of each unit, and who waits for its end
    pc,         \* where each request is
    ask,        \* what it asks for
    cmd,        \* its process
    notice,     \* the result sent on its channel
    gone,       \* its context is done
    since,      \* the states of what it acts on since it took effect
    answer      \* what it was answered

system == <<staged, rebooting, unit, job>>
vars == <<system, pc, ask, cmd, notice, gone, since, answer>>

States == {"active", "inactive", "failed"}
NoJob == [op |-> "none", waiters |-> {}]
NoAsk == [op |-> "none", arg |-> Invalid]
Results == {"done", "failed", "canceled"}

Asks ==
    {[op |-> "upgrade", arg |-> i] : i \in Images \cup {Invalid}}
    \cup {[op |-> o, arg |-> None] : o \in {"rollback", "reboot"}}
    \cup {[op |-> o, arg |-> u] : o \in UnitOps, u \in Units \cup {Invalid}}

NoAnswer == [ok |-> FALSE, value |-> None]

TypeOK ==
    /\ staged \in Images \cup {None}
    /\ rebooting \in BOOLEAN
    /\ unit \in [Units -> States]
    /\ job \in [Units -> [op : UnitOps \cup {"none"}, waiters : SUBSET Reqs]]
    /\ pc \in [Reqs -> {"new", "before", "command", "queue", "job", "after", "done"}]
    /\ ask \in [Reqs -> Asks \cup {NoAsk}]
    /\ cmd \in [Reqs -> {"none", "run", "took", "ok", "failed", "killed"}]
    /\ notice \in [Reqs -> Results \cup {"none"}]
    /\ gone \in [Reqs -> BOOLEAN]
    /\ since \in [Reqs -> SUBSET (Images \cup States \cup {None})]
    /\ answer \in [Reqs -> [ok : BOOLEAN, value : Images \cup States \cup {None}]]
    /\ \A u \in Units : \A r \in job[u].waiters : pc[r] \in {"job", "done"}

-----------------------------------------------------------------------------
Init ==
    /\ staged = None /\ rebooting = FALSE
    /\ unit \in [Units -> {"active", "inactive"}]
    /\ job = [u \in Units |-> NoJob]
    /\ pc = [r \in Reqs |-> "new"]
    /\ ask = [r \in Reqs |-> NoAsk]
    /\ cmd = [r \in Reqs |-> "none"]
    /\ notice = [r \in Reqs |-> "none"]
    /\ gone = [r \in Reqs |-> FALSE]
    /\ since = [r \in Reqs |-> {}]
    /\ answer = [r \in Reqs |-> NoAnswer]

Goto(r, where) == pc' = [pc EXCEPT ![r] = where]

\* The handler returns an error, or an answer.
Errs(r) == Goto(r, "done") /\ UNCHANGED answer
Answers(r, v) == Goto(r, "done") /\ answer' = [answer EXCEPT ![r] = [ok |-> TRUE, value |-> v]]

\* The handler's function is called: an argument that is not valid runs nothing.
Arrive(r, a) ==
    /\ pc[r] = "new"
    /\ ask' = [ask EXCEPT ![r] = a]
    /\ IF a.arg = Invalid THEN Goto(r, "done")
       ELSE IF a.op \in UnitOps THEN Goto(r, "queue")
       ELSE IF a.op = "reboot" THEN Goto(r, "command")
       ELSE Goto(r, "before")
    /\ UNCHANGED <<system, cmd, notice, gone, since, answer>>

\* The client leaves, or its deadline passes.
Leave(r) ==
    /\ pc[r] \notin {"new", "done"}
    /\ ~gone[r]
    /\ gone' = [gone EXCEPT ![r] = TRUE]
    /\ UNCHANGED <<system, pc, ask, cmd, notice, since, answer>>

-----------------------------------------------------------------------------
(* bootc and systemctl. *)

\* bootc status before the change: it tells the booted image, for the answer and
\* the log; an error, or a context that is done, ends the request.
Before(r) ==
    /\ pc[r] = "before"
    /\ \/ Goto(r, "command") \/ Goto(r, "done")
    /\ UNCHANGED <<system, ask, cmd, notice, gone, since, answer>>

\* A bug to catch: exec.Command in place of exec.CommandContext.
Killable_Never(r) == FALSE

\* The context reaches the process.
Killable(r) == gone[r]

Run(r) ==
    /\ pc[r] = "command"
    /\ cmd[r] = "none"
    /\ cmd' = [cmd EXCEPT ![r] = IF gone[r] /\ Killable(r) THEN "killed" ELSE "run"]
    /\ UNCHANGED <<system, pc, ask, notice, gone, since, answer>>

\* Others that have acted on the staged image see it change.
SeenOs(r, v) ==
    since' = [q \in Reqs |->
                 IF q = r THEN {v}
                 ELSE IF since[q] # {} /\ ask[q].op \in OsOps THEN since[q] \cup {v}
                 ELSE since[q]]

\* The process takes effect: a switch stages the image, a rollback drops what is
\* staged, or stages what it goes back to, and reboot has systemd begin.
TakeEffect(r) ==
    /\ cmd[r] = "run"
    /\ \/ /\ ask[r].op = "upgrade"
          /\ staged' = ask[r].arg
          /\ UNCHANGED rebooting
       \/ /\ ask[r].op = "rollback"
          /\ staged' \in Images \cup {None}
          /\ UNCHANGED rebooting
       \/ /\ ask[r].op = "reboot"
          /\ rebooting' = TRUE
          /\ UNCHANGED staged
    /\ SeenOs(r, staged')
    /\ cmd' = [cmd EXCEPT ![r] = "took"]
    /\ UNCHANGED <<unit, job, pc, ask, notice, gone, answer>>

\* It ends: it may fail at any time, after the effect too.
EndCommand(r) ==
    /\ \/ cmd[r] = "took" /\ cmd' = [cmd EXCEPT ![r] = "ok"]
       \/ cmd[r] \in {"run", "took"} /\ cmd' = [cmd EXCEPT ![r] = "failed"]
    /\ UNCHANGED <<system, pc, ask, notice, gone, since, answer>>

Kill(r) ==
    /\ cmd[r] \in {"run", "took"}
    /\ Killable(r)
    /\ cmd' = [cmd EXCEPT ![r] = "killed"]
    /\ UNCHANGED <<system, pc, ask, notice, gone, since, answer>>

\* A bug to catch: the handler leaves with its context, its process running.
Ended_OrGone(r) == gone[r] \/ cmd[r] \in {"ok", "failed", "killed"}

\* CombinedOutput returns when the process is gone, killed or not.
Ended(r) == cmd[r] \in {"ok", "failed", "killed"}

Succeeded(r) == cmd[r] = "ok"

AfterCommand(r) ==
    /\ pc[r] = "command"
    /\ Ended(r)
    /\ IF ~Succeeded(r) THEN Errs(r)
       ELSE IF ask[r].op = "reboot" THEN Answers(r, None)
       ELSE Goto(r, "after") /\ UNCHANGED answer
    /\ UNCHANGED <<system, ask, cmd, notice, gone, since>>

-----------------------------------------------------------------------------
(* systemd. *)

\* Two jobs of one unit become one, unless one of them is a stop.
Joins(o, p) == o = "stop" <=> p = "stop"

\* A channel is sent the result of its job, unless the word is lost.
Tell(rs, result) ==
    \E lost \in (IF Notices THEN SUBSET rs ELSE {{}}) :
        notice' = [r \in Reqs |-> IF r \in rs \ lost THEN result ELSE notice[r]]

\* StartUnitContext and the like in mode "replace": a job that conflicts is
\* cancelled.  The call may fail, or the context be done by then; the job may be
\* queued even so.
Queue(r) ==
    LET u == ask[r].arg
        o == ask[r].op
        old == job[u]
    IN  /\ pc[r] = "queue"
        /\ \/ /\ Goto(r, "job")
              /\ IF old.op # "none" /\ Joins(o, old.op)
                 THEN /\ job' = [job EXCEPT ![u] =
                                    [op |-> IF "restart" \in {o, old.op} THEN "restart" ELSE o,
                                     waiters |-> old.waiters \cup {r}]]
                      /\ UNCHANGED notice
                 ELSE /\ job' = [job EXCEPT ![u] = [op |-> o, waiters |-> {r}]]
                      /\ Tell(old.waiters, "canceled")
           \/ Goto(r, "done") /\ UNCHANGED <<job, notice>>
           \/ /\ Goto(r, "done")
              /\ old.op = "none"
              /\ job' = [job EXCEPT ![u] = [op |-> o, waiters |-> {}]]
              /\ UNCHANGED notice
    /\ UNCHANGED <<staged, rebooting, unit, ask, cmd, gone, since, answer>>

SeenUnit(u, rs, s) ==
    since' = [q \in Reqs |->
                 IF q \in rs THEN {s}
                 ELSE IF since[q] # {} /\ ask[q].arg = u THEN since[q] \cup {s}
                 ELSE since[q]]

\* A job ends.
EndJob(u) ==
    /\ job[u].op # "none"
    /\ \/ /\ unit' = [unit EXCEPT ![u] = IF job[u].op = "stop" THEN "inactive" ELSE "active"]
          /\ Tell(job[u].waiters, "done")
          /\ SeenUnit(u, job[u].waiters, unit'[u])
       \/ /\ \E s \in States : unit' = [unit EXCEPT ![u] = s]
          /\ Tell(job[u].waiters, "failed")
          /\ SeenUnit(u, {}, unit'[u])
    /\ job' = [job EXCEPT ![u] = NoJob]
    /\ UNCHANGED <<staged, rebooting, pc, ask, cmd, gone, answer>>

\* A unit fails by itself.
UnitFails(u) ==
    /\ unit[u] = "active"
    /\ unit' = [unit EXCEPT ![u] = "failed"]
    /\ SeenUnit(u, {}, "failed")
    /\ UNCHANGED <<staged, rebooting, job, pc, ask, cmd, notice, gone, answer>>

\* A bug to catch: any result will do.
JobDone_Any(result) == TRUE

JobDone(result) == result = "done"

\* <-ch: nothing but the result ends the wait.
AfterJob(r) ==
    /\ pc[r] = "job"
    /\ notice[r] # "none"
    /\ IF JobDone(notice[r]) THEN Goto(r, "after") /\ UNCHANGED answer ELSE Errs(r)
    /\ UNCHANGED <<system, ask, cmd, notice, gone, since>>

-----------------------------------------------------------------------------
\* bootc status, or UnitStatus, after the change: the answer is what it tells.
\* It fails when the context is done, and it may fail by itself.
After(r) ==
    /\ pc[r] = "after"
    /\ \/ ~gone[r] /\ Answers(r, IF ask[r].op \in OsOps THEN staged ELSE unit[ask[r].arg])
       \/ Errs(r)
    /\ UNCHANGED <<system, ask, cmd, notice, gone, since>>

\* The node reboots: whatever was going on is over.
Reboot ==
    /\ rebooting
    /\ rebooting' = FALSE /\ staged' = None
    /\ unit' \in [Units -> {"active", "inactive"}]
    /\ job' = [u \in Units |-> NoJob]
    /\ pc' = [r \in Reqs |-> IF pc[r] = "new" THEN "new" ELSE "done"]
    /\ cmd' = [r \in Reqs |-> IF cmd[r] \in {"run", "took"} THEN "killed" ELSE cmd[r]]
    /\ notice' = [r \in Reqs |-> "none"]
    /\ UNCHANGED <<ask, gone, since, answer>>

Proceed(r) ==
    Before(r) \/ Run(r) \/ AfterCommand(r) \/ Queue(r) \/ AfterJob(r) \/ After(r)

Next ==
    \/ \E r \in Reqs :
           \/ \E a \in {b \in Asks : b.op \in Ops} : Arrive(r, a)
           \/ Leave(r) \/ Proceed(r)
           \/ TakeEffect(r) \/ EndCommand(r) \/ Kill(r)
    \/ \E u \in Units : EndJob(u) \/ UnitFails(u)
    \/ Reboot

Spec == Init /\ [][Next]_vars

\* A handler keeps running, and a kill is carried out.  Nothing makes bootc or a
\* job of systemd come to an end.
FairSpec == Spec /\ \A r \in Reqs : WF_vars(Proceed(r)) /\ WF_vars(Kill(r))

-----------------------------------------------------------------------------
(* Properties. *)

\* Success is one's own: an answer without error means that what was asked for
\* took effect, switch, rollback, reboot or a job with result "done", and the
\* image or the state it names was the node's at a time after that, never before;
\* it may be what a later request made of it.
SuccessFollowsEffect ==
    \A r \in Reqs : answer[r].ok =>
        /\ since[r] # {}
        /\ ask[r].op # "reboot" => answer[r].value \in since[r]

\* Once a request is answered, its own process changes nothing any more: a client
\* that was told of an error and asks again is not overtaken by its first try.
NothingAfterAnswer ==
    \A r \in Reqs : pc[r] = "done" => cmd[r] \notin {"run", "took"}

\* A request whose client has gone ends, unless it waits for a job of systemd.
LeavingEnds ==
    \A r \in Reqs : gone[r] ~> pc[r] = "done" \/ [](pc[r] = "job")
=============================================================================
