---------------------------- MODULE ControlProofs ----------------------------
(***************************************************************************)
(* Proofs about Control, for any requests, images and units.               *)
(***************************************************************************)
EXTENDS Control, TLAPS

AllOps == OsOps \cup UnitOps

(* The types, in two groups: the node, and each request. *)

Values == Images \cup States \cup {None}

NodeTypes ==
    /\ staged \in Images \cup {None}
    /\ rebooting \in BOOLEAN
    /\ unit \in [Units -> States]
    /\ job \in [Units -> [op : UnitOps \cup {"none"}, waiters : SUBSET Reqs]]

RequestTypes ==
    /\ pc \in [Reqs -> {"new", "before", "command", "queue", "job", "after", "done"}]
    /\ ask \in [Reqs -> Asks \cup {NoAsk}]
    /\ cmd \in [Reqs -> {"none", "run", "took", "ok", "failed", "killed"}]
    /\ notice \in [Reqs -> Results \cup {"none"}]
    /\ gone \in [Reqs -> BOOLEAN]
    /\ since \in [Reqs -> SUBSET Values]
    /\ answer \in [Reqs -> [ok : BOOLEAN, value : Values]]

\* Where a request is, what it asks for and how far its process is.
PathOf(r) ==
    /\ pc[r] \in {"before", "command"} => ask[r].op \in OsOps /\ ask[r].arg # Invalid
    /\ pc[r] \in {"queue", "job"} => ask[r].op \in UnitOps /\ ask[r].arg # Invalid
    /\ pc[r] = "after" => ask[r].op \in AllOps \ {"reboot"} /\ ask[r].arg # Invalid
    /\ cmd[r] \in {"run", "took"} => pc[r] = "command"
    /\ pc[r] \in {"new", "before", "queue", "job"} => cmd[r] = "none"
    /\ pc[r] \in {"new", "before", "queue"} => notice[r] = "none"
    /\ pc[r] = "after" /\ ask[r].op \in OsOps => cmd[r] = "ok"
    /\ answer[r].ok => pc[r] = "done"

\* What it has seen since it took effect: what it acted on is as it was seen last.
EffectOf(r) ==
    /\ pc[r] \in {"command", "after"} /\ cmd[r] \in {"took", "ok"} /\ ask[r].op \in OsOps =>
           since[r] # {} /\ (ask[r].op # "reboot" => staged \in since[r])
    /\ \/ pc[r] = "job" /\ notice[r] = "done"
       \/ pc[r] = "after" /\ ask[r].op \in UnitOps
       => since[r] # {} /\ unit[ask[r].arg] \in since[r]
    /\ answer[r].ok => since[r] # {} /\ (ask[r].op # "reboot" => answer[r].value \in since[r])

\* Who waits for a job is still to be told.
WaitersOf(u) ==
    \A r \in job[u].waiters :
        /\ pc[r] = "job" /\ notice[r] = "none"
        /\ ask[r].arg = u

Inv ==
    /\ NodeTypes /\ RequestTypes
    /\ \A r \in Reqs : PathOf(r) /\ EffectOf(r)
    /\ \A u \in Units : WaitersOf(u)

-----------------------------------------------------------------------------
LEMMA AskFacts ==
    \A a \in Asks \cup {NoAsk} :
        /\ a.op \in AllOps \cup {"none"}
        /\ a.op = "upgrade" /\ a.arg # Invalid => a.arg \in Images
        /\ a.op \in UnitOps /\ a.arg # Invalid => a.arg \in Units
BY DEF Asks, NoAsk, AllOps, OsOps, UnitOps

LEMMA InitInv == Init => Inv
<1> SUFFICES ASSUME Init PROVE Inv
  OBVIOUS
<1>1. NodeTypes
  BY DEF Init, NodeTypes, NoJob, States, UnitOps
<1>2. RequestTypes
  BY DEF Init, RequestTypes, NoAnswer, Values, Results
<1>3. ASSUME NEW r \in Reqs PROVE PathOf(r) /\ EffectOf(r)
  BY <1>3 DEF Init, PathOf, EffectOf, NoAnswer
<1>4. ASSUME NEW u \in Units PROVE WaitersOf(u)
  BY <1>4 DEF Init, WaitersOf, NoJob
<1>5. QED BY <1>1, <1>2, <1>3, <1>4 DEF Inv

\* A step of request r that leaves the node and the others alone.
Local(r) ==
    /\ UNCHANGED <<system, since>>
    /\ \A s \in Reqs \ {r} :
           /\ pc'[s] = pc[s] /\ ask'[s] = ask[s] /\ cmd'[s] = cmd[s]
           /\ notice'[s] = notice[s] /\ answer'[s] = answer[s]

LEMMA LocalKeeps ==
    ASSUME Inv, NEW r \in Reqs, Local(r), RequestTypes', PathOf(r)', EffectOf(r)',
           \A u \in Units : r \notin job[u].waiters
    PROVE  Inv'
<1>1. NodeTypes'
  BY DEF Inv, NodeTypes, Local, system
<1>2. ASSUME NEW s \in Reqs PROVE PathOf(s)' /\ EffectOf(s)'
  <2>1. CASE s = r
    BY <2>1
  <2>2. CASE s # r
    <3>1. PathOf(s) /\ EffectOf(s)
      BY DEF Inv
    <3>2. /\ pc'[s] = pc[s] /\ ask'[s] = ask[s] /\ cmd'[s] = cmd[s]
          /\ notice'[s] = notice[s] /\ answer'[s] = answer[s]
          /\ since' = since /\ staged' = staged /\ unit' = unit
      BY <2>2 DEF Local, system
    <3>3. PathOf(s)'
      BY <3>1, <3>2 DEF PathOf
    <3>4. EffectOf(s)'
      BY <3>1, <3>2 DEF EffectOf
    <3>5. QED BY <3>3, <3>4
  <2>3. QED BY <2>1, <2>2
<1>3. ASSUME NEW u \in Units PROVE WaitersOf(u)'
  <2>1. ASSUME NEW s \in job[u].waiters PROVE s \in Reqs \ {r}
    BY <2>1 DEF Inv, NodeTypes
  <2>2. job' = job
    BY DEF Local, system
  <2>3. QED BY <2>1, <2>2 DEF Inv, WaitersOf, Local
<1>4. QED BY <1>1, <1>2, <1>3 DEF Inv

LEMMA AnswerType ==
    ASSUME RequestTypes, NEW r \in Reqs, NEW v \in Values, Answers(r, v)
    PROVE  answer' \in [Reqs -> [ok : BOOLEAN, value : Values]]
<1>1. [ok |-> TRUE, value |-> v] \in [ok : BOOLEAN, value : Values]
  OBVIOUS
<1>2. QED BY <1>1 DEF Answers, RequestTypes

\* The steps of a request and of its process that change nothing of the node.
LEMMA LocalSteps ==
    ASSUME Inv, NEW r \in Reqs,
           \/ \E a \in {b \in Asks : b.op \in Ops} : Arrive(r, a)
           \/ Leave(r) \/ Before(r) \/ Run(r) \/ EndCommand(r) \/ Kill(r)
           \/ AfterCommand(r) \/ AfterJob(r) \/ After(r)
    PROVE  Inv'
<1>0. NodeTypes /\ RequestTypes /\ PathOf(r) /\ EffectOf(r)
  BY DEF Inv
<1>w. ASSUME pc[r] # "job" \/ notice[r] # "none" PROVE \A u \in Units : r \notin job[u].waiters
  BY <1>w DEF Inv, WaitersOf
<1>a. /\ ask[r].op \in AllOps \cup {"none"}
      /\ ask[r].op \in UnitOps /\ ask[r].arg # Invalid => ask[r].arg \in Units
  BY <1>0, AskFacts DEF RequestTypes
<1> USE DEF Goto, system
<1>1. CASE \E a \in {b \in Asks : b.op \in Ops} : Arrive(r, a)
  <2>1. PICK a \in Asks : Arrive(r, a) /\ a.op \in AllOps
    BY <1>1, OpsAssumption DEF AllOps
  <2>2. Local(r)
    BY <1>0, <2>1 DEF Arrive, RequestTypes, Local
  <2>3. RequestTypes'
    BY <1>0, <1>a, <2>1 DEF Arrive, RequestTypes, Values
  <2>4. PathOf(r)'
    BY <1>0, <1>a, <2>1 DEF Arrive, RequestTypes, PathOf, AllOps, OsOps, UnitOps
  <2>5. EffectOf(r)'
    BY <1>0, <1>a, <2>1 DEF Arrive, RequestTypes, PathOf, EffectOf, AllOps, OsOps, UnitOps
  <2>6. \A u \in Units : r \notin job[u].waiters
    BY <1>0, <1>w, <2>1 DEF Arrive, PathOf
  <2>7. QED BY <2>2, <2>3, <2>4, <2>5, <2>6, LocalKeeps
<1>2. CASE Leave(r)
  <2>1. RequestTypes'
    BY <1>0, <1>2 DEF Leave, RequestTypes
  <2>2. ASSUME NEW s \in Reqs PROVE PathOf(s)' /\ EffectOf(s)'
    BY <1>2 DEF Leave, Inv, PathOf, EffectOf
  <2>3. ASSUME NEW u \in Units PROVE WaitersOf(u)'
    BY <1>2 DEF Leave, Inv, WaitersOf
  <2>4. NodeTypes'
    BY <1>0, <1>2 DEF Leave, NodeTypes
  <2>5. QED BY <2>1, <2>2, <2>3, <2>4 DEF Inv
<1>3. CASE Before(r)
  <2>2. Local(r)
    BY <1>0, <1>3 DEF Before, RequestTypes, Local
  <2>3. RequestTypes'
    BY <1>0, <1>a, <1>3 DEF Before, RequestTypes, Values
  <2>4. PathOf(r)'
    BY <1>0, <1>a, <1>3 DEF Before, RequestTypes, PathOf, AllOps, OsOps, UnitOps
  <2>5. EffectOf(r)'
    BY <1>0, <1>a, <1>3 DEF Before, RequestTypes, PathOf, EffectOf, AllOps, OsOps, UnitOps
  <2>6. \A u \in Units : r \notin job[u].waiters
    BY <1>0, <1>w, <1>3 DEF Before, PathOf
  <2>7. QED BY <2>2, <2>3, <2>4, <2>5, <2>6, LocalKeeps
<1>4. CASE Run(r)
  <2>2. Local(r)
    BY <1>0, <1>4 DEF Run, RequestTypes, Local
  <2>3. RequestTypes'
    BY <1>0, <1>a, <1>4 DEF Run, RequestTypes, Values
  <2>4. PathOf(r)'
    BY <1>0, <1>a, <1>4 DEF Run, RequestTypes, PathOf, AllOps, OsOps, UnitOps
  <2>5. EffectOf(r)'
    BY <1>0, <1>a, <1>4 DEF Run, RequestTypes, PathOf, EffectOf, AllOps, OsOps, UnitOps
  <2>6. \A u \in Units : r \notin job[u].waiters
    BY <1>0, <1>w, <1>4 DEF Run, PathOf
  <2>7. QED BY <2>2, <2>3, <2>4, <2>5, <2>6, LocalKeeps
<1>5. CASE EndCommand(r)
  <2>2. Local(r)
    BY <1>0, <1>5 DEF EndCommand, RequestTypes, Local
  <2>3. RequestTypes'
    BY <1>0, <1>a, <1>5 DEF EndCommand, RequestTypes, Values
  <2>4. PathOf(r)'
    BY <1>0, <1>a, <1>5 DEF EndCommand, RequestTypes, PathOf, AllOps, OsOps, UnitOps
  <2>5. EffectOf(r)'
    BY <1>0, <1>a, <1>5 DEF EndCommand, RequestTypes, PathOf, EffectOf, AllOps, OsOps, UnitOps
  <2>6. \A u \in Units : r \notin job[u].waiters
    BY <1>0, <1>w, <1>5 DEF EndCommand, PathOf
  <2>7. QED BY <2>2, <2>3, <2>4, <2>5, <2>6, LocalKeeps
<1>6. CASE Kill(r)
  <2>2. Local(r)
    BY <1>0, <1>6 DEF Kill, RequestTypes, Local
  <2>3. RequestTypes'
    BY <1>0, <1>a, <1>6 DEF Kill, RequestTypes, Values
  <2>4. PathOf(r)'
    BY <1>0, <1>a, <1>6 DEF Kill, RequestTypes, PathOf, AllOps, OsOps, UnitOps
  <2>5. EffectOf(r)'
    BY <1>0, <1>a, <1>6 DEF Kill, RequestTypes, PathOf, EffectOf, AllOps, OsOps, UnitOps
  <2>6. \A u \in Units : r \notin job[u].waiters
    BY <1>0, <1>w, <1>6 DEF Kill, PathOf
  <2>7. QED BY <2>2, <2>3, <2>4, <2>5, <2>6, LocalKeeps
<1>7. CASE AfterCommand(r)
  <2>2. Local(r)
    BY <1>0, <1>7 DEF AfterCommand, Errs, Answers, Ended, Succeeded, RequestTypes, Local
  <2>3. RequestTypes'
    <3>1. answer' \in [Reqs -> [ok : BOOLEAN, value : Values]]
      BY <1>0, <1>7, AnswerType DEF AfterCommand, Errs, RequestTypes, Values
    <3>2. QED BY <1>0, <1>7, <3>1 DEF AfterCommand, Errs, Answers, RequestTypes
  <2>4. PathOf(r)'
    BY <1>0, <1>a, <1>7 DEF AfterCommand, Errs, Answers, Ended, Succeeded, RequestTypes, PathOf, AllOps, OsOps, UnitOps
  <2>5. EffectOf(r)'
    BY <1>0, <1>a, <1>7 DEF AfterCommand, Errs, Answers, Ended, Succeeded, RequestTypes, PathOf, EffectOf, AllOps, OsOps, UnitOps
  <2>6. \A u \in Units : r \notin job[u].waiters
    BY <1>0, <1>w, <1>7 DEF AfterCommand, PathOf
  <2>7. QED BY <2>2, <2>3, <2>4, <2>5, <2>6, LocalKeeps
<1>8. CASE AfterJob(r)
  <2>2. Local(r)
    BY <1>0, <1>8 DEF AfterJob, Errs, JobDone, RequestTypes, Local
  <2>3. RequestTypes'
    BY <1>0, <1>a, <1>8 DEF AfterJob, Errs, JobDone, RequestTypes, Values
  <2>4. PathOf(r)'
    BY <1>0, <1>a, <1>8 DEF AfterJob, Errs, JobDone, RequestTypes, PathOf, AllOps, OsOps, UnitOps
  <2>5. EffectOf(r)'
    BY <1>0, <1>a, <1>8 DEF AfterJob, Errs, JobDone, RequestTypes, PathOf, EffectOf, AllOps, OsOps, UnitOps
  <2>6. \A u \in Units : r \notin job[u].waiters
    BY <1>0, <1>w, <1>8 DEF AfterJob, PathOf
  <2>7. QED BY <2>2, <2>3, <2>4, <2>5, <2>6, LocalKeeps
<1>9. CASE After(r)
  <2>1. staged \in Values /\ (ask[r].op \in UnitOps => unit[ask[r].arg] \in Values)
    BY <1>0, <1>a, <1>9 DEF After, PathOf, NodeTypes, Values
  <2>2. Local(r)
    BY <1>0, <1>9 DEF After, Errs, Answers, RequestTypes, Local
  <2>3. RequestTypes'
    <3>1. answer' \in [Reqs -> [ok : BOOLEAN, value : Values]]
      <4> DEFINE v == IF ask[r].op \in OsOps THEN staged ELSE unit[ask[r].arg]
      <4>1. v \in Values
        BY <1>0, <1>9, <2>1 DEF After, PathOf, AllOps
      <4>2. CASE Answers(r, v)
        <5> HIDE DEF v
        <5>1. QED BY <1>0, <4>1, <4>2, AnswerType
      <4>3. CASE UNCHANGED answer
        BY <1>0, <4>3 DEF RequestTypes
      <4>4. QED BY <1>9, <4>2, <4>3 DEF After, Errs
    <3>2. QED BY <1>0, <1>9, <3>1 DEF After, Errs, Answers, RequestTypes
  <2>4. PathOf(r)'
    BY <1>0, <1>a, <1>9, <2>1 DEF After, Errs, Answers, RequestTypes, PathOf, AllOps, OsOps, UnitOps
  <2>5. EffectOf(r)'
    BY <1>0, <1>a, <1>9, <2>1 DEF After, Errs, Answers, RequestTypes, PathOf, EffectOf, AllOps, OsOps, UnitOps
  <2>6. \A u \in Units : r \notin job[u].waiters
    BY <1>0, <1>w, <1>9 DEF After, PathOf
  <2>7. QED BY <2>2, <2>3, <2>4, <2>5, <2>6, LocalKeeps
<1>10. QED BY <1>1, <1>2, <1>3, <1>4, <1>5, <1>6, <1>7, <1>8, <1>9

-----------------------------------------------------------------------------
(* The steps that change the node. *)

\* What has been seen of the image grows with it.
LEMMA TakeEffectInv == ASSUME Inv, NEW r \in Reqs, TakeEffect(r) PROVE Inv'
<1>0. NodeTypes /\ RequestTypes /\ PathOf(r)
  BY DEF Inv
<1>1. cmd[r] = "run" /\ pc[r] = "command" /\ ask[r].op \in OsOps /\ ~answer[r].ok
  BY <1>0 DEF TakeEffect, PathOf
<1>2. staged' \in Images \cup {None}
  BY <1>0, <1>1, AskFacts DEF TakeEffect, RequestTypes, NodeTypes, PathOf
<1>3. NodeTypes'
  BY <1>0, <1>2 DEF TakeEffect, NodeTypes
<1>4. RequestTypes'
  <2>1. since' \in [Reqs -> SUBSET Values]
    BY <1>0, <1>2 DEF TakeEffect, SeenOs, RequestTypes, Values
  <2>2. QED BY <1>0, <2>1 DEF TakeEffect, RequestTypes
<1>5. ASSUME NEW s \in Reqs PROVE PathOf(s)' /\ EffectOf(s)'
  <2>1. PathOf(s) /\ EffectOf(s)
    BY DEF Inv
  <2>2. /\ pc'[s] = pc[s] /\ ask'[s] = ask[s] /\ notice'[s] = notice[s] /\ answer'[s] = answer[s]
        /\ unit' = unit
        /\ cmd'[s] = IF s = r THEN "took" ELSE cmd[s]
        /\ since'[s] = IF s = r THEN {staged'}
                       ELSE IF since[s] # {} /\ ask[s].op \in OsOps THEN since[s] \cup {staged'}
                       ELSE since[s]
    BY <1>0 DEF TakeEffect, SeenOs, RequestTypes
  <2>3. PathOf(s)'
    BY <1>1, <2>1, <2>2 DEF PathOf
  <2>4. ask[s].op \in OsOps => ask[s].op \notin UnitOps
    BY DEF OsOps, UnitOps
  <2>5. EffectOf(s)'
    BY <1>1, <2>1, <2>2, <2>4 DEF EffectOf
  <2>6. QED BY <2>3, <2>5
<1>6. ASSUME NEW u \in Units PROVE WaitersOf(u)'
  BY <1>6 DEF TakeEffect, Inv, WaitersOf
<1>7. QED BY <1>3, <1>4, <1>5, <1>6 DEF Inv

\* A step that leaves the requests where they are and adds to what they have seen
\* of unit u its state, and tells some who waited for its job.
LEMMA UnitSeen ==
    ASSUME Inv, NEW u \in Units, NEW rs \in SUBSET job[u].waiters,
           UNCHANGED <<staged, pc, ask, cmd, answer>>, SeenUnit(u, rs, unit'[u]),
           \A v \in Units \ {u} : unit'[v] = unit[v],
           \A s \in Reqs :
               \/ notice'[s] = notice[s]
               \/ s \in job[u].waiters /\ (notice'[s] # "done" \/ s \in rs)
    PROVE  \A s \in Reqs : PathOf(s)' /\ EffectOf(s)'
<1> SUFFICES ASSUME NEW s \in Reqs PROVE PathOf(s)' /\ EffectOf(s)'
  OBVIOUS
<1>1. PathOf(s) /\ EffectOf(s) /\ ask[s] \in Asks \cup {NoAsk}
  BY DEF Inv, RequestTypes
<1>3. s \in job[u].waiters => pc[s] = "job" /\ ask[s].arg = u
  BY DEF Inv, WaitersOf
<1>2. PathOf(s)'
  BY <1>1, <1>3 DEF PathOf
<1>4. since'[s] = IF s \in rs THEN {unit'[u]}
                  ELSE IF since[s] # {} /\ ask[s].arg = u THEN since[s] \cup {unit'[u]}
                  ELSE since[s]
  BY DEF SeenUnit
<1>5. ask[s].op \in UnitOps /\ ask[s].arg # Invalid => ask[s].arg \in Units
  BY <1>1, AskFacts
<1>6. pc[s] \in {"job", "after"} => ask[s].arg # Invalid /\ (pc[s] = "job" => ask[s].op \in UnitOps)
  BY <1>1 DEF PathOf
<1>7. answer[s].ok => s \notin rs
  BY <1>1, <1>3 DEF PathOf
<1>8. EffectOf(s)'
  <2>1. pc[s] \in {"command", "after"} /\ cmd[s] \in {"took", "ok"} /\ ask[s].op \in OsOps =>
            since'[s] # {} /\ (ask[s].op # "reboot" => staged' \in since'[s])
    BY <1>1, <1>3, <1>4 DEF EffectOf
  <2>2. \/ pc[s] = "job" /\ notice'[s] = "done"
        \/ pc[s] = "after" /\ ask[s].op \in UnitOps
        => since'[s] # {} /\ unit'[ask[s].arg] \in since'[s]
    BY <1>1, <1>3, <1>4, <1>5, <1>6 DEF EffectOf
  <2>3. answer[s].ok => since'[s] # {} /\ (ask[s].op # "reboot" => answer[s].value \in since'[s])
    BY <1>1, <1>4, <1>7 DEF EffectOf
  <2>4. QED BY <2>1, <2>2, <2>3 DEF EffectOf
<1>9. QED BY <1>2, <1>8

LEMMA SinceType ==
    ASSUME RequestTypes, NEW u, NEW rs, NEW v \in States, SeenUnit(u, rs, v)
    PROVE  since' \in [Reqs -> SUBSET Values]
BY DEF RequestTypes, SeenUnit, Values

LEMMA NoticeType ==
    ASSUME RequestTypes, NEW rs, NEW result \in Results, Tell(rs, result)
    PROVE  /\ notice' \in [Reqs -> Results \cup {"none"}]
           /\ \A s \in Reqs : notice'[s] = notice[s] \/ (s \in rs /\ notice'[s] = result)
BY DEF RequestTypes, Tell

LEMMA EndJobInv == ASSUME Inv, NEW u \in Units, EndJob(u) PROVE Inv'
<1>0. NodeTypes /\ RequestTypes
  BY DEF Inv
<1> DEFINE rs == job[u].waiters
<1>1. PICK s \in States : unit' = [unit EXCEPT ![u] = s]
  BY DEF EndJob, States
<1>2. \/ Tell(rs, "done") /\ SeenUnit(u, rs, unit'[u])
      \/ Tell(rs, "failed") /\ SeenUnit(u, {}, unit'[u])
  BY DEF EndJob
<1>3. unit'[u] \in States /\ \A v \in Units \ {u} : unit'[v] = unit[v]
  BY <1>0, <1>1 DEF NodeTypes
<1>4. NodeTypes'
  <2>1. NoJob \in [op : UnitOps \cup {"none"}, waiters : SUBSET Reqs]
    BY DEF NoJob
  <2>2. job' \in [Units -> [op : UnitOps \cup {"none"}, waiters : SUBSET Reqs]]
    BY <1>0, <2>1 DEF EndJob, NodeTypes
  <2>3. QED BY <1>0, <1>1, <2>2 DEF EndJob, NodeTypes
<1>5. /\ notice' \in [Reqs -> Results \cup {"none"}]
      /\ \A q \in Reqs :
             \/ notice'[q] = notice[q]
             \/ q \in rs /\ (notice'[q] = "done" => SeenUnit(u, rs, unit'[u]))
  BY <1>0, <1>2, NoticeType DEF Results
<1>6. RequestTypes'
  <2>1. since' \in [Reqs -> SUBSET Values]
    BY <1>0, <1>2, <1>3, SinceType
  <2>2. QED BY <1>0, <1>5, <2>1 DEF EndJob, RequestTypes
<1>7. \A q \in Reqs : PathOf(q)' /\ EffectOf(q)'
  <2>1. CASE Tell(rs, "done") /\ SeenUnit(u, rs, unit'[u])
    BY <1>3, <1>5, <2>1, UnitSeen DEF EndJob
  <2>2. CASE Tell(rs, "failed") /\ SeenUnit(u, {}, unit'[u])
    <3>1. \A q \in Reqs : notice'[q] = notice[q] \/ (q \in rs /\ notice'[q] # "done")
      BY <1>0, <2>2, NoticeType DEF Results
    <3>2. {} \in SUBSET job[u].waiters
      OBVIOUS
    <3>3. QED BY <1>3, <2>2, <3>1, <3>2, UnitSeen DEF EndJob
  <2>3. QED BY <1>2, <2>1, <2>2
<1>8. ASSUME NEW v \in Units PROVE WaitersOf(v)'
  <2>1. CASE v = u
    BY <1>0, <2>1 DEF EndJob, NodeTypes, WaitersOf, NoJob
  <2>2. CASE v # u
    <3>1. job'[v] = job[v] /\ pc' = pc /\ ask' = ask
      BY <1>0, <2>2 DEF EndJob, NodeTypes
    <3>2. ASSUME NEW q \in job[v].waiters PROVE q \in Reqs /\ q \notin rs
      BY <1>0, <2>2 DEF NodeTypes, Inv, WaitersOf
    <3>3. QED BY <1>5, <3>1, <3>2 DEF Inv, WaitersOf
  <2>3. QED BY <2>1, <2>2
<1>9. QED BY <1>4, <1>6, <1>7, <1>8 DEF Inv

LEMMA UnitFailsInv == ASSUME Inv, NEW u \in Units, UnitFails(u) PROVE Inv'
<1>0. NodeTypes /\ RequestTypes
  BY DEF Inv
<1>1. unit'[u] = "failed" /\ \A v \in Units \ {u} : unit'[v] = unit[v]
  BY <1>0 DEF UnitFails, NodeTypes
<1>2. NodeTypes'
  BY <1>0 DEF UnitFails, NodeTypes, States
<1>3. RequestTypes'
  <2>1. since' \in [Reqs -> SUBSET Values]
    BY <1>0, SinceType DEF UnitFails, States
  <2>2. QED BY <1>0, <2>1 DEF UnitFails, RequestTypes
<1>4. \A q \in Reqs : PathOf(q)' /\ EffectOf(q)'
  <2>1. {} \in SUBSET job[u].waiters /\ SeenUnit(u, {}, unit'[u])
    BY <1>1 DEF UnitFails
  <2>2. QED BY <1>1, <2>1, UnitSeen DEF UnitFails
<1>5. ASSUME NEW v \in Units PROVE WaitersOf(v)'
  BY DEF UnitFails, Inv, WaitersOf
<1>6. QED BY <1>2, <1>3, <1>4, <1>5 DEF Inv

LEMMA QueueInv == ASSUME Inv, NEW r \in Reqs, Queue(r) PROVE Inv'
<1>0. NodeTypes /\ RequestTypes /\ PathOf(r)
  BY DEF Inv
<1> DEFINE u == ask[r].arg
           o == ask[r].op
           old == job[u]
<1>1. u \in Units /\ o \in UnitOps /\ pc[r] = "queue"
  BY <1>0, AskFacts DEF Queue, PathOf, RequestTypes
<1>2. old \in [op : UnitOps \cup {"none"}, waiters : SUBSET Reqs] /\ r \notin old.waiters
  BY <1>0, <1>1 DEF NodeTypes, Inv, WaitersOf
<1>3. /\ UNCHANGED <<staged, rebooting, unit, ask, cmd, gone, since, answer>>
      /\ \E where \in {"job", "done"} : pc' = [pc EXCEPT ![r] = where]
  BY DEF Queue, Goto
<1>4. PICK p \in UnitOps, ws \in SUBSET (old.waiters \cup {r}) :
          /\ job' = job \/ job' = [job EXCEPT ![u] = [op |-> p, waiters |-> ws]]
          /\ job' = job => pc'[r] = "done" /\ notice' = notice
          /\ \/ notice' = notice
             \/ Tell(old.waiters, "canceled") /\ ws = {r}
          /\ r \in ws => pc'[r] = "job"
  <2>1. CASE old.op # "none" /\ Joins(o, old.op) /\ pc' = [pc EXCEPT ![r] = "job"] /\ notice' = notice
             /\ job' = [job EXCEPT ![u] = [op |-> IF "restart" \in {o, old.op} THEN "restart" ELSE o,
                                          waiters |-> old.waiters \cup {r}]]
    <3> DEFINE p == IF "restart" \in {o, old.op} THEN "restart" ELSE o
               ws == old.waiters \cup {r}
    <3>1. p \in UnitOps
      BY <1>1 DEF UnitOps
    <3>2. job'[u].waiters = ws /\ pc'[r] = "job"
      BY <1>0, <1>1, <2>1 DEF NodeTypes, RequestTypes
    <3>3. job' # job
      BY <1>2, <3>2
    <3>4. QED BY <2>1, <3>1, <3>2, <3>3
  <2>2. CASE /\ pc' = [pc EXCEPT ![r] = "job"]
             /\ job' = [job EXCEPT ![u] = [op |-> o, waiters |-> {r}]]
             /\ Tell(old.waiters, "canceled")
    <3>1. job'[u].waiters = {r} /\ pc'[r] = "job"
      BY <1>0, <1>1, <2>2 DEF NodeTypes, RequestTypes
    <3>2. job' # job
      BY <1>2, <3>1
    <3>3. QED BY <1>1, <2>2, <3>1, <3>2
  <2>3. CASE pc' = [pc EXCEPT ![r] = "done"] /\ job' = job /\ notice' = notice
    <3> DEFINE ws == {}
    <3>1. pc'[r] = "done"
      BY <1>0, <2>3 DEF RequestTypes
    <3>2. ws \in SUBSET (old.waiters \cup {r}) /\ r \notin ws
      OBVIOUS
    <3> HIDE DEF ws
    <3>3. QED BY <1>1, <2>3, <3>1, <3>2
  <2>4. CASE /\ pc' = [pc EXCEPT ![r] = "done"] /\ notice' = notice
             /\ job' = [job EXCEPT ![u] = [op |-> o, waiters |-> {}]]
    <3>1. pc'[r] = "done"
      BY <1>0, <2>4 DEF RequestTypes
    <3> DEFINE ws == {}
    <3>2. ws \in SUBSET (old.waiters \cup {r}) /\ r \notin ws
      OBVIOUS
    <3>3. job' = [job EXCEPT ![u] = [op |-> o, waiters |-> ws]]
      BY <2>4
    <3> HIDE DEF ws
    <3>4. QED BY <1>1, <2>4, <3>1, <3>2, <3>3
  <2>5. CASE /\ pc' = [pc EXCEPT ![r] = "job"]
             /\ IF old.op # "none" /\ Joins(o, old.op)
                THEN /\ job' = [job EXCEPT ![u] =
                                   [op |-> IF "restart" \in {o, old.op} THEN "restart" ELSE o,
                                    waiters |-> old.waiters \cup {r}]]
                     /\ UNCHANGED notice
                ELSE /\ job' = [job EXCEPT ![u] = [op |-> o, waiters |-> {r}]]
                     /\ Tell(old.waiters, "canceled")
    <3>1. CASE old.op # "none" /\ Joins(o, old.op)
      BY <2>1, <2>5, <3>1
    <3>2. CASE ~(old.op # "none" /\ Joins(o, old.op))
      BY <2>2, <2>5, <3>2
    <3>3. QED BY <3>1, <3>2
  <2>6. \/ pc' = [pc EXCEPT ![r] = "done"] /\ job' = job /\ notice' = notice
        \/ /\ pc' = [pc EXCEPT ![r] = "done"] /\ notice' = notice
           /\ job' = [job EXCEPT ![u] = [op |-> o, waiters |-> {}]]
        \/ /\ pc' = [pc EXCEPT ![r] = "job"]
           /\ IF old.op # "none" /\ Joins(o, old.op)
              THEN /\ job' = [job EXCEPT ![u] =
                                 [op |-> IF "restart" \in {o, old.op} THEN "restart" ELSE o,
                                  waiters |-> old.waiters \cup {r}]]
                   /\ UNCHANGED notice
              ELSE /\ job' = [job EXCEPT ![u] = [op |-> o, waiters |-> {r}]]
                   /\ Tell(old.waiters, "canceled")
    BY DEF Queue, Goto
  <2>7. QED BY <2>3, <2>4, <2>5, <2>6
<1>5. \A s \in Reqs :
          \/ notice'[s] = notice[s]
          \/ s \in old.waiters /\ notice'[s] = "canceled" /\ ws = {r}
  BY <1>0, <1>4, NoticeType DEF Results
<1>6. NodeTypes'
  <2>1. [op |-> p, waiters |-> ws] \in [op : UnitOps \cup {"none"}, waiters : SUBSET Reqs]
    BY <1>2, <1>4
  <2>2. job' \in [Units -> [op : UnitOps \cup {"none"}, waiters : SUBSET Reqs]]
    BY <1>0, <1>4, <2>1 DEF NodeTypes
  <2>3. QED BY <1>0, <1>3, <2>2 DEF NodeTypes
<1>7. RequestTypes'
  <2>1. notice' \in [Reqs -> Results \cup {"none"}]
    BY <1>0, <1>4, NoticeType DEF RequestTypes, Results
  <2>2. QED BY <1>0, <1>3, <2>1 DEF RequestTypes
<1>8. ASSUME NEW s \in Reqs PROVE PathOf(s)' /\ EffectOf(s)'
  <2>1. PathOf(s) /\ EffectOf(s)
    BY DEF Inv
  <2>2. CASE s = r
    <3>1. pc'[r] \in {"job", "done"} /\ notice'[r] = "none" /\ cmd'[r] = "none" /\ ~answer'[r].ok
      BY <1>0, <1>1, <1>2, <1>3, <1>5 DEF RequestTypes, PathOf
    <3>2. PathOf(r)'
      BY <1>1, <1>0, <1>3, <3>1 DEF PathOf
    <3>3. EffectOf(r)'
      BY <3>1 DEF EffectOf
    <3>4. QED BY <2>2, <3>2, <3>3
  <2>3. CASE s # r
    <3>1. pc'[s] = pc[s]
      BY <1>0, <1>3, <2>3 DEF RequestTypes
    <3>2. notice'[s] = notice[s] \/ (pc[s] = "job" /\ notice'[s] = "canceled")
      BY <1>1, <1>5 DEF Inv, WaitersOf
    <3>3. PathOf(s)'
      BY <1>3, <2>1, <3>1, <3>2 DEF PathOf
    <3>4. EffectOf(s)'
      BY <1>3, <2>1, <3>1, <3>2 DEF EffectOf
    <3>5. QED BY <3>3, <3>4
  <2>4. QED BY <2>2, <2>3
<1>9. ASSUME NEW v \in Units PROVE WaitersOf(v)'
  <2>1. ASSUME NEW q \in job[v].waiters, v # u \/ job' = job \/ notice' = notice
        PROVE  q \in Reqs \ {r} /\ notice'[q] = "none"
    <3>1. q \in Reqs /\ pc[q] = "job" /\ notice[q] = "none" /\ ask[q].arg = v
      BY <1>0 DEF NodeTypes, Inv, WaitersOf
    <3>2. q # r
      BY <1>1, <3>1
    <3>3. notice'[q] = notice[q]
      <4>1. CASE v # u
        <5>1. q \notin old.waiters
          BY <1>1, <3>1, <4>1 DEF Inv, WaitersOf
        <5>2. QED BY <1>5, <3>1, <5>1
      <4>2. QED BY <1>4, <2>1, <4>1
    <3>4. QED BY <3>1, <3>2, <3>3
  <2>2. CASE v # u \/ job' = job
    <3>1. job'[v] = job[v]
      BY <1>0, <1>4, <2>2 DEF NodeTypes
    <3>2. QED BY <1>0, <1>3, <2>1, <2>2, <3>1 DEF Inv, WaitersOf, RequestTypes
  <2>3. CASE v = u /\ job' # job
    <3>1. job'[u].waiters = ws
      BY <1>0, <1>1, <1>4, <2>3 DEF NodeTypes
    <3>2. ASSUME NEW q \in ws PROVE pc'[q] = "job" /\ notice'[q] = "none" /\ ask'[q].arg = u
      <4>1. CASE q = r
        BY <1>0, <1>2, <1>3, <1>4, <1>5, <1>1, <4>1, <3>2 DEF PathOf
      <4>2. CASE q # r
        <5>1. q \in old.waiters /\ notice' = notice
          BY <1>4, <4>2
        <5>2. q \in Reqs /\ pc[q] = "job" /\ notice[q] = "none" /\ ask[q].arg = u
          BY <1>0, <1>1, <5>1 DEF NodeTypes, Inv, WaitersOf
        <5>3. QED BY <1>0, <1>3, <4>2, <5>1, <5>2 DEF RequestTypes
      <4>3. QED BY <4>1, <4>2
    <3>3. QED BY <2>3, <3>1, <3>2 DEF WaitersOf
  <2>4. QED BY <2>2, <2>3
<1>10. QED BY <1>6, <1>7, <1>8, <1>9 DEF Inv

\* A reboot leaves nobody waiting, and no process.
LEMMA RebootInv == ASSUME Inv, Reboot PROVE Inv'
<1>0. NodeTypes /\ RequestTypes
  BY DEF Inv
<1>1. NodeTypes'
  BY DEF Reboot, NodeTypes, NoJob, States
<1>2. RequestTypes'
  BY <1>0 DEF Reboot, RequestTypes, Results
<1>3. ASSUME NEW r \in Reqs PROVE PathOf(r)' /\ EffectOf(r)'
  <2>1. PathOf(r) /\ EffectOf(r)
    BY DEF Inv
  <2>2. /\ pc'[r] = IF pc[r] = "new" THEN "new" ELSE "done"
        /\ cmd'[r] = IF cmd[r] \in {"run", "took"} THEN "killed" ELSE cmd[r]
        /\ notice'[r] = "none"
        /\ UNCHANGED <<ask, since, answer>>
    BY DEF Reboot
  <2>3. PathOf(r)'
    BY <2>1, <2>2 DEF PathOf
  <2>4. EffectOf(r)'
    BY <2>1, <2>2 DEF EffectOf
  <2>5. QED BY <2>3, <2>4
<1>4. ASSUME NEW u \in Units PROVE WaitersOf(u)'
  BY DEF Reboot, WaitersOf, NoJob
<1>5. QED BY <1>1, <1>2, <1>3, <1>4 DEF Inv

LEMMA NextInv == Inv /\ [Next]_vars => Inv'
<1> SUFFICES ASSUME Inv, [Next]_vars PROVE Inv'
  OBVIOUS
<1>1. CASE UNCHANGED vars
  BY <1>1 DEF vars, system, Inv, NodeTypes, RequestTypes, PathOf, EffectOf, WaitersOf
<1>2. ASSUME NEW r \in Reqs,
             \/ \E a \in {b \in Asks : b.op \in Ops} : Arrive(r, a)
             \/ Leave(r) \/ Proceed(r)
             \/ TakeEffect(r) \/ EndCommand(r) \/ Kill(r)
      PROVE  Inv'
  BY <1>2, LocalSteps, QueueInv, TakeEffectInv DEF Proceed
<1>3. ASSUME NEW u \in Units, EndJob(u) \/ UnitFails(u) PROVE Inv'
  BY <1>3, EndJobInv, UnitFailsInv
<1>4. CASE Reboot
  BY <1>4, RebootInv
<1>5. QED BY <1>1, <1>2, <1>3, <1>4 DEF Next

LEMMA Invariance == Spec => []Inv
BY InitInv, NextInv, PTL DEF Spec

-----------------------------------------------------------------------------
(* The theorems. *)

\* The types, and that whoever waits for a job of systemd is a request that queued
\* it and has not been told its end: however jobs are joined, cancelled or lost.
THEOREM ControlTypes == Spec => []TypeOK
<1>1. Inv => TypeOK
  <2> SUFFICES ASSUME Inv PROVE TypeOK
    OBVIOUS
  <2>1. \A u \in Units : \A r \in job[u].waiters : pc[r] \in {"job", "done"}
    BY DEF Inv, WaitersOf
  <2>2. QED BY <2>1 DEF Inv, NodeTypes, RequestTypes, Values, TypeOK
<1>2. QED BY <1>1, Invariance, PTL

\* Upgrade, Rollback, Reboot and ServiceControl answer without error only what took
\* effect, and with what the node was at a time after that: for any number of
\* requests that act on the same image and units at once.
THEOREM SuccessIsReal == Spec => []SuccessFollowsEffect
<1>1. Inv => SuccessFollowsEffect
  BY DEF Inv, EffectOf, SuccessFollowsEffect
<1>2. QED BY <1>1, Invariance, PTL

\* CombinedOutput returns when the process is gone: what is answered no longer acts.
THEOREM AnswerIsLast == Spec => []NothingAfterAnswer
<1>1. Inv => NothingAfterAnswer
  BY DEF Inv, PathOf, NothingAfterAnswer
<1>2. QED BY <1>1, Invariance, PTL
=============================================================================
