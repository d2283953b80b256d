--------------------------- MODULE BootstrapProofs ---------------------------
(***************************************************************************)
(* Proofs about Bootstrap, for any requests, tokens and restarts.          *)
(***************************************************************************)
EXTENDS Bootstrap, FiniteSetTheorems, TLAPS

\* The request that holds the mutex is the one that is consuming the token.
InConsume(r) == pc[r] \in {"marker", "remove", "return"}

\* Types and the mutex: only the holder is past the check, and what it is to
\* write is set.
Base ==
    /\ TypeOK
    /\ \A r \in Reqs : InConsume(r) <=> lock = r
    /\ lock # NoReq <=> reason # ""
    /\ \A r \in Reqs : InConsume(r) /\ reason = "consumed" => ask[r].token \in Tokens

\* The count stays within its limit.
LEMMA ZeroAttempts == 0 \in 0..MaxAttempts
BY MaxAttemptsAssumption

\* One more failed attempt, below the limit, does not pass it.
LEMMA OneMoreAttempt ==
    ASSUME NEW a \in 0..MaxAttempts, ~(a >= MaxAttempts) PROVE a + 1 \in 0..MaxAttempts
BY MaxAttemptsAssumption

\* The invariant holds at the start.
LEMMA InitBase == Init => Base
<1> SUFFICES ASSUME Init PROVE Base
  OBVIOUS
<1>1. up \in BOOLEAN /\ active \in BOOLEAN
  BY DEF Init
<1>2. attempts \in 0..MaxAttempts
  BY ZeroAttempts DEF Init
<1>3. ask \in [Reqs -> [token : Tokens \cup {NoToken}, csr : {"none", "good", "bad"}]]
  BY DEF Init, NoAsk
<1>4. TypeOK
  BY <1>1, <1>2, <1>3 DEF Init, TypeOK
<1>5. QED BY <1>4, ReqsAssumption DEF Init, Base, InConsume

\* Every step keeps the types and the mutex.
LEMMA NextBase == Base /\ [Next]_vars => Base'
<1> SUFFICES ASSUME Base, [Next]_vars PROVE Base'
  OBVIOUS
<1> USE DEF Base, TypeOK, InConsume
<1>a. ASSUME NEW t \in Tokens, Place(t) PROVE Base'
  BY <1>a DEF Place, agent
<1>b. CASE Start
  <2>1. up' \in BOOLEAN /\ active' \in BOOLEAN
    BY <1>b DEF Start, Enabled
  <2>2. attempts' \in 0..MaxAttempts
    BY <1>b, ZeroAttempts DEF Start
  <2>3. boot' \in Nat
    <3>1. boot' = boot + 1
      BY <1>b DEF Start
    <3>2. boot \in Nat
      OBVIOUS
    <3> HIDE DEF Base, TypeOK
    <3>3. QED BY <3>1, <3>2
  <2>4. /\ hash' = hash /\ consumed' = consumed /\ placed' = placed
        /\ lock' = lock /\ pc' = pc /\ ask' = ask /\ reason' = reason
        /\ issued' = issued /\ audit' = audit /\ answer' = answer
    BY <1>b DEF Start, disk
  <2>5. QED BY <2>1, <2>2, <2>3, <2>4
<1>c. ASSUME NEW r \in Reqs, NEW t \in Tokens \cup {NoToken}, NEW csr \in {"good", "bad"},
             Arrive(r, t, csr)
      PROVE  Base'
  <2>1. /\ UNCHANGED <<disk, agent, lock, reason, issued, audit>>
        /\ pc[r] = "new" /\ ask' = [ask EXCEPT ![r] = [token |-> t, csr |-> csr]]
        /\ \E to \in {"precheck", "done"} : pc' = [pc EXCEPT ![r] = to]
        /\ answer' = answer \/ answer' = [answer EXCEPT ![r] = "refused"]
    BY <1>c DEF Arrive
  <2>2. TypeOK'
    <3>1. ask' \in [Reqs -> [token : Tokens \cup {NoToken}, csr : {"none", "good", "bad"}]]
      <4> DEFINE asked == [token |-> t, csr |-> csr]
      <4>1. asked \in [token : Tokens \cup {NoToken}, csr : {"none", "good", "bad"}]
        OBVIOUS
      <4>2. ask' = [ask EXCEPT ![r] = asked]
        BY <2>1
      <4> HIDE DEF asked
      <4>3. QED BY <4>1, <4>2
    <3>2. pc' \in [Reqs -> {"new", "precheck", "lock", "marker", "remove", "return",
                           "audit", "reply", "done"}]
      BY <2>1
    <3>3. answer' \in [Reqs -> {"none", "refused", "denied", "cert"}]
      BY <2>1
    <3>4. /\ hash' = hash /\ consumed' = consumed /\ placed' = placed
          /\ up' = up /\ active' = active /\ attempts' = attempts /\ boot' = boot
          /\ lock' = lock /\ reason' = reason /\ issued' = issued /\ audit' = audit
      BY <2>1 DEF disk, agent
    <3>5. QED BY <3>1, <3>2, <3>3, <3>4
  <2>3. \A q \in Reqs : InConsume(q)' <=> InConsume(q)
    BY <2>1
  <2>4. \A q \in Reqs : InConsume(q) => ask'[q] = ask[q]
    BY <2>1
  <2> HIDE DEF TypeOK, InConsume
  <2>5. QED BY <2>1, <2>2, <2>3, <2>4 DEF disk, agent
<1>d. ASSUME NEW r \in Reqs, Precheck(r) PROVE Base'
  <2>1. /\ UNCHANGED <<disk, agent, lock, ask, reason, issued, audit>>
        /\ pc[r] = "precheck"
        /\ \E to \in {"lock", "done"} : pc' = [pc EXCEPT ![r] = to]
        /\ answer' = answer \/ answer' = [answer EXCEPT ![r] = "denied"]
    BY <1>d DEF Precheck
  <2>2. TypeOK'
    <3>1. pc' \in [Reqs -> {"new", "precheck", "lock", "marker", "remove", "return",
                           "audit", "reply", "done"}]
      BY <2>1
    <3>2. answer' \in [Reqs -> {"none", "refused", "denied", "cert"}]
      BY <2>1
    <3>3. /\ hash' = hash /\ consumed' = consumed /\ placed' = placed
          /\ up' = up /\ active' = active /\ attempts' = attempts /\ boot' = boot
          /\ lock' = lock /\ ask' = ask /\ reason' = reason
          /\ issued' = issued /\ audit' = audit
      BY <2>1 DEF disk, agent
    <3>4. QED BY <3>1, <3>2, <3>3
  <2>3. \A q \in Reqs : InConsume(q)' <=> InConsume(q)
    BY <2>1
  <2> HIDE DEF TypeOK, InConsume
  <2>4. QED BY <2>1, <2>2, <2>3 DEF disk, agent
<1>e. ASSUME NEW r \in Reqs, Check(r) PROVE Base'
  <2>0. attempts' = attempts \/ (~AtLimit(attempts) /\ attempts' = attempts + 1)
    BY <1>e, Zenon DEF Check
  <2>1. attempts' \in 0..MaxAttempts
    BY <2>0, OneMoreAttempt DEF AtLimit
  <2>2. \/ Deny(r)
        \/ BeginConsume(r, "locked out")
        \/ BeginConsume(r, "consumed") /\ ask[r].token = hash /\ hash # NoToken
    BY <1>e DEF Check
  <2>3. CASE Deny(r)
    BY <1>e, <2>1, <2>3 DEF Check, Deny, disk
  <2>4. ASSUME NEW why \in {"consumed", "locked out"}, BeginConsume(r, why),
               why = "consumed" => ask[r].token \in Tokens
        PROVE  Base'
    <3>1. /\ lock' = r /\ reason' = why /\ pc' = [pc EXCEPT ![r] = "marker"]
          /\ UNCHANGED <<hash, consumed, placed, up, active, boot, ask, issued, audit, answer>>
          /\ lock = NoReq
      BY <1>e, <2>4 DEF Check, BeginConsume, disk
    <3>2. \A q \in Reqs : ~InConsume(q)
      BY <3>1, ReqsAssumption
    <3>3. \A q \in Reqs : InConsume(q)' <=> q = r
      BY <3>1, <3>2
    <3>4. pc' \in [Reqs -> {"new", "precheck", "lock", "marker", "remove", "return",
                           "audit", "reply", "done"}]
      BY <3>1
    <3>5. TypeOK'
      BY <2>1, <3>1, <3>4
    <3>6. (\A q \in Reqs : InConsume(q) /\ reason = "consumed" => ask[q].token \in Tokens)'
      BY <2>4, <3>1, <3>3
    <3>7. (lock # NoReq <=> reason # "")' /\ lock' = r
      BY <3>1, ReqsAssumption
    <3> HIDE DEF TypeOK
    <3>8. QED BY <3>3, <3>5, <3>6, <3>7
  <2>5. QED BY <2>2, <2>3, <2>4
<1>f. ASSUME NEW r \in Reqs, WriteMarker(r) PROVE Base'
  BY <1>f DEF WriteMarker, agent
<1>g. ASSUME NEW r \in Reqs, RemoveHash(r) PROVE Base'
  BY <1>g DEF RemoveHash, agent
<1>h. ASSUME NEW r \in Reqs, Return(r) PROVE Base'
  <2>1. issued' \subseteq [req : Reqs, token : Tokens]
    <3>1. reason = "consumed" => ask[r].token \in Tokens
      BY <1>h DEF Return
    <3>2. CASE reason = "consumed"
      <4>1. issued' = issued \cup {[req |-> r, token |-> ask[r].token]}
        BY <1>h, <3>2 DEF Return
      <4>2. [req |-> r, token |-> ask[r].token] \in [req : Reqs, token : Tokens]
        BY <3>1, <3>2
      <4>3. QED BY <4>1, <4>2
    <3>3. CASE reason # "consumed"
      BY <1>h, <3>3 DEF Return
    <3>4. QED BY <3>2, <3>3
  <2>2. QED BY <1>h, <2>1, ReqsAssumption DEF Return, Unlocked, disk, agent
<1>i. ASSUME NEW r \in Reqs, Audit(r) PROVE Base'
  <2>1. audit' \subseteq Reqs \X {"success", "denied"}
    <3>1. Outcomes(r) \subseteq {"success", "denied"}
      BY DEF Outcomes
    <3>2. audit' = audit \cup {<<r, o>> : o \in Outcomes(r)}
      BY <1>i DEF Audit
    <3>3. \A o \in Outcomes(r) : <<r, o>> \in Reqs \X {"success", "denied"}
      BY <3>1
    <3> HIDE DEF Base, TypeOK
    <3>4. \A p \in {<<r, o>> : o \in Outcomes(r)} : p \in Reqs \X {"success", "denied"}
      BY <3>3, Zenon
    <3>5. audit \subseteq Reqs \X {"success", "denied"}
      BY DEF Base, TypeOK
    <3>6. QED BY <3>2, <3>4, <3>5
  <2>2. QED BY <1>i, <2>1 DEF Audit, disk, agent
<1>j. ASSUME NEW r \in Reqs, Reply(r) PROVE Base'
  BY <1>j DEF Reply, disk, agent
<1>k. ASSUME Down PROVE Base'
  <2>1. up' \in BOOLEAN /\ active' \in BOOLEAN
    BY <1>k DEF Down
  <2>2. attempts' \in 0..MaxAttempts
    BY <1>k, ZeroAttempts DEF Down
  <2>3. QED BY <1>k, <2>1, <2>2, ReqsAssumption DEF Down, disk
<1>l. CASE UNCHANGED vars
  BY <1>l DEF vars, disk, agent
<1> HIDE DEF Base, TypeOK, InConsume
<1>m. QED
  BY <1>a, <1>b, <1>c, <1>d, <1>e, <1>f, <1>g, <1>h, <1>i, <1>j, <1>k, <1>l
     DEF Next, Handle, Stop, Crash

\* Every state of Bootstrap is well typed, whatever requests come and whatever
\* fails: TypeOK of the runs, and with it the bound on m.attempts.
THEOREM TypeCorrect == Spec => []TypeOK
<1>1. Base => TypeOK
  BY DEF Base
<1>2. QED BY InitBase, NextBase, <1>1, PTL DEF Spec

-----------------------------------------------------------------------------
\* One of consume's two writes takes effect.
OneWriteWorks == "both" \notin Faults

\* A token that cannot be used any more: there is a marker, or the token was
\* delivered once and its hash is gone.
Spent(t) == consumed # "" \/ (hash # t /\ t \in placed)

Fresh(t) == \A i \in issued : i.token # t

\* What consume has reached: before the marker the token is merely unused, after
\* the writes it is spent, and only then may the certificate be returned.
Consuming(r) ==
    reason = "consumed" =>
        /\ pc[r] \in {"marker", "remove", "return"} =>
               ask[r].token \in placed /\ Fresh(ask[r].token)
        /\ pc[r] = "return" => Spent(ask[r].token)

Once ==
    /\ hash # NoToken => hash \in placed
    /\ \A i \in issued : Spent(i.token)
    /\ \A r \in Reqs : Consuming(r)
    /\ OneTimeToken

\* No token is out and none has been used at the start.
LEMMA InitOnce == Init => Once
BY DEF Init, Once, Consuming, OneTimeToken

\* Every step keeps tokens spent: the mutex lets one request at a time between
\* the comparison and the certificate, and no token is delivered twice.
LEMMA NextOnce ==
    ASSUME OneWriteWorks, Base, Once, [Next]_vars PROVE Once'
<1> USE DEF Once, Spent, Fresh, Consuming, OneTimeToken
<1>t. /\ \A r, q \in Reqs : InConsume(r) /\ InConsume(q) => r = q
      /\ \A r \in Reqs : InConsume(r) => lock = r
      /\ pc \in [Reqs -> {"new", "precheck", "lock", "marker", "remove", "return",
                          "audit", "reply", "done"}]
      /\ ask \in [Reqs -> [token : Tokens \cup {NoToken}, csr : {"none", "good", "bad"}]]
      /\ NoReq \notin Reqs
  BY ReqsAssumption DEF Base, TypeOK
<1>a. ASSUME NEW t \in Tokens, Place(t) PROVE Once'
  BY <1>a DEF Place
<1>b. CASE Start
  BY <1>b DEF Start, disk
<1>c. ASSUME NEW r \in Reqs, NEW t \in Tokens \cup {NoToken}, NEW csr \in {"good", "bad"},
             Arrive(r, t, csr)
      PROVE  Once'
  <2>1. /\ hash' = hash /\ consumed' = consumed /\ placed' = placed
        /\ reason' = reason /\ issued' = issued
        /\ pc[r] = "new" /\ ask' = [ask EXCEPT ![r] = [token |-> t, csr |-> csr]]
        /\ \E to \in {"precheck", "done"} : pc' = [pc EXCEPT ![r] = to]
    BY <1>c DEF Arrive, disk
  <2>2. \A q \in Reqs : q # r => pc'[q] = pc[q] /\ ask'[q] = ask[q]
    BY <1>t, <2>1
  <2>3. pc'[r] \in {"precheck", "done"}
    BY <1>t, <2>1
  <2>4. QED BY <1>t, <2>1, <2>2, <2>3
<1>d. ASSUME NEW r \in Reqs, Precheck(r) PROVE Once'
  BY <1>d, <1>t DEF Precheck, disk
<1>e. ASSUME NEW r \in Reqs, Check(r) PROVE Once'
  <2>1. \/ Deny(r)
        \/ BeginConsume(r, "locked out")
        \/ BeginConsume(r, "consumed") /\ ask[r].token = hash /\ Enabled
    BY <1>e DEF Check, Unavailable
  <2>2. CASE Deny(r)
    BY <1>e, <1>t, <2>2 DEF Check, Deny, disk
  <2>3. CASE BeginConsume(r, "locked out")
    BY <1>e, <1>t, <2>3 DEF Check, BeginConsume, disk
  <2>4. CASE BeginConsume(r, "consumed") /\ ask[r].token = hash /\ Enabled
    <3>1. \A q \in Reqs : ~InConsume(q)
      BY <1>e, <1>t DEF Check
    <3>2. ask[r].token \in placed /\ Fresh(ask[r].token)
      BY <2>4 DEF Enabled
    <3>3. QED BY <1>e, <1>t, <2>4, <3>1, <3>2 DEF Check, BeginConsume, disk, InConsume
  <2>5. QED BY <2>1, <2>2, <2>3, <2>4
<1>f. ASSUME NEW r \in Reqs, WriteMarker(r) PROVE Once'
  <2>2. \A q \in Reqs : InConsume(q) => q = r
    BY <1>f, <1>t DEF WriteMarker, InConsume
  <2>3. consumed # "" => consumed' # ""
    BY <1>f, <1>t DEF WriteMarker, Base, InConsume
  <2>4. QED BY <1>f, <1>t, <2>2, <2>3 DEF WriteMarker, InConsume
<1>g. ASSUME NEW r \in Reqs, RemoveHash(r) PROVE Once'
  <2>1. \A q \in Reqs : InConsume(q) => q = r
    BY <1>g, <1>t DEF RemoveHash, InConsume
  <2>2. hash' = NoToken \/ (hash' = hash /\ consumed # "")
    BY <1>g DEF RemoveHash, OneWriteWorks
  <2>3. reason = "consumed" => ask[r].token \in Tokens
    BY <1>g DEF RemoveHash, Base, InConsume
  <2>4. \A i \in issued : i.token \in Tokens
    BY DEF Base, TypeOK
  <2>5. /\ consumed' = consumed /\ placed' = placed /\ ask' = ask
        /\ reason' = reason /\ issued' = issued
        /\ pc' = [pc EXCEPT ![r] = "return"]
        /\ pc[r] = "remove"
    BY <1>g DEF RemoveHash
  <2>6. (hash # NoToken => hash \in placed)'
    BY <2>2, <2>5
  <2>7. (\A i \in issued : Spent(i.token))'
    BY <2>2, <2>4, <2>5, TokensAssumption
  <2>8. ASSUME NEW q \in Reqs PROVE Consuming(q)'
    <3>1. CASE q = r
      <4>1. SUFFICES ASSUME reason = "consumed"
                     PROVE  /\ ask[r].token \in placed /\ Fresh(ask[r].token)
                            /\ Spent(ask[r].token)'
        BY <1>t, <2>5, <3>1
      <4>2. ask[r].token \in placed /\ Fresh(ask[r].token)
        BY <2>5, <4>1
      <4>3. QED BY <2>2, <2>3, <2>5, <4>1, <4>2, TokensAssumption
    <3>2. CASE q # r
      BY <1>t, <2>1, <2>5, <3>2 DEF InConsume
    <3>3. QED BY <3>1, <3>2
  <2>9. QED BY <2>5, <2>6, <2>7, <2>8
<1>h. ASSUME NEW r \in Reqs, Return(r) PROVE Once'
  <2>1. /\ hash' = hash /\ consumed' = consumed /\ placed' = placed
        /\ reason' = "" /\ pc[r] = "return"
    BY <1>h DEF Return, disk
  <2>2. CASE reason = "consumed"
    <3> DEFINE new == [req |-> r, token |-> ask[r].token]
    <3>1. issued' = issued \cup {new} /\ new.token = ask[r].token
      BY <1>h, <2>2 DEF Return
    <3>2. Fresh(ask[r].token) /\ Spent(ask[r].token)
      BY <2>1, <2>2
    <3>3. (\A i \in issued : Spent(i.token))'
      BY <2>1, <3>1, <3>2
    <3>4. OneTimeToken'
      BY <3>1, <3>2
    <3>5. QED BY <2>1, <3>3, <3>4
  <2>3. CASE reason # "consumed"
    BY <1>h, <2>1, <2>3 DEF Return
  <2>4. QED BY <2>2, <2>3
<1>i. ASSUME NEW r \in Reqs, Audit(r) PROVE Once'
  BY <1>i, <1>t DEF Audit, disk
<1>j. ASSUME NEW r \in Reqs, Reply(r) PROVE Once'
  BY <1>j, <1>t DEF Reply, disk
<1>k. ASSUME Down PROVE Once'
  BY <1>k DEF Down, disk
<1>l. CASE UNCHANGED vars
  BY <1>l DEF vars, disk
<1> HIDE DEF Once, Spent, Fresh, Consuming, OneTimeToken
<1>m. QED
  BY <1>a, <1>b, <1>c, <1>d, <1>e, <1>f, <1>g, <1>h, <1>i, <1>j, <1>k, <1>l
     DEF Next, Handle, Stop, Crash

\* A token yields at most one certificate, over any number of requests,
\* restarts and crashes between consume's writes, unless both of those writes
\* fail for the same token.
THEOREM TokenUsedOnce ==
    ASSUME OneWriteWorks PROVE Spec => []OneTimeToken
<1>1. Init => Base /\ Once
  BY InitBase, InitOnce
<1>2. Base /\ Once /\ [Next]_vars => (Base /\ Once)'
  BY NextBase, NextOnce, OneWriteWorks
<1>3. Once => OneTimeToken
  BY DEF Once
<1>4. QED BY <1>1, <1>2, <1>3, PTL DEF Spec

-----------------------------------------------------------------------------
(* What is logged and answered. *)

Said(r) == IF HasCert(r) THEN "success" ELSE "denied"

\* An answer ends a request, a certificate is given before the audit event, the
\* event tells which it was and is there before the reply.
LoggedOf(r) ==
    /\ answer[r] # "none" => pc[r] = "done"
    /\ HasCert(r) => pc[r] \in {"audit", "reply", "done"}
    /\ answer[r] = "cert" => <<r, "success">> \in audit
    /\ pc[r] = "reply" => <<r, Said(r)>> \in audit
    /\ \A o \in {"success", "denied"} :
           <<r, o>> \in audit => pc[r] \in {"reply", "done"} /\ o = Said(r)

Logged == \A r \in Reqs : LoggedOf(r)

\* A step that is not a step of q's leaves alone what concerns q.
Aside(q) ==
    /\ pc'[q] = pc[q] /\ ask'[q] = ask[q] /\ answer'[q] = answer[q]
    /\ HasCert(q)' <=> HasCert(q)
    /\ \A o \in {"success", "denied"} : <<q, o>> \in audit' <=> <<q, o>> \in audit

\* What a request does concerns itself alone.
LEMMA OthersAside ==
    ASSUME Base, NEW r \in Reqs, NEW q \in Reqs, q # r,
           \/ \E t \in Tokens \cup {NoToken}, csr \in {"good", "bad"} : Arrive(r, t, csr)
           \/ Handle(r)
    PROVE  Aside(q)
<1> USE DEF Aside, HasCert
<1>t. /\ pc \in [Reqs -> {"new", "precheck", "lock", "marker", "remove", "return",
                          "audit", "reply", "done"}]
      /\ ask \in [Reqs -> [token : Tokens \cup {NoToken}, csr : {"none", "good", "bad"}]]
      /\ answer \in [Reqs -> {"none", "refused", "denied", "cert"}]
  BY DEF Base, TypeOK
<1>1. ASSUME NEW t \in Tokens \cup {NoToken}, NEW csr \in {"good", "bad"}, Arrive(r, t, csr)
      PROVE  Aside(q)
  BY <1>t, <1>1 DEF Arrive
<1>2. CASE Precheck(r)
  BY <1>t, <1>2 DEF Precheck
<1>3. CASE Check(r)
  <2>1. /\ UNCHANGED <<ask, issued, audit, answer>>
        /\ \E to \in {"marker", "audit"} : pc' = [pc EXCEPT ![r] = to]
    BY <1>3 DEF Check, Deny, BeginConsume
  <2>2. QED BY <1>t, <2>1
<1>4. CASE WriteMarker(r) \/ RemoveHash(r)
  BY <1>t, <1>4 DEF WriteMarker, RemoveHash
<1>5. CASE Return(r)
  <2>1. /\ UNCHANGED <<ask, audit, answer>> /\ pc' = [pc EXCEPT ![r] = "audit"]
        /\ \/ issued' = issued
           \/ issued' = issued \cup {[req |-> r, token |-> ask[r].token]}
    BY <1>5 DEF Return
  <2>2. HasCert(q)' <=> HasCert(q)
    BY <2>1
  <2>3. QED BY <1>t, <2>1, <2>2
<1>6. CASE Audit(r)
  <2>1. /\ UNCHANGED <<ask, issued, answer>> /\ pc' = [pc EXCEPT ![r] = "reply"]
        /\ \E o \in {"success", "denied"} : audit' = audit \cup {<<r, o>>}
    BY <1>6 DEF Audit, Outcomes
  <2>2. QED BY <1>t, <2>1
<1>7. CASE Reply(r)
  BY <1>t, <1>7 DEF Reply
<1> HIDE DEF Aside, HasCert
<1>8. QED BY <1>1, <1>2, <1>3, <1>4, <1>5, <1>6, <1>7 DEF Handle

LEMMA AsideLogged == ASSUME NEW q, LoggedOf(q), Aside(q) PROVE LoggedOf(q)'
BY DEF LoggedOf, Aside, Said

\* Nobody has been answered at the start.
LEMMA InitLogged == Init => Logged
BY DEF Init, Logged, LoggedOf, HasCert

\* Every step keeps the log ahead of the answers: between Audit and Reply no
\* certificate appears for a request, since only its own Return adds one.
LEMMA NextLogged == ASSUME Base, Logged, [Next]_vars PROVE Logged'
<1>t. /\ pc \in [Reqs -> {"new", "precheck", "lock", "marker", "remove", "return",
                          "audit", "reply", "done"}]
      /\ answer \in [Reqs -> {"none", "refused", "denied", "cert"}]
  BY DEF Base, TypeOK
<1>a. ASSUME NEW r \in Reqs, LoggedOf(r)',
             \/ \E t \in Tokens \cup {NoToken}, csr \in {"good", "bad"} : Arrive(r, t, csr)
             \/ Handle(r)
      PROVE  Logged'
  <2>1. \A q \in Reqs : q # r => LoggedOf(q)'
    BY <1>a, OthersAside, AsideLogged DEF Logged
  <2>2. QED BY <1>a, <2>1 DEF Logged
<1>b. ASSUME UNCHANGED <<pc, issued, audit, answer>> PROVE Logged'
  BY <1>b DEF Logged, LoggedOf, Said, HasCert
<1>c. ASSUME (\E t \in Tokens : Place(t)) \/ Start \/ UNCHANGED vars PROVE Logged'
  BY <1>b, <1>c DEF Place, Start, vars
<1>d. ASSUME NEW r \in Reqs, NEW t \in Tokens \cup {NoToken}, NEW csr \in {"good", "bad"},
             Arrive(r, t, csr)
      PROVE  Logged'
  <2>1. LoggedOf(r)'
    BY <1>t, <1>d DEF Arrive, Logged, LoggedOf, Said, HasCert
  <2>2. QED BY <1>a, <1>d, <2>1
<1>e. ASSUME NEW r \in Reqs, Precheck(r) \/ Check(r) \/ WriteMarker(r) \/ RemoveHash(r)
      PROVE  LoggedOf(r)'
  <2>1. /\ UNCHANGED <<issued, audit>> /\ pc[r] \in {"precheck", "lock", "marker", "remove"}
        /\ \/ /\ answer' = answer
              /\ \E to \in {"lock", "marker", "remove", "return", "audit"} :
                     pc' = [pc EXCEPT ![r] = to]
           \/ /\ answer' = [answer EXCEPT ![r] = "denied"]
              /\ pc' = [pc EXCEPT ![r] = "done"]
    BY <1>e DEF Precheck, Check, Deny, BeginConsume, WriteMarker, RemoveHash
  <2>2. ~HasCert(r) /\ ~HasCert(r)'
    BY <2>1 DEF Logged, LoggedOf, HasCert
  <2>3. QED BY <1>t, <2>1, <2>2 DEF Logged, LoggedOf
<1>f. ASSUME NEW r \in Reqs, Return(r) PROVE LoggedOf(r)'
  BY <1>t, <1>f DEF Return, Logged, LoggedOf
<1>g. ASSUME NEW r \in Reqs, Audit(r) PROVE LoggedOf(r)'
  <2>1. /\ answer' = answer /\ pc[r] = "audit" /\ pc' = [pc EXCEPT ![r] = "reply"]
        /\ audit' = audit \cup {<<r, Said(r)>>}
    BY <1>g DEF Audit, Outcomes, Said
  <2>2. Said(r)' = Said(r)
    BY <1>g DEF Audit, Said, HasCert
  <2>3. \A o \in {"success", "denied"} : <<r, o>> \notin audit
    BY <2>1 DEF Logged, LoggedOf
  <2>4. QED BY <1>t, <2>1, <2>2, <2>3 DEF Logged, LoggedOf
<1>h. ASSUME NEW r \in Reqs, Reply(r) PROVE LoggedOf(r)'
  <2>1. /\ audit' = audit /\ pc[r] = "reply" /\ pc' = [pc EXCEPT ![r] = "done"]
        /\ \/ answer' = answer
           \/ answer' = [answer EXCEPT ![r] = IF HasCert(r) THEN "cert" ELSE "denied"]
    BY <1>h DEF Reply
  <2>2. (HasCert(r)' <=> HasCert(r)) /\ Said(r)' = Said(r)
    BY <1>h DEF Reply, Said, HasCert
  <2>3. HasCert(r) => <<r, "success">> \in audit
    BY <2>1 DEF Logged, LoggedOf, Said
  <2>4. answer'[r] = "cert" => HasCert(r)
    BY <1>t, <2>1 DEF Logged, LoggedOf
  <2>5. QED BY <1>t, <2>1, <2>2, <2>3, <2>4 DEF Logged, LoggedOf
<1>i. ASSUME Down PROVE Logged'
  <2>1. UNCHANGED <<issued, audit, answer>>
    BY <1>i DEF Down
  <2>2. \A r \in Reqs : pc'[r] = IF pc[r] = "new" THEN "new" ELSE "done"
    BY <1>i DEF Down
  <2>3. QED BY <2>1, <2>2 DEF Logged, LoggedOf, Said, HasCert
<1>m. QED
  BY <1>a, <1>c, <1>d, <1>e, <1>f, <1>g, <1>h, <1>i DEF Next, Handle, Stop, Crash

\* What a client has been told is in the audit log, whatever crashes or is lost: the
\* certificate of an answered request as a success, and before any reply the
\* outcome; and the log has no success of a request without a certificate, nor a
\* denial of one that has it.
THEOREM AnswersAudited == Spec => []AnswerIsAudited
<1>1. Init => Base /\ Logged
  BY InitBase, InitLogged
<1>2. Base /\ Logged /\ [Next]_vars => (Base /\ Logged)'
  BY NextBase, NextLogged
<1>3. Logged => AnswerIsAudited
  BY DEF Logged, LoggedOf, Said, AnswerIsAudited
<1>4. QED BY <1>1, <1>2, <1>3, PTL DEF Spec

-----------------------------------------------------------------------------
\* Who consumes the token for a certificate has brought it with a good CSR, and
\* what consume has done shows in the files.
Truthful ==
    /\ \A r \in Reqs : InConsume(r) /\ reason = "consumed" => ask[r].csr = "good"
    /\ \A r \in Reqs :
           /\ pc[r] = "marker" => consumed = ""
           /\ pc[r] = "remove" => consumed \in {"", reason}
           /\ pc[r] = "return" /\ reason = "consumed" =>
                  consumed = "consumed" \/ hash # ask[r].token
    /\ \A i \in issued : i.token \in placed /\ (consumed = "consumed" \/ hash # i.token)

\* There is no marker and no certificate at the start.
LEMMA InitTruthful == Init => Truthful
BY ReqsAssumption DEF Init, Truthful, InConsume

\* Every step keeps the files true.
LEMMA NextTruthful ==
    ASSUME OneWriteWorks, Base, Once, Truthful, [Next]_vars PROVE Truthful'
<1> USE DEF Truthful, InConsume
<1>t. /\ \A r, q \in Reqs : InConsume(r) /\ InConsume(q) => r = q
      /\ pc \in [Reqs -> {"new", "precheck", "lock", "marker", "remove", "return",
                          "audit", "reply", "done"}]
      /\ ask \in [Reqs -> [token : Tokens \cup {NoToken}, csr : {"none", "good", "bad"}]]
      /\ \A r \in Reqs : InConsume(r) /\ reason = "consumed" => ask[r].token \in Tokens
      /\ \A r \in Reqs : InConsume(r) => lock = r
      /\ NoReq \notin Reqs
  <2>1. /\ pc \in [Reqs -> {"new", "precheck", "lock", "marker", "remove", "return",
                            "audit", "reply", "done"}]
        /\ ask \in [Reqs -> [token : Tokens \cup {NoToken}, csr : {"none", "good", "bad"}]]
    BY DEF Base, TypeOK
  <2>2. /\ \A r \in Reqs : InConsume(r) <=> lock = r
        /\ \A r \in Reqs : InConsume(r) /\ reason = "consumed" => ask[r].token \in Tokens
    BY DEF Base
  <2> HIDE DEF InConsume
  <2>3. \A r, q \in Reqs : InConsume(r) /\ InConsume(q) => r = q
    BY <2>2
  <2>4. QED BY <2>1, <2>2, <2>3, ReqsAssumption
<1>u. \A r \in Reqs : InConsume(r) /\ reason = "consumed" =>
          ask[r].token \in placed /\ Fresh(ask[r].token)
  BY DEF Once, Consuming
<1>a. ASSUME NEW t \in Tokens, Place(t) PROVE Truthful'
  BY <1>a, <1>u DEF Place
<1>b. CASE Start
  BY <1>b DEF Start, disk
<1>c. ASSUME NEW r \in Reqs, NEW t \in Tokens \cup {NoToken}, NEW csr \in {"good", "bad"},
             Arrive(r, t, csr)
      PROVE  Truthful'
  <2>1. /\ hash' = hash /\ consumed' = consumed /\ placed' = placed
        /\ reason' = reason /\ issued' = issued
        /\ pc[r] = "new" /\ ask' = [ask EXCEPT ![r] = [token |-> t, csr |-> csr]]
        /\ \E to \in {"precheck", "done"} : pc' = [pc EXCEPT ![r] = to]
    BY <1>c DEF Arrive, disk
  <2>2. \A q \in Reqs : q # r => pc'[q] = pc[q] /\ ask'[q] = ask[q]
    BY <1>t, <2>1
  <2>3. pc'[r] \in {"precheck", "done"}
    BY <1>t, <2>1
  <2>4. (\A q \in Reqs : InConsume(q) /\ reason = "consumed" => ask[q].csr = "good")'
    BY <2>1, <2>2, <2>3
  <2>6. (\A q \in Reqs :
          /\ pc[q] = "marker" => consumed = ""
          /\ pc[q] = "remove" => consumed \in {"", reason}
          /\ pc[q] = "return" /\ reason = "consumed" =>
                 consumed = "consumed" \/ hash # ask[q].token)'
    BY <2>1, <2>2, <2>3
  <2>7. (\A i \in issued : i.token \in placed /\ (consumed = "consumed" \/ hash # i.token))'
    BY <2>1
  <2>8. QED BY <2>4, <2>6, <2>7
<1>d. ASSUME NEW r \in Reqs, Precheck(r) PROVE Truthful'
  BY <1>d, <1>t DEF Precheck, disk
<1>e. ASSUME NEW r \in Reqs, Check(r) PROVE Truthful'
  <2>1. \/ Deny(r)
        \/ BeginConsume(r, "locked out") /\ Enabled
        \/ BeginConsume(r, "consumed") /\ ask[r].csr = "good" /\ Enabled
    BY <1>e DEF Check, Unavailable, Signed
  <2>2. CASE Deny(r)
    BY <1>e, <1>t, <2>2 DEF Check, Deny, disk
  <2>3. \A q \in Reqs : ~InConsume(q)
    BY <1>e, <1>t DEF Check
  <2>4. CASE BeginConsume(r, "locked out") /\ Enabled
    <3>1. /\ hash' = hash /\ consumed' = consumed /\ placed' = placed
          /\ ask' = ask /\ issued' = issued
      BY <1>e DEF Check, disk
    <3>2. reason' = "locked out" /\ pc' = [pc EXCEPT ![r] = "marker"] /\ consumed = ""
      BY <2>4 DEF BeginConsume, Enabled
    <3>3. \A q \in Reqs : InConsume(q)' => q = r /\ pc'[q] = "marker"
      BY <1>t, <2>3, <3>2
    <3>4. (\A q \in Reqs : InConsume(q) /\ reason = "consumed" => ask[q].csr = "good")'
      BY <2>4, <3>1, <3>2, <3>3
    <3>5. (\A q \in Reqs :
          /\ pc[q] = "marker" => consumed = ""
          /\ pc[q] = "remove" => consumed \in {"", reason}
          /\ pc[q] = "return" /\ reason = "consumed" =>
                 consumed = "consumed" \/ hash # ask[q].token)'
      BY <3>1, <3>2, <3>3
    <3>6. (\A i \in issued : i.token \in placed /\ (consumed = "consumed" \/ hash # i.token))'
      BY <3>1
    <3>8. QED BY <3>4, <3>5, <3>6
  <2>5. CASE BeginConsume(r, "consumed") /\ ask[r].csr = "good" /\ Enabled
    <3>1. /\ hash' = hash /\ consumed' = consumed /\ placed' = placed
          /\ ask' = ask /\ issued' = issued
      BY <1>e DEF Check, disk
    <3>2. reason' = "consumed" /\ pc' = [pc EXCEPT ![r] = "marker"] /\ consumed = ""
      BY <2>5 DEF BeginConsume, Enabled
    <3>3. \A q \in Reqs : InConsume(q)' => q = r /\ pc'[q] = "marker"
      BY <1>t, <2>3, <3>2
    <3>4. (\A q \in Reqs : InConsume(q) /\ reason = "consumed" => ask[q].csr = "good")'
      BY <2>5, <3>1, <3>2, <3>3
    <3>5. (\A q \in Reqs :
          /\ pc[q] = "marker" => consumed = ""
          /\ pc[q] = "remove" => consumed \in {"", reason}
          /\ pc[q] = "return" /\ reason = "consumed" =>
                 consumed = "consumed" \/ hash # ask[q].token)'
      BY <3>1, <3>2, <3>3
    <3>6. (\A i \in issued : i.token \in placed /\ (consumed = "consumed" \/ hash # i.token))'
      BY <3>1
    <3>8. QED BY <3>4, <3>5, <3>6
  <2>6. QED BY <2>1, <2>2, <2>4, <2>5
<1>f. ASSUME NEW r \in Reqs, WriteMarker(r) PROVE Truthful'
  <2>1. \A q \in Reqs : InConsume(q) => q = r
    BY <1>f, <1>t DEF WriteMarker
  <2>2. QED BY <1>f, <1>t, <2>1 DEF WriteMarker
<1>g. ASSUME NEW r \in Reqs, RemoveHash(r) PROVE Truthful'
  <2>1. \A q \in Reqs : InConsume(q) => q = r
    BY <1>g, <1>t DEF RemoveHash
  <2>2. hash' = NoToken \/ (hash' = hash /\ consumed = reason /\ consumed # "")
    BY <1>g DEF RemoveHash, OneWriteWorks
  <2>3. \A i \in issued : i.token \in Tokens
    BY DEF Base, TypeOK
  <2>4. \A i \in issued : i.token # NoToken
    BY <2>3, TokensAssumption
  <2>5. /\ consumed' = consumed /\ placed' = placed /\ ask' = ask /\ issued' = issued
        /\ reason' = reason /\ pc[r] = "remove" /\ pc' = [pc EXCEPT ![r] = "return"]
    BY <1>g DEF RemoveHash
  <2>6. (\A q \in Reqs : InConsume(q) /\ reason = "consumed" => ask[q].csr = "good")'
    BY <1>t, <2>5
  <2>8. (\A i \in issued : i.token \in placed /\ (consumed = "consumed" \/ hash # i.token))'
    BY <2>2, <2>4, <2>5
  <2>9. (pc[r] = "return" /\ reason = "consumed" =>
           consumed = "consumed" \/ hash # ask[r].token)'
    <3>1. reason = "consumed" => ask[r].token # NoToken
      BY <1>t, <2>5, TokensAssumption
    <3>2. QED BY <2>2, <2>5, <3>1
  <2>10. \A q \in Reqs : q # r => pc'[q] \notin {"marker", "remove", "return"}
    BY <1>t, <2>1, <2>5
  <2>11. pc'[r] = "return"
    BY <1>t, <2>5
  <2>12. (\A q \in Reqs :
        /\ pc[q] = "marker" => consumed = ""
        /\ pc[q] = "remove" => consumed \in {"", reason}
        /\ pc[q] = "return" /\ reason = "consumed" =>
               consumed = "consumed" \/ hash # ask[q].token)'
    BY <2>9, <2>10, <2>11
  <2>13. QED BY <2>6, <2>8, <2>12
<1>h. ASSUME NEW r \in Reqs, Return(r) PROVE Truthful'
  <2>1. \A q \in Reqs : InConsume(q) => q = r
    BY <1>h, <1>t DEF Return
  <2>2. /\ hash' = hash /\ consumed' = consumed /\ placed' = placed /\ ask' = ask
        /\ reason' = "" /\ pc[r] = "return" /\ pc' = [pc EXCEPT ![r] = "audit"]
    BY <1>h DEF Return, disk
  <2>3. (\A i \in issued : i.token \in placed /\ (consumed = "consumed" \/ hash # i.token))'
    <3> DEFINE new == [req |-> r, token |-> ask[r].token]
    <3>1. CASE reason = "consumed"
      <4>1. issued' = issued \cup {new} /\ new.token = ask[r].token
        BY <1>h, <3>1 DEF Return
      <4>2. new.token \in placed /\ (consumed = "consumed" \/ hash # new.token)
        BY <1>u, <2>2, <3>1, <4>1
      <4> HIDE DEF new
      <4>3. QED BY <2>2, <4>1, <4>2
    <3>2. CASE reason # "consumed"
      BY <1>h, <2>2, <3>2 DEF Return
    <3>3. QED BY <3>1, <3>2
  <2>4. QED BY <1>t, <2>1, <2>2, <2>3
<1>i. ASSUME NEW r \in Reqs, Audit(r) PROVE Truthful'
  BY <1>i, <1>t DEF Audit, disk
<1>j. ASSUME NEW r \in Reqs, Reply(r) PROVE Truthful'
  BY <1>j, <1>t DEF Reply, disk
<1>k. ASSUME Down PROVE Truthful'
  BY <1>k DEF Down, disk
<1>l. CASE UNCHANGED vars
  BY <1>l DEF vars, disk
<1> HIDE DEF Truthful, InConsume
<1>m. QED
  BY <1>a, <1>b, <1>c, <1>d, <1>e, <1>f, <1>g, <1>h, <1>i, <1>j, <1>k, <1>l
     DEF Next, Handle, Stop, Crash

-----------------------------------------------------------------------------
\* Who consumes the token for a certificate has found the count below the limit.
BelowLimit == reason = "consumed" => attempts < MaxAttempts

\* No count reaches the limit and still lets a certificate through.
LEMMA NextBelowLimit ==
    ASSUME Base, BelowLimit, [Next]_vars
    PROVE  BelowLimit' /\ (issued' # issued => attempts < MaxAttempts)
<1> USE DEF BelowLimit
<1>t. /\ 0 < MaxAttempts
      /\ ~AtLimit(attempts) => attempts < MaxAttempts
  <2>1. attempts \in 0..MaxAttempts
    BY DEF Base, TypeOK
  <2> HIDE DEF BelowLimit
  <2>2. QED BY <2>1, MaxAttemptsAssumption DEF AtLimit
<1>a. ASSUME NEW t \in Tokens, Place(t) PROVE /\ attempts' = attempts /\ reason' = reason
                                              /\ issued' = issued
  BY <1>a DEF Place, agent
<1>b. ASSUME Start PROVE attempts' = 0 /\ issued' = issued
  BY <1>b DEF Start
<1>c. ASSUME NEW r \in Reqs, NEW t \in Tokens \cup {NoToken}, NEW csr \in {"good", "bad"},
             Arrive(r, t, csr)
      PROVE  attempts' = attempts /\ reason' = reason /\ issued' = issued
  BY <1>c DEF Arrive, agent
<1>d. ASSUME NEW r \in Reqs, Precheck(r) \/ WriteMarker(r) \/ RemoveHash(r) \/ Audit(r) \/ Reply(r)
      PROVE  attempts' = attempts /\ reason' = reason /\ issued' = issued
  BY <1>d DEF Precheck, WriteMarker, RemoveHash, Audit, Reply, agent
<1>e. ASSUME NEW r \in Reqs, Check(r)
      PROVE  /\ issued' = issued
             /\ reason' = "consumed" => attempts' = attempts /\ attempts < MaxAttempts
  <2>1. reason # "consumed"
    BY <1>e DEF Check, Base
  <2>2. CASE BeginConsume(r, "consumed") /\ ~AtLimit(attempts) /\ attempts' = attempts
    BY <1>e, <1>t, <2>2 DEF Check
  <2>3. CASE Deny(r) \/ BeginConsume(r, "locked out")
    BY <1>e, <2>1, <2>3 DEF Check, Deny, BeginConsume
  <2>4. \/ Deny(r) \/ BeginConsume(r, "locked out")
        \/ BeginConsume(r, "consumed") /\ ~AtLimit(attempts) /\ attempts' = attempts
    BY <1>e, Zenon DEF Check
  <2>5. QED BY <2>2, <2>3, <2>4
<1>f. ASSUME NEW r \in Reqs, Return(r)
      PROVE  reason' = "" /\ (issued' # issued => reason = "consumed")
  BY <1>f DEF Return
<1>g. ASSUME Down PROVE reason' = "" /\ issued' = issued
  BY <1>g DEF Down
<1>h. ASSUME UNCHANGED vars PROVE attempts' = attempts /\ reason' = reason /\ issued' = issued
  BY <1>h DEF vars, agent
<1>m. QED
  BY <1>t, <1>a, <1>b, <1>c, <1>d, <1>e, <1>f, <1>g, <1>h DEF Next, Handle, Stop, Crash

\* A run of the agent that has seen MaxAttempts wrong tokens issues no
\* certificate any more, even if neither of consume's writes took effect.
THEOREM LockoutKept == Spec => LockoutHolds
<1>1. Init => Base /\ BelowLimit
  BY InitBase DEF Init, BelowLimit
<1>2. Base /\ BelowLimit /\ [Next]_vars =>
          Base' /\ BelowLimit' /\ [issued' # issued => attempts < MaxAttempts]_vars
  BY NextBase, NextBelowLimit
<1>3. QED BY <1>1, <1>2, PTL DEF Spec, LockoutHolds

-----------------------------------------------------------------------------
(* Whom the marker is about. *)

\* The request of a marker that says "consumed": it has its certificate, is on its
\* way to it, or was cut off.
Consumer(r) ==
    /\ RightToken(r)
    /\ HasCert(r) \/ CutOff(r) \/ (InConsume(r) /\ reason = "consumed")

\* A request whose wrong token has been counted, its refusal on its way or not.
Trying(r) == WrongToken(r) \/
    /\ \E t \in placed : ask[r].token # t
    /\ ~HasCert(r)
    /\ InConsume(r) /\ reason = "locked out"

Tries == {r \in Reqs : Trying(r)}
TryCount == Cardinality(Tries)

\* Without the agent no request is on its way.
Idle == ~up => \A r \in Reqs : pc[r] \in {"new", "done"}

\* m.attempts counts no request twice, the lockout is begun at the limit only, and
\* on the disk it outlives the count.
Marked ==
    /\ Idle
    /\ consumed = "consumed" => \E r \in Reqs : Consumer(r)
    /\ attempts <= TryCount
    /\ reason = "locked out" => attempts >= MaxAttempts
    /\ consumed = "locked out" => TryCount >= MaxAttempts

\* What is set aside stays what it was, unless it holds the mutex.
LEMMA AsideStays ==
    ASSUME NEW q \in Reqs, Aside(q), placed \subseteq placed',
           InConsume(q) => reason' = reason
    PROVE  (Consumer(q) => Consumer(q)') /\ (Trying(q) => Trying(q)')
<1>1. /\ HasCert(q)' <=> HasCert(q)
      /\ CutOff(q)' <=> CutOff(q)
      /\ InConsume(q)' <=> InConsume(q)
      /\ <<q, "denied">> \in audit' <=> <<q, "denied">> \in audit
      /\ pc'[q] = pc[q] /\ ask'[q] = ask[q]
  BY DEF Aside, CutOff, InConsume
<1>2. Consumer(q) => Consumer(q)'
  BY <1>1 DEF Consumer, RightToken
<1>3. Trying(q) => Trying(q)'
  BY <1>1 DEF Trying, WrongToken
<1>4. QED BY <1>2, <1>3

\* Whom the marker may be about it is about ever after: a refusal is logged before
\* the reply, and who is cut off on the way stays without an answer.
LEMMA AllStay ==
    ASSUME Base, Logged, [Next]_vars, NEW q \in Reqs
    PROVE  (Consumer(q) => Consumer(q)') /\ (Trying(q) => Trying(q)')
<1>t. /\ pc \in [Reqs -> {"new", "precheck", "lock", "marker", "remove", "return",
                          "audit", "reply", "done"}]
      /\ answer \in [Reqs -> {"none", "refused", "denied", "cert"}]
      /\ ask \in [Reqs -> [token : Tokens \cup {NoToken}, csr : {"none", "good", "bad"}]]
  BY DEF Base, TypeOK
<1>u. /\ \A r \in Reqs : InConsume(r) <=> lock = r
      /\ lock # NoReq <=> reason # ""
      /\ NoReq \notin Reqs
  BY ReqsAssumption DEF Base
<1>v. placed \subseteq placed'
  BY DEF Next, Place, Start, Stop, Crash, Down, Arrive, Handle, Precheck, Check, WriteMarker,
     RemoveHash, Return, Audit, Reply, vars, disk
<1>w. LoggedOf(q)
  BY DEF Logged
<1>a. CASE UNCHANGED <<pc, ask, reason, issued, audit, answer>>
  <2>1. Aside(q)
    BY <1>a DEF Aside, HasCert
  <2>2. QED BY <1>a, <1>v, <2>1, AsideStays
<1>b. ASSUME ~InConsume(q), pc[q] \in {"new", "precheck", "lock"}
      PROVE  ~Consumer(q) /\ ~Trying(q)
  BY <1>b, <1>w DEF Consumer, Trying, WrongToken, CutOff, LoggedOf
<1>c. ASSUME NEW r \in Reqs, NEW t \in Tokens \cup {NoToken}, NEW csr \in {"good", "bad"},
             Arrive(r, t, csr)
      PROVE  (Consumer(q) => Consumer(q)') /\ (Trying(q) => Trying(q)')
  <2>1. CASE q = r
    BY <1>b, <1>c, <2>1 DEF Arrive, InConsume
  <2>2. CASE q # r
    BY <1>c, <1>v, <2>2, OthersAside, AsideStays DEF Arrive
  <2>3. QED BY <2>1, <2>2
<1>d. ASSUME NEW r \in Reqs, Handle(r), q # r
      PROVE  (Consumer(q) => Consumer(q)') /\ (Trying(q) => Trying(q)')
  <2>1. Aside(q)
    BY <1>d, OthersAside
  <2>2. InConsume(q) => reason' = reason
    <3>1. SUFFICES ASSUME InConsume(q) PROVE reason' = reason
      OBVIOUS
    <3>2. lock = q /\ lock # NoReq /\ lock # r
      BY <1>d, <1>u, <3>1
    <3>3. ~Check(r) /\ ~Return(r)
      BY <1>u, <3>2 DEF Check, Return, InConsume
    <3>4. QED BY <1>d, <3>3 DEF Handle, Precheck, WriteMarker, RemoveHash, Audit, Reply
  <2>3. QED BY <1>v, <2>1, <2>2, AsideStays
<1>e. CASE Precheck(q) \/ Check(q)
  BY <1>b, <1>e DEF Precheck, Check, InConsume
<1>f. CASE WriteMarker(q) \/ RemoveHash(q)
  <2>1. /\ UNCHANGED <<ask, reason, issued, audit, answer, placed>>
        /\ InConsume(q) /\ InConsume(q)' /\ pc[q] \notin {"audit", "reply", "done"}
    BY <1>t, <1>f DEF WriteMarker, RemoveHash, InConsume
  <2>2. HasCert(q)' <=> HasCert(q)
    BY <2>1 DEF HasCert
  <2>3. ~CutOff(q)
    BY <2>1 DEF CutOff
  <2>4. Consumer(q) => Consumer(q)'
    BY <2>1, <2>2, <2>3 DEF Consumer, RightToken
  <2>5. Trying(q) => Trying(q)'
    BY <2>1, <2>2, <2>3 DEF Trying, WrongToken
  <2>6. QED BY <2>4, <2>5
<1>g. CASE Return(q)
  <2>0. /\ UNCHANGED <<ask, audit, answer, placed>>
        /\ pc[q] = "return" /\ pc' = [pc EXCEPT ![q] = "audit"]
        /\ issued' = IF reason = "consumed"
                     THEN issued \cup {[req |-> q, token |-> ask[q].token]}
                     ELSE issued
    BY <1>g DEF Return, disk
  <2>1. /\ UNCHANGED <<ask, audit, answer, placed>> /\ InConsume(q)
        /\ pc[q] = "return" /\ pc'[q] = "audit"
        /\ reason = "consumed" => HasCert(q)'
        /\ reason # "consumed" => issued' = issued
    <3>1. InConsume(q) /\ pc'[q] = "audit"
      BY <1>t, <2>0 DEF InConsume
    <3>2. reason = "consumed" => HasCert(q)'
      <4> DEFINE new == [req |-> q, token |-> ask[q].token]
      <4>1. reason = "consumed" => new \in issued'
        BY <2>0
      <4>2. new.req = q
        OBVIOUS
      <4> HIDE DEF new
      <4>3. QED BY <4>1, <4>2 DEF HasCert
    <3>3. QED BY <2>0, <3>1, <3>2
  <2>2. ~HasCert(q) /\ ~CutOff(q) /\ <<q, "denied">> \notin audit
    BY <1>w, <2>1 DEF LoggedOf, CutOff
  <2>3. Consumer(q) => Consumer(q)'
    BY <2>1, <2>2 DEF Consumer, RightToken
  <2>4. Trying(q) => reason = "locked out" /\ ~HasCert(q)'
    BY <2>1, <2>2 DEF Trying, WrongToken, HasCert
  <2>5. Trying(q) => Trying(q)'
    BY <2>1, <2>4 DEF Trying, WrongToken
  <2>6. QED BY <2>3, <2>5
<1>h. CASE Audit(q) \/ Reply(q)
  <2>1. /\ UNCHANGED <<ask, issued, placed>> /\ audit \subseteq audit'
        /\ pc[q] \in {"audit", "reply"} /\ pc'[q] \in {"reply", "done"}
        /\ pc'[q] = "done" => pc[q] = "reply"
    BY <1>t, <1>h DEF Audit, Reply, disk
  <2>2. HasCert(q)' <=> HasCert(q)
    BY <2>1 DEF HasCert
  <2>3. pc[q] = "reply" /\ ~HasCert(q) => <<q, "denied">> \in audit
    BY <1>w DEF LoggedOf, Said
  <2>4. ~CutOff(q) /\ ~InConsume(q)
    BY <2>1 DEF CutOff, InConsume
  <2>5. Consumer(q) => Consumer(q)'
    BY <2>1, <2>2, <2>4 DEF Consumer, RightToken
  <2>6. Trying(q) => Trying(q)'
    BY <2>1, <2>2, <2>3, <2>4 DEF Trying, WrongToken
  <2>7. QED BY <2>5, <2>6
<1>i. CASE Down
  <2>1. /\ UNCHANGED <<ask, issued, audit, answer, placed>>
        /\ pc'[q] = IF pc[q] = "new" THEN "new" ELSE "done"
    BY <1>i DEF Down, disk
  <2>2. HasCert(q)' <=> HasCert(q)
    BY <2>1 DEF HasCert
  <2>3. pc[q] \notin {"new", "done"} => CutOff(q)'
    BY <1>t, <1>w, <2>1 DEF LoggedOf, CutOff
  <2>4. CutOff(q) => CutOff(q)'
    BY <2>1 DEF CutOff
  <2>5. Consumer(q) => Consumer(q)'
    BY <2>1, <2>2, <2>3, <2>4 DEF Consumer, RightToken, InConsume
  <2>6. Trying(q) => Trying(q)'
    BY <2>1, <2>2, <2>3, <2>4 DEF Trying, WrongToken, InConsume
  <2>7. QED BY <2>5, <2>6
<1>j. CASE (\E t \in Tokens : Place(t)) \/ Start \/ UNCHANGED vars
  BY <1>a, <1>j DEF Place, Start, vars
<1>m. QED
  BY <1>c, <1>d, <1>e, <1>f, <1>g, <1>h, <1>i, <1>j DEF Next, Handle, Stop, Crash

LEMMA NoLess == ASSUME NEW l \in Nat, NEW m \in Nat, NEW n \in Nat, m <= n
                PROVE  (l <= m => l <= n) /\ (m >= l => n >= l)
OBVIOUS

\* Finitely many requests: more of them count for more.
LEMMA Counts ==
    ASSUME NEW S \in SUBSET Reqs, NEW T \in SUBSET Reqs, S \subseteq T
    PROVE  /\ Cardinality(S) \in Nat /\ Cardinality(T) \in Nat
           /\ Cardinality(S) <= Cardinality(T)
           /\ \A r \in T \ S : Cardinality(S) + 1 <= Cardinality(T)
<1>1. IsFiniteSet(S) /\ IsFiniteSet(T)
  BY FiniteAssumption, FS_Subset
<1>2. Cardinality(S) \in Nat /\ Cardinality(T) \in Nat /\ Cardinality(S) <= Cardinality(T)
  BY <1>1, FS_CardinalityType, FS_Subset
<1>3. ASSUME NEW r \in T \ S PROVE Cardinality(S) + 1 <= Cardinality(T)
  <2>1. Cardinality(S \cup {r}) = Cardinality(S) + 1
    BY <1>1, <1>3, FS_AddElement
  <2>2. Cardinality(S \cup {r}) <= Cardinality(T)
    BY <1>1, <1>3, FS_Subset
  <2>3. QED BY <2>1, <2>2
<1>4. QED BY <1>2, <1>3

LEMMA TriesCount ==
    ASSUME Base, Logged, [Next]_vars
    PROVE  /\ TryCount \in Nat /\ TryCount' \in Nat
           /\ TryCount <= TryCount'
           /\ \A r \in Reqs : ~Trying(r) /\ Trying(r)' =>
                  TryCount + 1 <= TryCount'
<1>1. Tries \subseteq Reqs /\ Tries' \subseteq Reqs /\ Tries \subseteq Tries'
  BY AllStay DEF Tries
<1>2. \A r \in Reqs : ~Trying(r) /\ Trying(r)' => r \in Tries' \ Tries
  BY DEF Tries
<1>3. QED BY <1>1, <1>2, Counts DEF TryCount

LEMMA AttemptsTypes == Base => attempts \in Nat /\ MaxAttempts \in Nat
<1>1. Base => attempts \in 0..MaxAttempts
  BY DEF Base, TypeOK
<1>2. QED BY <1>1, MaxAttemptsAssumption

LEMMA NextIdle == ASSUME Base, Idle, [Next]_vars PROVE Idle'
<1>1. ASSUME NEW r \in Reqs, Handle(r) PROVE up /\ up' = up
  <2>1. pc[r] \notin {"new", "done"} /\ up' = up
    BY <1>1 DEF Handle, Precheck, Check, WriteMarker, RemoveHash, Return, Audit, Reply, agent
  <2>2. QED BY <2>1 DEF Idle
<1>2. CASE Start
  BY <1>2 DEF Start, Idle
<1>3. CASE Down
  BY <1>3 DEF Down, Idle
<1>4. ASSUME NEW r \in Reqs, NEW t \in Tokens \cup {NoToken}, NEW csr \in {"good", "bad"},
             Arrive(r, t, csr)
      PROVE  up /\ up' = up
  BY <1>4 DEF Arrive, agent
<1>5. CASE (\E t \in Tokens : Place(t)) \/ UNCHANGED vars
  BY <1>5 DEF Place, vars, agent, Idle
<1>6. QED
  BY <1>1, <1>2, <1>3, <1>4, <1>5 DEF Next, Stop, Crash, Idle

\* Nothing is counted at the start.
LEMMA InitMarked == Init => Marked
<1>1. TryCount \in Nat
  <2>1. Tries \subseteq Reqs
    BY DEF Tries
  <2>2. QED BY <2>1, Counts DEF TryCount
<1>2. Init => consumed = "" /\ attempts = 0 /\ reason = ""
  BY DEF Init
<1>3. Init => Idle
  BY DEF Init, Idle
<1>4. Init => attempts <= TryCount
  <2>1. 0 <= TryCount
    BY <1>1
  <2>2. QED BY <1>2, <2>1
<1>5. QED BY <1>2, <1>3, <1>4 DEF Marked

\* A wrong token is counted for a request that was not counted before.
LEMMA CheckMarked ==
    ASSUME Base, Once, Logged, Marked, [Next]_vars, NEW r \in Reqs, Check(r)
    PROVE  Marked'
<1>t. /\ attempts \in Nat /\ MaxAttempts \in Nat
      /\ pc \in [Reqs -> {"new", "precheck", "lock", "marker", "remove", "return",
                          "audit", "reply", "done"}]
  BY AttemptsTypes DEF Base, TypeOK
<1>1. /\ consumed' = consumed /\ hash' = hash /\ placed' = placed /\ ask' = ask
      /\ issued' = issued /\ audit' = audit /\ answer' = answer
      /\ pc[r] = "lock" /\ reason = "" /\ lock = NoReq
  BY DEF Check, disk, Base
<1>2. \/ attempts' = attempts /\ Deny(r)
      \/ attempts' = attempts /\ BeginConsume(r, "consumed")
      \/ attempts' = attempts /\ BeginConsume(r, "locked out") /\ AtLimit(attempts)
      \/ /\ attempts' = attempts + 1 /\ Enabled /\ ask[r].token # hash
         /\ \/ BeginConsume(r, "locked out") /\ AtLimit(attempts')
            \/ Deny(r)
  BY Zenon DEF Check, Unavailable
<1>3. (reason = "locked out" => attempts >= MaxAttempts)'
  BY <1>1, <1>2 DEF Deny, BeginConsume, AtLimit
<1>4. ~HasCert(r) /\ ~Trying(r)
  BY <1>1 DEF Logged, LoggedOf, Trying, WrongToken, CutOff, InConsume
<1>5. ASSUME attempts' = attempts + 1, Enabled, ask[r].token # hash PROVE Trying(r)'
  <2>1. (\E t \in placed : ask[r].token # t)' /\ ~HasCert(r)'
    BY <1>1, <1>4, <1>5 DEF Enabled, Once, HasCert
  <2>2. \/ pc'[r] = "audit"
        \/ pc'[r] = "marker" /\ reason' = "locked out"
    <3>1. attempts' # attempts
      BY <1>t, <1>5
    <3>2. Deny(r) \/ BeginConsume(r, "locked out")
      BY <1>2, <3>1
    <3>3. QED BY <1>t, <3>2 DEF Deny, BeginConsume
  <2>3. QED BY <2>1, <2>2 DEF Trying, WrongToken, InConsume
<1>6. /\ TryCount \in Nat /\ TryCount' \in Nat
      /\ TryCount <= TryCount'
      /\ Trying(r)' => TryCount + 1 <= TryCount'
  BY <1>4, TriesCount
<1>7. attempts' <= TryCount'
  <2>1. attempts <= TryCount
    BY DEF Marked
  <2>2. attempts' = attempts \/ (attempts' = attempts + 1 /\ Trying(r)')
    BY <1>2, <1>5
  <2>3. QED BY <1>t, <1>6, <2>1, <2>2
<1>8. (consumed = "consumed" => \E q \in Reqs : Consumer(q))'
  BY <1>1, AllStay DEF Marked
<1>9. (consumed = "locked out" => TryCount >= MaxAttempts)'
  <2>1. consumed = "locked out" => TryCount >= MaxAttempts
    BY DEF Marked
  <2>2. consumed' = "locked out" => TryCount' >= MaxAttempts
    BY <1>t, <1>1, <1>6, <2>1, NoLess
  <2>3. QED BY <2>2
<1>10. QED BY <1>3, <1>7, <1>8, <1>9, NextIdle DEF Marked

\* The marker says why it is written.
LEMMA WriteMarked ==
    ASSUME Base, Once, Truthful, Logged, Marked, [Next]_vars, NEW r \in Reqs, WriteMarker(r)
    PROVE  Marked'
<1>t. attempts \in Nat /\ MaxAttempts \in Nat
  BY AttemptsTypes
<1>1. /\ attempts' = attempts /\ reason' = reason /\ InConsume(r)
      /\ consumed' = consumed \/ consumed' = reason
  BY DEF WriteMarker, agent, InConsume
<1>2. /\ TryCount \in Nat /\ TryCount' \in Nat
      /\ TryCount <= TryCount'
  BY TriesCount
<1>3. /\ attempts <= TryCount
      /\ reason = "locked out" => attempts >= MaxAttempts
      /\ consumed = "locked out" => TryCount >= MaxAttempts
  BY DEF Marked
<1>4. reason = "consumed" => Consumer(r)
  <2>1. reason = "consumed" => ask[r].token \in placed /\ ask[r].csr = "good"
    BY <1>1 DEF Once, Consuming, Truthful, InConsume
  <2>2. QED BY <1>1, <2>1 DEF Consumer, RightToken
<1>5. (consumed = "consumed" => \E q \in Reqs : Consumer(q))'
  BY <1>1, <1>4, AllStay DEF Marked
<1>6. reason' = "locked out" => attempts' >= MaxAttempts
  BY <1>1, <1>3
<1>7. attempts' <= TryCount'
  BY <1>t, <1>1, <1>2, <1>3, NoLess
<1>8. reason = "locked out" => TryCount >= MaxAttempts
  <2>1. ASSUME NEW a \in Nat, NEW m \in Nat, NEW n \in Nat, a >= m, a <= n PROVE n >= m
    BY <2>1
  <2>2. QED BY <1>t, <1>2, <1>3, <2>1
<1>9. consumed' = "locked out" => TryCount' >= MaxAttempts
  <2>1. consumed' = "locked out" => TryCount >= MaxAttempts
    BY <1>1, <1>3, <1>8
  <2>2. QED BY <1>t, <1>2, <2>1, NoLess
<1>10. QED BY <1>5, <1>6, <1>7, <1>9, NextIdle DEF Marked

LEMMA NextMarked ==
    ASSUME Base, Once, Truthful, Logged, Marked, [Next]_vars PROVE Marked'
<1>t. attempts \in Nat /\ MaxAttempts \in Nat
  BY AttemptsTypes
<1>1. ASSUME consumed' = consumed, attempts' \in {0, attempts},
             reason' = "locked out" => reason = "locked out" /\ attempts' = attempts
      PROVE  Marked'
  <2>1. /\ TryCount \in Nat /\ TryCount' \in Nat
        /\ TryCount <= TryCount'
    BY TriesCount
  <2>2. (consumed = "consumed" => \E q \in Reqs : Consumer(q))'
    BY <1>1, AllStay DEF Marked
  <2>3. /\ attempts <= TryCount
        /\ reason = "locked out" => attempts >= MaxAttempts
        /\ consumed = "locked out" => TryCount >= MaxAttempts
    BY DEF Marked
  <2>4. (reason = "locked out" => attempts >= MaxAttempts)'
    BY <1>1, <2>3
  <2>5. attempts' <= TryCount'
    <3>1. attempts <= TryCount'
      BY <1>t, <2>1, <2>3, NoLess
    <3>2. 0 <= TryCount'
      BY <2>1
    <3>3. QED BY <1>1, <3>1, <3>2
  <2>6. consumed' = "locked out" => TryCount' >= MaxAttempts
    BY <1>t, <1>1, <2>1, <2>3, NoLess
  <2>7. QED BY <2>2, <2>4, <2>5, <2>6, NextIdle DEF Marked
<1>2. ASSUME NEW r \in Reqs, Handle(r), ~Check(r), ~WriteMarker(r) PROVE Marked'
  BY <1>1, <1>2 DEF Handle, Precheck, RemoveHash, Return, Audit, Reply, agent, disk
<1>3. ASSUME NEW r \in Reqs, NEW t \in Tokens \cup {NoToken}, NEW csr \in {"good", "bad"},
             Arrive(r, t, csr)
      PROVE  Marked'
  BY <1>1, <1>3 DEF Arrive, agent, disk
<1>4. CASE Start
  <2>1. \A r \in Reqs : ~InConsume(r)
    BY <1>4 DEF Start, Marked, Idle, InConsume
  <2>2. reason = ""
    BY <2>1 DEF Base, TypeOK
  <2>3. QED BY <1>1, <1>4, <2>2 DEF Start, disk
<1>5. CASE Down
  BY <1>1, <1>5 DEF Down, disk
<1>6. CASE (\E t \in Tokens : Place(t)) \/ UNCHANGED vars
  BY <1>1, <1>6 DEF Place, vars, agent, disk
<1>7. QED
  BY <1>2, <1>3, <1>4, <1>5, <1>6, CheckMarked, WriteMarked DEF Next, Stop, Crash

\* Between requests the marker and the hash tell the truth, over any restarts and
\* crashes between consume's writes.  "consumed" is written for a delivered token
\* with a good CSR only, whose request has its certificate unless it was cut off;
\* "locked out" only after MaxAttempts requests with a wrong token, denied or cut
\* off; and no token that gave a certificate is left looking unused.
THEOREM FilesTellTruth ==
    ASSUME OneWriteWorks PROVE Spec => []MarkerTellsTruth
<1> DEFINE Inv == Base /\ Once /\ Truthful /\ Logged /\ Marked
<1>1. Init => Inv
  BY InitBase, InitOnce, InitTruthful, InitLogged, InitMarked
<1>2. Inv /\ [Next]_vars => Inv'
  BY NextBase, NextOnce, NextTruthful, NextLogged, NextMarked, OneWriteWorks
<1>3. Inv => MarkerTellsTruth
  <2> SUFFICES ASSUME Inv, lock = NoReq PROVE MarkerTellsTruth
    BY DEF MarkerTellsTruth
  <2>1. \A r \in Reqs : ~InConsume(r)
    BY ReqsAssumption DEF Base
  <2>2. \A r \in Reqs : Consumer(r) => RightToken(r) /\ (HasCert(r) \/ CutOff(r))
    BY <2>1 DEF Consumer
  <2>3. TryCount = Cardinality({r \in Reqs : WrongToken(r)})
    BY <2>1 DEF TryCount, Tries, Trying
  <2>4. QED BY <2>2, <2>3 DEF Marked, Truthful, MarkerTellsTruth
<1>4. QED BY <1>1, <1>2, <1>3, PTL DEF Spec
=============================================================================
