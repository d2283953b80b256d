------------------------------ MODULE Bootstrap ------------------------------
(***************************************************************************)
(* Credential bootstrap with a one-time token: the Manager of              *)
(* internal/bootstrap/bootstrap.go, its RPC BootstrapAuth of               *)
(* internal/api/v1alpha1/machine.go, and the part of                       *)
(* internal/agent/server.go that opens the endpoint when the agent starts. *)
(*                                                                         *)
(* Requests run concurrently; the Manager's mutex serialises them from the *)
(* second look at the token files to the end of Manager.Bootstrap.  The    *)
(* token hash and the consumed marker are files: they survive a restart,   *)
(* the count of failed attempts does not.                                  *)
(***************************************************************************)
EXTENDS Integers, FiniteSets

CONSTANTS
    Reqs,           \* the requests made
    Certified,      \* those made with a client certificate
    Tokens,         \* tokens the operator generates, each delivered once
    NoToken,        \* no token hash on disk; also a token nobody generated
    NoReq,          \* nobody holds the mutex
    MaxAttempts,    \* failed attempts before the lockout: 3 in the code
    Faults,         \* what may go wrong, a subset of FaultKinds
    MaxBoots        \* bound: starts of the agent

FaultKinds ==
    { "crash",      \* the agent stops anywhere
      "marker",     \* the consumed marker cannot be written
      "remove",     \* the token hash cannot be removed, the marker being there
      "both",       \* the token hash cannot be removed, the marker missing
      "lost" }      \* an answer does not reach the client

ASSUME ReqsAssumption == Certified \subseteq Reqs /\ NoReq \notin Reqs
ASSUME FiniteAssumption == IsFiniteSet(Reqs)
ASSUME TokensAssumption == NoToken \notin Tokens
ASSUME MaxAttemptsAssumption == MaxAttempts \in Nat \ {0}
ASSUME FaultsAssumption == Faults \subseteq FaultKinds
ASSUME MaxBootsAssumption == MaxBoots \in Nat

VARIABLES
    hash,       \* bootstrap-token-hash: the token it is the hash of, or NoToken
    consumed,   \* bootstrap-consumed: the reason written in it, "" if absent
    placed,     \* tokens the operator has delivered
    up,         \* the agent runs
    active,     \* BootstrapActive: the endpoint was opened at the start
    attempts,   \* m.attempts
    lock,       \* the holder of m.mu
    boot,       \* starts so far
    pc,         \* where each request is
    ask,        \* the token and the CSR of each request
    reason,     \* what the holder is to write in the marker
    issued,     \* certificates Manager.Bootstrap has returned
    audit,      \* bootstrap events logged
    answer      \* what each client got

disk == <<hash, consumed, placed>>
agent == <<up, active, attempts, boot>>
vars == <<disk, agent, lock, pc, ask, reason, issued, audit, answer>>

NoAsk == [token |-> NoToken, csr |-> "none"]

TypeOK ==
    /\ hash \in Tokens \cup {NoToken}
    /\ consumed \in {"", "consumed", "locked out"}
    /\ placed \subseteq Tokens
    /\ up \in BOOLEAN /\ active \in BOOLEAN
    /\ attempts \in 0..MaxAttempts
    /\ lock \in Reqs \cup {NoReq}
    /\ boot \in Nat
    /\ pc \in [Reqs -> {"new", "precheck", "lock", "marker", "remove", "return",
                        "audit", "reply", "done"}]
    /\ ask \in [Reqs -> [token : Tokens \cup {NoToken}, csr : {"none", "good", "bad"}]]
    /\ reason \in {"", "consumed", "locked out"}
    /\ issued \subseteq [req : Reqs, token : Tokens]
    /\ audit \subseteq Reqs \X {"success", "denied"}
    /\ answer \in [Reqs -> {"none", "refused", "denied", "cert"}]

-----------------------------------------------------------------------------
Enabled == hash # NoToken /\ consumed = ""

Init ==
    /\ hash = NoToken /\ consumed = "" /\ placed = {}
    /\ up = FALSE /\ active = FALSE /\ attempts = 0 /\ boot = 0
    /\ lock = NoReq
    /\ pc = [r \in Reqs |-> "new"]
    /\ ask = [r \in Reqs |-> NoAsk]
    /\ reason = ""
    /\ issued = {} /\ audit = {}
    /\ answer = [r \in Reqs |-> "none"]

\* The operator writes the hash of a new token, as gen-token tells.
Place(t) ==
    /\ t \notin placed
    /\ placed' = placed \cup {t}
    /\ hash' = t
    /\ UNCHANGED <<consumed, agent, lock, pc, ask, reason, issued, audit, answer>>

\* run: NewManager, and NewServer with BootstrapActive as Enabled is now.
Start ==
    /\ ~up
    /\ boot < MaxBoots
    /\ up' = TRUE
    /\ boot' = boot + 1
    /\ active' = Enabled
    /\ attempts' = 0
    /\ UNCHANGED <<disk, lock, pc, ask, reason, issued, audit, answer>>

\* A client calls BootstrapAuth.  Unless the endpoint was opened at the start,
\* a client without a certificate is turned away before the handler.
Arrive(r, t, csr) ==
    /\ up
    /\ pc[r] = "new"
    /\ ask' = [ask EXCEPT ![r] = [token |-> t, csr |-> csr]]
    /\ IF active \/ r \in Certified
       THEN pc' = [pc EXCEPT ![r] = "precheck"] /\ UNCHANGED answer
       ELSE /\ pc' = [pc EXCEPT ![r] = "done"]
            /\ answer' = [answer EXCEPT ![r] = "refused"]
    /\ UNCHANGED <<disk, agent, lock, reason, issued, audit>>

\* BootstrapAuth's look at the files, outside the mutex; a refusal here is not
\* audited.
Precheck(r) ==
    /\ pc[r] = "precheck"
    /\ IF Enabled
       THEN pc' = [pc EXCEPT ![r] = "lock"] /\ UNCHANGED answer
       ELSE /\ pc' = [pc EXCEPT ![r] = "done"]
            /\ answer' = [answer EXCEPT ![r] = "denied"]
    /\ UNCHANGED <<disk, agent, lock, ask, reason, issued, audit>>

\* Manager.Bootstrap returns with an error, the token left as it is.
Deny(r) ==
    /\ pc' = [pc EXCEPT ![r] = "audit"]
    /\ UNCHANGED <<lock, reason>>

\* consume(why), called with the mutex held.
BeginConsume(r, why) ==
    /\ lock' = r
    /\ reason' = why
    /\ pc' = [pc EXCEPT ![r] = "marker"]

\* A bug to catch: Enabled is not asked again once the mutex is held.
Unavailable_Trusts(r) == FALSE

\* Manager.Bootstrap finds the files gone or the marker there.
Unavailable(r) == ~Enabled

\* A bug to catch: one attempt too many.
AtLimit_OffByOne(n) == n > MaxAttempts

\* How many failed attempts are too many, before the comparison and after it.
AtLimit(n) == n >= MaxAttempts

\* A bug to catch: the token is consumed before the CSR is signed.
Signed_Later(r) == TRUE

\* signCSR, before consume.
Signed(r) == ask[r].csr = "good"

\* Manager.Bootstrap from taking the mutex to its first write or its return.
Check(r) ==
    /\ pc[r] = "lock"
    /\ lock = NoReq
    /\ IF Unavailable(r) THEN Deny(r) /\ UNCHANGED attempts
       ELSE IF AtLimit(attempts) THEN BeginConsume(r, "locked out") /\ UNCHANGED attempts
       ELSE IF hash = NoToken THEN Deny(r) /\ UNCHANGED attempts
       ELSE IF ask[r].token # hash
       THEN /\ attempts' = attempts + 1
            /\ IF AtLimit(attempts') THEN BeginConsume(r, "locked out") ELSE Deny(r)
       ELSE /\ UNCHANGED attempts
            /\ IF Signed(r) THEN BeginConsume(r, "consumed") ELSE Deny(r)
    /\ UNCHANGED <<disk, up, active, boot, ask, issued, audit, answer>>

\* consume's first write; an error is only reported to slog.
WriteMarker(r) ==
    /\ pc[r] = "marker"
    /\ \/ consumed' = reason
       \/ "marker" \in Faults /\ consumed' = consumed
    /\ pc' = [pc EXCEPT ![r] = "remove"]
    /\ UNCHANGED <<hash, placed, agent, lock, ask, reason, issued, audit, answer>>

\* consume's second one; an error is ignored.
RemoveHash(r) ==
    /\ pc[r] = "remove"
    /\ \/ hash' = NoToken
       \/ hash' = hash /\ (IF consumed = "" THEN "both" ELSE "remove") \in Faults
    /\ pc' = [pc EXCEPT ![r] = "return"]
    /\ UNCHANGED <<consumed, placed, agent, lock, ask, reason, issued, audit, answer>>

\* A bug to catch: the mutex is not given back.
Unlocked_Never(r) == r

\* The deferred unlock.
Unlocked(r) == NoReq

\* Manager.Bootstrap returns after consume: a certificate, or the lockout.
Return(r) ==
    /\ pc[r] = "return"
    /\ lock' = Unlocked(r)
    /\ reason' = ""
    /\ issued' = IF reason = "consumed"
                 THEN issued \cup {[req |-> r, token |-> ask[r].token]}
                 ELSE issued
    /\ pc' = [pc EXCEPT ![r] = "audit"]
    /\ UNCHANGED <<disk, agent, ask, audit, answer>>

HasCert(r) == \E i \in issued : i.req = r

\* A bug to catch: a refusal is not logged.
Outcomes_SuccessOnly(r) == IF HasCert(r) THEN {"success"} ELSE {}

\* emitBootstrapAudit, before the answer.
Outcomes(r) == IF HasCert(r) THEN {"success"} ELSE {"denied"}

Audit(r) ==
    /\ pc[r] = "audit"
    /\ audit' = audit \cup {<<r, o>> : o \in Outcomes(r)}
    /\ pc' = [pc EXCEPT ![r] = "reply"]
    /\ UNCHANGED <<disk, agent, lock, ask, reason, issued, answer>>

Reply(r) ==
    /\ pc[r] = "reply"
    /\ \/ answer' = [answer EXCEPT ![r] = IF HasCert(r) THEN "cert" ELSE "denied"]
       \/ "lost" \in Faults /\ answer' = answer
    /\ pc' = [pc EXCEPT ![r] = "done"]
    /\ UNCHANGED <<disk, agent, lock, ask, reason, issued, audit>>

\* The agent is gone; requests it was serving fail.
Down ==
    /\ up' = FALSE
    /\ active' = FALSE
    /\ attempts' = 0
    /\ lock' = NoReq
    /\ reason' = ""
    /\ pc' = [r \in Reqs |-> IF pc[r] = "new" THEN "new" ELSE "done"]
    /\ UNCHANGED <<disk, boot, ask, issued, audit, answer>>

\* GracefulStop lets the requests being served finish.
Stop == up /\ (\A r \in Reqs : pc[r] \in {"new", "done"}) /\ Down

Crash == up /\ "crash" \in Faults /\ Down

Handle(r) ==
    \/ Precheck(r) \/ Check(r) \/ WriteMarker(r) \/ RemoveHash(r)
    \/ Return(r) \/ Audit(r) \/ Reply(r)

Next ==
    \/ \E t \in Tokens : Place(t)
    \/ Start \/ Stop \/ Crash
    \/ \E r \in Reqs, t \in Tokens \cup {NoToken}, csr \in {"good", "bad"} : Arrive(r, t, csr)
    \/ \E r \in Reqs : Handle(r)

Spec == Init /\ [][Next]_vars

\* A request being served is a goroutine of its own: it keeps running.
FairSpec == Spec /\ \A r \in Reqs : WF_vars(Handle(r))

-----------------------------------------------------------------------------
(* Properties. *)

\* A token yields at most one certificate over all requests and restarts, as
\* long as one of consume's two writes takes effect.
OneTimeToken == \A i, j \in issued : i.token = j.token => i = j

\* Once the failed attempts of a run reach the limit, that run issues no
\* certificate, even if the lockout could not be put on disk.
LockoutHolds == [][issued' # issued => attempts < MaxAttempts]_vars

\* A request whose client was told nothing: the agent went down under it, or the
\* answer was lost.
CutOff(r) == pc[r] = "done" /\ answer[r] = "none"

RightToken(r) == ask[r].token \in placed /\ ask[r].csr = "good"

\* A request that brought another token than one delivered, and was denied for it
\* or, nothing being known of it any more, cut off.
WrongToken(r) ==
    /\ \E t \in placed : ask[r].token # t
    /\ ~HasCert(r)
    /\ pc[r] \in {"audit", "reply"} \/ CutOff(r) \/ <<r, "denied">> \in audit

\* The files tell the truth between requests, over restarts and crashes between
\* the two writes.  A marker that says "consumed" is that of a request with a
\* delivered token and a good CSR, and that request has its certificate, or was
\* cut off before Manager.Bootstrap could return it: a refused request burns no
\* token.  One that says "locked out" has seen MaxAttempts requests with a wrong
\* token, those cut off counted with those denied.  And a token that gave a
\* certificate has its marker or has lost its hash.
MarkerTellsTruth ==
    lock = NoReq =>
        /\ consumed = "consumed" =>
               \E r \in Reqs : RightToken(r) /\ (HasCert(r) \/ CutOff(r))
        /\ consumed = "locked out" =>
               Cardinality({r \in Reqs : WrongToken(r)}) >= MaxAttempts
        /\ \A i \in issued : consumed = "consumed" \/ hash # i.token

\* The audit log has what was decided, and has it before the client: an answer
\* that carries a certificate is logged as a success, past the first look at the
\* files a refusal is logged too, and no crash or lost answer leaves a success in
\* the log of a request without a certificate, or a denial of one that has it.
AnswerIsAudited ==
    \A r \in Reqs :
        /\ answer[r] = "cert" => <<r, "success">> \in audit
        /\ pc[r] = "reply" => <<r, IF HasCert(r) THEN "success" ELSE "denied">> \in audit
        /\ <<r, "success">> \in audit => HasCert(r)
        /\ <<r, "denied">> \in audit => ~HasCert(r)

\* Every request that reaches the handler is answered or ends with the agent.
Answered == \A r \in Reqs : pc[r] = "precheck" ~> pc[r] = "done"
=============================================================================
