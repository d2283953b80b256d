----------------------------- MODULE JwksCache -----------------------------
(***************************************************************************)
(* The keys of the token issuer as the OIDC authenticator keeps them:      *)
(* jwksCache in internal/authn/oidc/oidc.go.                               *)
(*                                                                         *)
(* Every request that brings a token asks getKey for the key the token     *)
(* names. It may find a fresh one, or fetch the issuer's keys: it takes    *)
(* the lock four times on the way, and any number of requests may be at    *)
(* any place of it. The issuer adds and withdraws keys as it likes.        *)
(*                                                                         *)
(* Time goes by in steps while requests wait for the issuer or there are   *)
(* none; the few instructions between two locks take none, however they    *)
(* interleave.                                                             *)
(***************************************************************************)
EXTENDS Naturals

CONSTANTS
    Callers,    \* requests that run at a time
    Kids,       \* names of keys
    Usable,     \* those for signatures, of a type toPublicKey supports
    Ttl,        \* how old the keys may get
    Cooldown,   \* how soon they are not fetched again
    Timeout,    \* of the http client
    Faults      \* what may go wrong, a subset of FaultKinds

FaultKinds == {"fetch"}     \* the issuer is not to be reached, or answers badly

ASSUME UsableAssumption == Usable \subseteq Kids
ASSUME TimesAssumption ==
    /\ Ttl \in Nat /\ Cooldown \in Nat /\ Timeout \in Nat
    /\ 0 < Cooldown /\ Cooldown < Ttl
ASSUME FaultsAssumption == Faults \subseteq FaultKinds

VARIABLES
    issuer,     \* of each key whether the issuer lists it, and for how long so
    keys,       \* the cache
    age,        \* time since lastFetch and lastRefresh, which are set together
    call,       \* the requests, see Call
    answer      \* the last answer of getKey, until the issuer or the time goes on

vars == <<issuer, keys, age, call, answer>>

\* Longer than any span of time that matters; a key withdrawn, or listed, longer
\* than this is as good as always so.
Ages == Ttl + Cooldown + Timeout + 1

\* time.Since of the zero time: the keys were never fetched.
Never == Ttl + 1

Issuer == [Kids -> [listed : BOOLEAN, since : 0 .. Ages]]

Call ==
    [ pc : {"idle", "cool", "fetch", "answered", "store", "again"},
      kid : Kids \cup {""},
      ok : BOOLEAN,             \* the key was in the cache
      body : SUBSET Kids,       \* the answer of the issuer
      waited : 0 .. Timeout,    \* for it
      raced : BOOLEAN ]         \* another request has stored keys since it looked

Idle == [ pc |-> "idle", kid |-> "", ok |-> FALSE, body |-> {},
          waited |-> 0, raced |-> FALSE ]

\* How getKey came by what it returns.
Ways == {"cached", "cooling", "failed", "fetched"}

Answers ==
    [ kid : Kids, got : BOOLEAN, way : Ways, raced : BOOLEAN,
      listed : BOOLEAN, since : 0 .. Ages ]     \* the issuer at that time

TypeOK ==
    /\ issuer \in Issuer
    /\ keys \subseteq Usable
    /\ age \in 0 .. Never
    /\ call \in [Callers -> Call]
    /\ answer \in Answers \cup {<<>>}

Init ==
    /\ issuer \in {i \in Issuer : \A k \in Kids : i[k].since = Ages}
    /\ keys = {} /\ age = Never
    /\ call = [c \in Callers |-> Idle]
    /\ answer = <<>>

-----------------------------------------------------------------------------
Returns(c, kid, got, way) ==
    /\ call' = [call EXCEPT ![c] = Idle]
    /\ answer' = [kid |-> kid, got |-> got, way |-> way, raced |-> call[c].raced,
                  listed |-> issuer[kid].listed, since |-> issuer[kid].since]

\* time.Since(c.lastFetch) > c.ttl
Stale == age > Ttl

\* getKey looks for the key, and returns it if it is fresh.
Look(c, kid) ==
    /\ call[c].pc = "idle"
    /\ IF kid \in keys /\ ~Stale THEN Returns(c, kid, TRUE, "cached")
       ELSE /\ call' = [call EXCEPT ![c].pc = "cool", ![c].kid = kid, ![c].ok = kid \in keys]
            /\ UNCHANGED answer
    /\ UNCHANGED <<issuer, keys, age>>

\* A bug to catch: the time is compared with the one of the keys.
CoolingDown_Ttl == age < Ttl

\* time.Since(c.lastRefresh) < c.cooldown
CoolingDown == age < Cooldown

\* Unless the keys were fetched a moment ago it fetches them.
Cool(c) ==
    /\ call[c].pc = "cool"
    /\ IF CoolingDown THEN Returns(c, call[c].kid, call[c].ok, "cooling")
       ELSE /\ call' = [call EXCEPT ![c].pc = "fetch"]
            /\ UNCHANGED answer
    /\ UNCHANGED <<issuer, keys, age>>

\* The issuer answers with the keys it lists, which are yet to arrive.
Serve(c) ==
    /\ call[c].pc = "fetch"
    /\ call' = [call EXCEPT ![c].pc = "answered", ![c].body = {k \in Kids : issuer[k].listed}]
    /\ UNCHANGED <<issuer, keys, age, answer>>

\* The key is for signatures, and toPublicKey can make one of it.
Supported(kid) == kid \in Usable

\* The keys refresh takes from the answer.
Signing(body) == {kid \in body : Supported(kid)}

Receive(c) ==
    /\ call[c].pc = "answered"
    /\ call' = [call EXCEPT ![c].pc = "store", ![c].body = Signing(@)]
    /\ UNCHANGED <<issuer, keys, age, answer>>

\* The client gives up, or cannot use the answer; getKey returns the key it has.
FetchFails(c) ==
    /\ "fetch" \in Faults
    /\ call[c].pc \in {"fetch", "answered"}
    /\ Returns(c, call[c].kid, call[c].ok, "failed")
    /\ UNCHANGED <<issuer, keys, age>>

\* A bug to catch: the new keys are added to the old ones.
Replaces_Not(body) == keys \cup body

\* What becomes of the cache.
Replaces(body) == body

Store(c) ==
    /\ call[c].pc = "store"
    /\ keys' = Replaces(call[c].body)
    /\ age' = 0
    /\ call' = [q \in Callers |->
                  IF q = c THEN [call[q] EXCEPT !.pc = "again", !.body = {}]
                  ELSE [call[q] EXCEPT !.raced = @ \/ call[q].pc = "cool"]]
    /\ UNCHANGED <<issuer, answer>>

\* getKey looks once more, after its own refresh or one that overtook it.
Again(c) ==
    /\ call[c].pc = "again"
    /\ Returns(c, call[c].kid, call[c].kid \in keys, "fetched")
    /\ UNCHANGED <<issuer, keys, age>>

-----------------------------------------------------------------------------
\* The issuer lists a key, or withdraws it.
Rotate(kid) ==
    /\ issuer' = [issuer EXCEPT ![kid] = [listed |-> ~@.listed, since |-> 0]]
    /\ answer' = <<>>
    /\ UNCHANGED <<keys, age, call>>

Waits(c) == call[c].pc \in {"fetch", "answered"}

Later(n, most) == IF n < most THEN n + 1 ELSE most

\* Time passes for all, but for no fetch beyond the timeout.
Tick ==
    /\ \A c \in Callers : call[c].pc = "idle" \/ (Waits(c) /\ call[c].waited < Timeout)
    /\ issuer' = [k \in Kids |-> [issuer[k] EXCEPT !.since = Later(@, Ages)]]
    /\ age' = Later(age, Never)
    /\ call' = [c \in Callers |->
                  IF Waits(c) THEN [call[c] EXCEPT !.waited = @ + 1] ELSE call[c]]
    /\ answer' = <<>>
    /\ UNCHANGED keys

Next ==
    \/ \E c \in Callers :
        \/ \E kid \in Kids : Look(c, kid)
        \/ Cool(c) \/ Serve(c) \/ Receive(c) \/ FetchFails(c) \/ Store(c) \/ Again(c)
    \/ \E kid \in Kids : Rotate(kid)
    \/ Tick

Spec == Init /\ [][Next]_vars

-----------------------------------------------------------------------------
(***************************************************************************)
(* What is checked.                                                        *)
(***************************************************************************)

\* Whatever requests run into each other and however late the issuer's answers come,
\* a key that getKey hands out was listed within the Ttl and the time of one fetch;
\* within that of a fetch alone if it has fetched. Two cases are left out: its own
\* fetch failed, when an old key is what the code means to return, and another
\* request's refresh came between its two looks at the cache (lines 309 and 315), when
\* it takes the old key for one that needs no refresh.
HandsOutListed ==
    answer # <<>> /\ answer.got /\ answer.way # "failed" /\ ~answer.raced =>
        \/ answer.listed
        \/ answer.since <= Timeout
        \/ answer.way = "cached" /\ answer.since <= Ttl + Timeout

\* A usable key that the issuer has listed for the Cooldown and a fetch is
\* not refused, in the same two cases excepted: old answers that arrive late and the
\* cooldown they start cannot hide it for longer.
FindsListed ==
    answer # <<>> /\ answer.kid \in Usable /\ ~answer.got /\ answer.way # "failed" /\ ~answer.raced =>
        ~answer.listed \/ answer.since < Cooldown + Timeout
=============================================================================
