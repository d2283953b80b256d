--------------------------- MODULE JwksCacheProofs ---------------------------
(***************************************************************************)
(* Proofs about JwksCache, for any number of requests and keys, and any    *)
(* lengths of time.                                                        *)
(***************************************************************************)
EXTENDS JwksCache, TLAPS

-----------------------------------------------------------------------------
(* Type correctness. *)

LEMMA Times == /\ Ttl \in Nat /\ Cooldown \in Nat /\ Timeout \in Nat
               /\ Ages \in Nat /\ Never \in Nat /\ Timeout <= Ages
BY TimesAssumption DEF Ages, Never

LEMMA LaterTypes ==
    ASSUME NEW most \in Nat, NEW n \in 0..most
    PROVE  Later(n, most) \in 0..most /\ Later(n, most) <= n + 1
BY DEF Later

LEMMA InitTypes == Init => TypeOK
<1> SUFFICES ASSUME Init PROVE TypeOK
  OBVIOUS
<1>1. Idle \in Call
  BY Times DEF Idle, Call
<1>2. age \in 0..Never
  BY Times DEF Init
<1>3. QED BY <1>1, <1>2 DEF Init, TypeOK

\* An answer tells of the issuer as it is.
LEMMA ReturnsTypes ==
    ASSUME TypeOK, NEW c \in Callers, NEW kid \in Kids, NEW got \in BOOLEAN, NEW way \in Ways,
           Returns(c, kid, got, way), UNCHANGED <<issuer, keys, age>>
    PROVE  TypeOK'
<1>1. Idle \in Call
  BY Times DEF Idle, Call
<1>2. call' \in [Callers -> Call]
  BY <1>1 DEF Returns, TypeOK
<1>3. call[c].raced \in BOOLEAN
  BY DEF TypeOK, Call
<1>4. issuer[kid].listed \in BOOLEAN /\ issuer[kid].since \in 0..Ages
  BY DEF TypeOK, Issuer
<1>5. answer' \in Answers
  BY <1>3, <1>4 DEF Returns, Answers
<1>6. QED BY <1>2, <1>5 DEF TypeOK

\* Whoever has begun knows the key it wants, and whoever stores keys can use them.
Asked ==
    \A c \in Callers :
        /\ call[c].pc # "idle" => call[c].kid \in Kids
        /\ call[c].pc = "store" => call[c].body \subseteq Usable

LEMMA Looks ==
    ASSUME NEW r \in Call, NEW kid \in Kids, NEW ok \in BOOLEAN
    PROVE  [r EXCEPT !.pc = "cool", !.kid = kid, !.ok = ok] \in Call
BY DEF Call

LEMMA StepTypes ==
    ASSUME TypeOK, Asked, NEW c \in Callers,
           \/ \E kid \in Kids : Look(c, kid)
           \/ Cool(c) \/ Serve(c) \/ Receive(c) \/ FetchFails(c) \/ Store(c) \/ Again(c)
    PROVE  TypeOK'
<1>1. call[c] \in Call /\ call \in [Callers -> Call]
  BY DEF TypeOK
<1>2. ASSUME NEW kid \in Kids, Look(c, kid) PROVE TypeOK'
  <2>1. CASE kid \in keys /\ ~Stale
    BY <1>2, <2>1, ReturnsTypes DEF Look, Ways
  <2>2. CASE ~(kid \in keys /\ ~Stale)
    <3>1. [call[c] EXCEPT !.pc = "cool", !.kid = kid, !.ok = kid \in keys] \in Call
      <4>1. (kid \in keys) \in BOOLEAN
        OBVIOUS
      <4>2. QED BY <1>1, <4>1, Looks
    <3>2. call' \in [Callers -> Call]
      BY <1>1, <1>2, <2>2, <3>1 DEF Look
    <3>3. QED BY <1>2, <2>2, <3>2 DEF Look, TypeOK
  <2>3. QED BY <2>1, <2>2
<1>3. CASE Cool(c)
  <2>1. CASE CoolingDown
    <3>1. call[c].kid \in Kids /\ call[c].ok \in BOOLEAN
      BY <1>1, <1>3 DEF Cool, Asked, Call
    <3>2. QED BY <1>3, <2>1, <3>1, ReturnsTypes DEF Cool, Ways
  <2>2. CASE ~CoolingDown
    <3>1. [call[c] EXCEPT !.pc = "fetch"] \in Call
      BY <1>1 DEF Call
    <3>2. call' \in [Callers -> Call]
      BY <1>1, <1>3, <2>2, <3>1 DEF Cool
    <3>3. QED BY <1>3, <2>2, <3>2 DEF Cool, TypeOK
  <2>3. QED BY <2>1, <2>2
<1>4. CASE Serve(c)
  <2>1. [call[c] EXCEPT !.pc = "answered", !.body = {k \in Kids : issuer[k].listed}] \in Call
    BY <1>1 DEF Call
  <2>2. call' \in [Callers -> Call]
    BY <1>1, <1>4, <2>1 DEF Serve
  <2>3. QED BY <1>4, <2>2 DEF Serve, TypeOK
<1>5. CASE Receive(c)
  <2>1. [call[c] EXCEPT !.pc = "store", !.body = Signing(@)] \in Call
    BY <1>1 DEF Call, Signing
  <2>2. call' \in [Callers -> Call]
    BY <1>1, <1>5, <2>1 DEF Receive
  <2>3. QED BY <1>5, <2>2 DEF Receive, TypeOK
<1>6. CASE FetchFails(c)
  <2>1. call[c].kid \in Kids /\ call[c].ok \in BOOLEAN
    BY <1>1, <1>6 DEF FetchFails, Asked, Call
  <2>2. QED BY <1>6, <2>1, ReturnsTypes DEF FetchFails, Ways
<1>7. CASE Store(c)
  <2>1. \A q \in Callers : call'[q] \in Call
    <3>1. TAKE q \in Callers
    <3>2. call[q] \in Call
      BY DEF TypeOK
    <3>3. CASE q = c
      <4>1. [call[q] EXCEPT !.pc = "again", !.body = {}] \in Call
        BY <3>2 DEF Call
      <4>2. QED BY <1>7, <3>3, <4>1 DEF Store
    <3>4. CASE q # c
      <4>1. [call[q] EXCEPT !.raced = @ \/ call[q].pc = "cool"] \in Call
        BY <3>2 DEF Call
      <4>2. QED BY <1>7, <3>4, <4>1 DEF Store
    <3>5. QED BY <3>3, <3>4
  <2>2. call' \in [Callers -> Call]
    BY <1>7, <2>1 DEF Store
  <2>3. keys' \subseteq Usable
    BY <1>7 DEF Store, Replaces, Asked
  <2>4. issuer' = issuer /\ answer' = answer /\ age' = 0
    BY <1>7 DEF Store
  <2>5. 0 \in 0..Never
    BY Times
  <2>6. QED BY <2>2, <2>3, <2>4, <2>5 DEF TypeOK
<1>8. CASE Again(c)
  <2>1. call[c].kid \in Kids
    BY <1>8 DEF Again, Asked
  <2>2. (call[c].kid \in keys) \in BOOLEAN
    OBVIOUS
  <2>3. QED BY <1>8, <2>1, <2>2, ReturnsTypes DEF Again, Ways
<1>9. QED BY <1>2, <1>3, <1>4, <1>5, <1>6, <1>7, <1>8

LEMMA IsIdle == Idle.pc = "idle" /\ Idle.raced = FALSE
BY DEF Idle

LEMMA Returned ==
    ASSUME TypeOK, NEW c \in Callers, NEW kid, NEW got, NEW way, Returns(c, kid, got, way)
    PROVE  \A d \in Callers : call'[d] = IF d = c THEN Idle ELSE call[d]
BY DEF TypeOK, Returns

\* A request that does not find a fresh key.
LEMMA LooksAt ==
    ASSUME TypeOK, NEW c \in Callers, NEW kid \in Kids, Look(c, kid), ~(kid \in keys /\ ~Stale)
    PROVE  /\ call'[c].pc = "cool" /\ call'[c].kid = kid
           /\ call'[c].ok = (kid \in keys) /\ call'[c].raced = call[c].raced
           /\ call'[c].waited = call[c].waited
           /\ \A d \in Callers \ {c} : call'[d] = call[d]
           /\ UNCHANGED <<answer, issuer, keys, age>>
<1> DEFINE new == [call[c] EXCEPT !.pc = "cool", !.kid = kid, !.ok = kid \in keys]
<1>1. call[c] \in Call
  BY DEF TypeOK
<1>2. /\ new.pc = "cool" /\ new.kid = kid /\ new.ok = (kid \in keys)
      /\ new.raced = call[c].raced /\ new.waited = call[c].waited
  BY <1>1 DEF Call
<1>3. call' = [call EXCEPT ![c] = new] /\ UNCHANGED <<answer, issuer, keys, age>>
  BY DEF Look
<1> HIDE DEF new
<1>4. QED BY <1>2, <1>3 DEF TypeOK

LEMMA RotateTypes == ASSUME TypeOK, NEW kid \in Kids, Rotate(kid) PROVE TypeOK'
<1>1. [listed |-> ~issuer[kid].listed, since |-> 0] \in [listed : BOOLEAN, since : 0..Ages]
  BY Times DEF TypeOK, Issuer
<1>2. issuer' \in Issuer
  BY <1>1 DEF Rotate, TypeOK, Issuer
<1>3. QED BY <1>2 DEF Rotate, TypeOK

LEMMA TickTypes == ASSUME TypeOK, Tick PROVE TypeOK'
<1>1. \A k \in Kids : [issuer[k] EXCEPT !.since = Later(@, Ages)] \in [listed : BOOLEAN, since : 0..Ages]
  <2>1. TAKE k \in Kids
  <2>2. issuer[k] \in [listed : BOOLEAN, since : 0..Ages]
    BY DEF TypeOK, Issuer
  <2>3. Later(issuer[k].since, Ages) \in 0..Ages
    BY <2>2, Times, LaterTypes
  <2>4. QED BY <2>2, <2>3
<1>2. issuer' \in Issuer
  BY <1>1 DEF Tick, Issuer
<1>3. age' \in 0..Never
  BY Times, LaterTypes DEF Tick, TypeOK
<1>4. \A c \in Callers : call'[c] \in Call
  <2>1. TAKE c \in Callers
  <2>2. CASE Waits(c)
    <3>1. call[c].waited \in 0..Timeout /\ call[c].waited < Timeout
      BY <2>2 DEF Tick, Waits, TypeOK, Call
    <3>2. call[c].waited + 1 \in 0..Timeout
      BY <3>1, Times
    <3>3. [call[c] EXCEPT !.waited = @ + 1] \in Call
      BY <3>2 DEF TypeOK, Call
    <3>4. QED BY <2>2, <3>3 DEF Tick
  <2>3. CASE ~Waits(c)
    BY <2>3 DEF Tick, TypeOK
  <2>4. QED BY <2>2, <2>3
<1>5. call' \in [Callers -> Call]
  BY <1>4 DEF Tick
<1>6. QED BY <1>2, <1>3, <1>5 DEF Tick, TypeOK

LEMMA NextTypes == TypeOK /\ Asked /\ [Next]_vars => TypeOK'
<1> SUFFICES ASSUME TypeOK, Asked, [Next]_vars PROVE TypeOK'
  OBVIOUS
<1>1. CASE UNCHANGED vars
  BY <1>1 DEF vars, TypeOK
<1>2. QED
  BY <1>1, StepTypes, RotateTypes, TickTypes DEF Next

LEMMA NextAsked == TypeOK /\ Asked /\ [Next]_vars => Asked'
<1> SUFFICES ASSUME TypeOK, Asked, [Next]_vars PROVE Asked'
  OBVIOUS
<1> USE DEF Asked
<1>1. ASSUME NEW c \in Callers, NEW kid \in Kids, NEW got, NEW way, Returns(c, kid, got, way)
      PROVE  Asked'
  BY <1>1, IsIdle, Returned
<1>2. ASSUME NEW c \in Callers, NEW kid \in Kids, Look(c, kid) PROVE Asked'
  <2>1. CASE kid \in keys /\ ~Stale
    BY <1>1, <1>2, <2>1 DEF Look
  <2>2. CASE ~(kid \in keys /\ ~Stale)
    <3>1. /\ call'[c].pc = "cool" /\ call'[c].kid = kid
          /\ \A d \in Callers \ {c} : call'[d] = call[d]
      BY <1>2, <2>2, LooksAt
    <3>2. QED BY <3>1
  <2>3. QED BY <2>1, <2>2
<1>3. ASSUME NEW c \in Callers, Cool(c) \/ FetchFails(c) \/ Again(c) PROVE Asked'
  <2>0. call[c].pc # "idle" => call[c].kid \in Kids
    OBVIOUS
  <2>1. CASE Cool(c) /\ CoolingDown
    BY <1>1, <2>0, <2>1 DEF Cool
  <2>2. CASE Cool(c) /\ ~CoolingDown
    BY <2>2 DEF Cool, TypeOK, Call
  <2>3. CASE FetchFails(c)
    BY <1>1, <2>0, <2>3 DEF FetchFails
  <2>4. CASE Again(c)
    BY <1>1, <2>0, <2>4 DEF Again
  <2>5. QED BY <1>3, <2>1, <2>2, <2>3, <2>4
<1>4. ASSUME NEW c \in Callers, Serve(c) PROVE Asked'
  BY <1>4 DEF Serve, TypeOK, Call
<1>5. ASSUME NEW c \in Callers, Receive(c) PROVE Asked'
  BY <1>5 DEF Receive, Signing, Supported, TypeOK, Call
<1>6. ASSUME NEW c \in Callers, Store(c) PROVE Asked'
  BY <1>6 DEF Store, TypeOK, Call
<1>7. ASSUME NEW kid \in Kids, Rotate(kid) PROVE Asked'
  BY <1>7 DEF Rotate
<1>8. CASE Tick
  BY <1>8 DEF Tick, Waits, TypeOK, Call
<1>9. CASE UNCHANGED vars
  BY <1>9 DEF vars
<1>10. QED
  BY <1>2, <1>3, <1>4, <1>5, <1>6, <1>7, <1>8, <1>9 DEF Next

LEMMA TypesInvariant == Spec => [](TypeOK /\ Asked)
<1>1. Init => Asked
  BY IsIdle DEF Init, Asked
<1>2. QED BY <1>1, InitTypes, NextTypes, NextAsked, PTL DEF Spec

\* Every state is well typed, and the cache holds usable keys only (oidc.go refresh).
THEOREM CacheTypes == Spec => []TypeOK
BY TypesInvariant, PTL

-----------------------------------------------------------------------------
(* What is in the cache, and on its way there. *)

\* The issuer lists the key or not as said, or has changed that within t.
Agrees(k, in, t) == (issuer[k].listed <=> in) \/ issuer[k].since <= t

Bodies == \A c \in Callers, k \in Usable :
    call[c].pc \in {"answered", "store"} => Agrees(k, k \in call[c].body, call[c].waited)

Cached == \A k \in Usable : age <= Ttl => Agrees(k, k \in keys, age + Timeout)

\* What a request found at its first look still holds, unless it was raced.
LookedBy(c) == call[c].pc = "cool" /\ ~call[c].raced =>
    /\ call[c].ok <=> call[c].kid \in keys
    /\ call[c].ok => Stale

Looked == \A c \in Callers : LookedBy(c)

Fetched == \A c \in Callers : call[c].pc = "again" => age = 0

Good == TypeOK /\ Asked
Cache == Bodies /\ Cached /\ Looked /\ Fetched

LEMMA UsableKids == Usable \subseteq Kids
BY UsableAssumption

LEMMA WaitsBounded == ASSUME Good, NEW c \in Callers PROVE call[c].waited \in Nat
<1>1. call[c].waited \in 0..Timeout
  BY DEF Good, TypeOK, Call
<1>2. QED BY <1>1, Times

\* Requests that return or go on disturb nothing of it, unless they store.
LEMMA Undisturbed ==
    ASSUME Good, Cache, UNCHANGED <<issuer, keys, age>>,
           \A c \in Callers : call'[c] = call[c] \/ call'[c].pc \in {"idle", "fetch"}
    PROVE  Cache'
<1>1. Bodies'
  BY DEF Cache, Bodies, Agrees
<1>2. Cached'
  BY DEF Cache, Cached, Agrees
<1>3. Looked' /\ Fetched'
  BY DEF Cache, Looked, LookedBy, Fetched, Stale
<1>4. QED BY <1>1, <1>2, <1>3 DEF Cache

LEMMA ReturnsCache ==
    ASSUME Good, Cache, UNCHANGED <<issuer, keys, age>>,
           NEW c \in Callers, NEW kid, NEW got, NEW way, Returns(c, kid, got, way)
    PROVE  Cache'
<1>1. \A d \in Callers : call'[d] = call[d] \/ call'[d].pc = "idle"
  BY IsIdle, Returned DEF Good
<1>2. QED BY <1>1, Undisturbed

LEMMA LookCache ==
    ASSUME Good, Cache, NEW c \in Callers, NEW kid \in Kids, Look(c, kid)
    PROVE  Cache'
<1>1. CASE kid \in keys /\ ~Stale
  BY <1>1, ReturnsCache DEF Look
<1>2. CASE ~(kid \in keys /\ ~Stale)
  <2>1. /\ call'[c].pc = "cool" /\ call'[c].kid = kid
        /\ call'[c].ok = (kid \in keys)
        /\ \A d \in Callers \ {c} : call'[d] = call[d]
        /\ UNCHANGED <<answer, issuer, keys, age>>
    BY <1>2, LooksAt DEF Good
  <2>2. Bodies' /\ Cached' /\ Fetched'
    BY <2>1 DEF Cache, Bodies, Cached, Agrees, Fetched
  <2>3. LookedBy(c)'
    BY <1>2, <2>1 DEF LookedBy, Stale
  <2>4. \A d \in Callers \ {c} : LookedBy(d)'
    BY <2>1 DEF Cache, Looked, LookedBy, Stale
  <2>5. QED BY <2>2, <2>3, <2>4 DEF Cache, Looked
<1>3. QED BY <1>1, <1>2

LEMMA ServeCache ==
    ASSUME Good, Cache, NEW c \in Callers, Serve(c)
    PROVE  Cache'
<1>1. /\ call'[c].pc = "answered" /\ call'[c].body = {k \in Kids : issuer[k].listed}
      /\ \A d \in Callers \ {c} : call'[d] = call[d]
      /\ UNCHANGED <<answer, issuer, keys, age>>
  BY DEF Serve, Good, TypeOK, Call
<1>2. Bodies'
  BY <1>1, UsableKids DEF Cache, Bodies, Agrees
<1>3. Cached' /\ Looked' /\ Fetched'
  BY <1>1 DEF Cache, Cached, Agrees, Looked, LookedBy, Stale, Fetched
<1>4. QED BY <1>2, <1>3 DEF Cache

LEMMA ReceiveCache ==
    ASSUME Good, Cache, NEW c \in Callers, Receive(c)
    PROVE  Cache'
<1>1. /\ call[c].pc = "answered" /\ call'[c].pc = "store" /\ call'[c].body = Signing(call[c].body)
      /\ call'[c].waited = call[c].waited
      /\ \A d \in Callers \ {c} : call'[d] = call[d]
      /\ UNCHANGED <<answer, issuer, keys, age>>
  BY DEF Receive, Good, TypeOK, Call
<1>2. \A k \in Usable : k \in call'[c].body <=> k \in call[c].body
  BY <1>1 DEF Signing, Supported
<1>3. Bodies'
  BY <1>1, <1>2 DEF Cache, Bodies, Agrees
<1>4. Cached' /\ Looked' /\ Fetched'
  BY <1>1 DEF Cache, Cached, Agrees, Looked, LookedBy, Stale, Fetched
<1>5. QED BY <1>3, <1>4 DEF Cache

LEMMA StoreCache ==
    ASSUME Good, Cache, NEW c \in Callers, Store(c)
    PROVE  Cache'
<1>1. /\ call[c].pc = "store" /\ keys' = call[c].body /\ age' = 0
      /\ UNCHANGED <<issuer, answer>>
  BY DEF Store, Replaces
<1>2. call'[c].pc = "again"
  BY DEF Store, Good, TypeOK, Call
<1>3. \A d \in Callers \ {c} :
          /\ call'[d].pc = call[d].pc /\ call'[d].body = call[d].body
          /\ call'[d].waited = call[d].waited
          /\ call[d].pc = "cool" => call'[d].raced
  BY DEF Store, Good, TypeOK, Call
<1>4. Bodies'
  BY <1>1, <1>2, <1>3 DEF Cache, Bodies, Agrees
<1>5. Cached'
  <2>1. SUFFICES ASSUME NEW k \in Usable PROVE Agrees(k, k \in keys, age + Timeout)'
    BY DEF Cached
  <2>2. Agrees(k, k \in call[c].body, call[c].waited)
    BY <1>1 DEF Cache, Bodies
  <2>3. call[c].waited \in 0..Timeout /\ issuer[k].since \in 0..Ages
    BY UsableKids DEF Good, TypeOK, Call, Issuer
  <2>4. issuer[k].since <= call[c].waited => issuer[k].since <= 0 + Timeout
    BY <2>3, Times
  <2>5. QED BY <1>1, <2>2, <2>4 DEF Agrees
<1>6. Looked' /\ Fetched'
  BY <1>1, <1>2, <1>3 DEF Looked, LookedBy, Fetched
<1>7. QED BY <1>4, <1>5, <1>6 DEF Cache

LEMMA RotateCache ==
    ASSUME Good, Cache, NEW kid \in Kids, Rotate(kid)
    PROVE  Cache'
<1>1. UNCHANGED <<keys, age, call>>
  BY DEF Rotate
<1>2. ASSUME NEW k \in Usable, NEW in, NEW t \in Nat, Agrees(k, in, t)
      PROVE  (issuer'[k].listed <=> in) \/ issuer'[k].since <= t
  <2>1. k \in Kids
    BY UsableKids
  <2>2. CASE k = kid
    BY <2>1, <2>2, <1>2 DEF Rotate, Good, TypeOK, Issuer
  <2>3. CASE k # kid
    BY <2>1, <2>3, <1>2 DEF Rotate, Good, TypeOK, Issuer, Agrees
  <2>4. QED BY <2>2, <2>3
<1>3. Bodies'
  <2>1. \A c \in Callers : call[c].waited \in Nat
    BY WaitsBounded
  <2>2. QED BY <1>1, <1>2, <2>1 DEF Cache, Bodies, Agrees
<1>4. Cached'
  <2>1. age + Timeout \in Nat
    BY Times DEF Good, TypeOK
  <2>2. QED BY <1>1, <1>2, <2>1 DEF Cache, Cached, Agrees
<1>5. Looked' /\ Fetched'
  BY <1>1 DEF Cache, Looked, LookedBy, Stale, Fetched
<1>6. QED BY <1>3, <1>4, <1>5 DEF Cache

LEMMA TickCache ==
    ASSUME Good, Cache, Tick
    PROVE  Cache'
<1>1. keys' = keys /\ age' = Later(age, Never) /\ age \in 0..Never
  BY DEF Tick, Good, TypeOK
<1>2. ASSUME NEW k \in Usable, NEW in, NEW t \in Nat, Agrees(k, in, t)
      PROVE  (issuer'[k].listed <=> in) \/ issuer'[k].since <= t + 1
  <2>1. k \in Kids /\ issuer[k].since \in 0..Ages
    BY UsableKids DEF Good, TypeOK, Issuer
  <2>2. issuer'[k].listed = issuer[k].listed /\ issuer'[k].since = Later(issuer[k].since, Ages)
    BY <2>1 DEF Tick, Good, TypeOK, Issuer
  <2>3. Later(issuer[k].since, Ages) <= issuer[k].since + 1 /\ Later(issuer[k].since, Ages) \in 0..Ages
    BY <2>1, Times, LaterTypes
  <2>4. QED BY <1>2, <2>1, <2>2, <2>3, Times DEF Agrees
<1>3. \A c \in Callers :
          \/ call[c].pc = "idle" /\ call'[c] = call[c]
          \/ /\ call[c].pc \in {"fetch", "answered"} /\ call'[c].pc = call[c].pc
             /\ call'[c].body = call[c].body /\ call'[c].waited = call[c].waited + 1
  BY DEF Tick, Waits, Good, TypeOK, Call
<1>4. Bodies'
  <2>1. \A c \in Callers : call[c].waited \in Nat
    BY WaitsBounded
  <2>2. QED BY <1>2, <1>3, <2>1 DEF Cache, Bodies, Agrees
<1>5. Cached'
  <2>1. SUFFICES ASSUME NEW k \in Usable, age' <= Ttl
                 PROVE  (issuer'[k].listed <=> k \in keys) \/ issuer'[k].since <= age' + Timeout
    BY <1>1 DEF Cached, Agrees
  <2>2. age' = age + 1 /\ age <= Ttl
    BY <1>1, <2>1, Times DEF Later, Never
  <2>3. Agrees(k, k \in keys, age + Timeout) /\ age + Timeout \in Nat
    BY <1>1, <2>2, Times DEF Cache, Cached
  <2>4. (issuer'[k].listed <=> k \in keys) \/ issuer'[k].since <= (age + Timeout) + 1
    BY <1>2, <2>3
  <2>5. (age + Timeout) + 1 = age' + Timeout
    BY <1>1, <2>2, Times
  <2>6. QED BY <2>4, <2>5
<1>6. Looked' /\ Fetched'
  BY <1>3 DEF Looked, LookedBy, Fetched
<1>7. QED BY <1>4, <1>5, <1>6 DEF Cache

LEMMA NextCache ==
    ASSUME Good, Cache, [Next]_vars
    PROVE  Cache'
<1>1. ASSUME NEW c \in Callers, Cool(c) PROVE Cache'
  <2>1. CASE CoolingDown
    BY <1>1, <2>1, ReturnsCache DEF Cool
  <2>2. CASE ~CoolingDown
    <3>1. \A d \in Callers : call'[d] = call[d] \/ call'[d].pc = "fetch"
      BY <1>1, <2>2 DEF Cool, Good, TypeOK, Call
    <3>2. QED BY <1>1, <2>2, <3>1, Undisturbed DEF Cool
  <2>3. QED BY <2>1, <2>2
<1>2. ASSUME NEW c \in Callers, FetchFails(c) \/ Again(c) PROVE Cache'
  BY <1>2, ReturnsCache DEF FetchFails, Again
<1>3. CASE UNCHANGED vars
  BY <1>3, Undisturbed DEF vars
<1>4. QED
  BY <1>1, <1>2, <1>3, LookCache, ServeCache, ReceiveCache, StoreCache, RotateCache, TickCache
  DEF Next

-----------------------------------------------------------------------------
(* What getKey returns. *)

\* The two properties, of one answer that tells of the issuer as it is.
Right(kid, got, way, raced) ==
    way # "failed" /\ ~raced =>
        /\ got => \/ issuer[kid].listed
                  \/ issuer[kid].since <= Timeout
                  \/ way = "cached" /\ issuer[kid].since <= Ttl + Timeout
        /\ kid \in Usable /\ ~got => ~issuer[kid].listed \/ issuer[kid].since < Cooldown + Timeout

Told == HandsOutListed /\ FindsListed

LEMMA AnswerRight ==
    ASSUME NEW c \in Callers, NEW kid, NEW got \in BOOLEAN, NEW way,
           Returns(c, kid, got, way), Right(kid, got, way, call[c].raced)
    PROVE  Told'
<1>1. /\ answer'.kid = kid /\ answer'.got = got /\ answer'.way = way
      /\ answer'.raced = call[c].raced /\ answer'.listed = issuer[kid].listed
      /\ answer'.since = issuer[kid].since
  BY DEF Returns
<1>2. QED BY <1>1 DEF Right, Told, HandsOutListed, FindsListed

LEMMA Since == ASSUME Good, NEW k \in Kids
               PROVE  issuer[k].since \in Nat /\ issuer[k].listed \in BOOLEAN
<1>1. issuer[k].since \in 0..Ages /\ issuer[k].listed \in BOOLEAN
  BY DEF Good, TypeOK, Issuer
<1>2. QED BY <1>1, Times

\* A key that is in a cache that is not stale.
LEMMA CachedRight ==
    ASSUME Good, Cache, NEW kid \in keys, ~Stale
    PROVE  Right(kid, TRUE, "cached", FALSE)
<1>1. kid \in Usable /\ kid \in Kids /\ age \in 0..Never /\ age <= Ttl
  BY UsableKids, Times DEF Good, TypeOK, Stale
<1>2. Agrees(kid, kid \in keys, age + Timeout)
  BY <1>1 DEF Cache, Cached
<1>3. issuer[kid].since \in Nat
  BY <1>1, Since
<1>4. issuer[kid].listed \/ issuer[kid].since <= Ttl + Timeout
  BY <1>1, <1>2, <1>3, Times DEF Agrees
<1>5. QED BY <1>4 DEF Right

LEMMA CoolRight ==
    ASSUME Good, Cache, NEW c \in Callers, call[c].pc = "cool", CoolingDown
    PROVE  Right(call[c].kid, call[c].ok, "cooling", call[c].raced)
<1> SUFFICES ASSUME ~call[c].raced
             PROVE  Right(call[c].kid, call[c].ok, "cooling", call[c].raced)
  BY DEF Right
<1>1. (call[c].ok <=> call[c].kid \in keys) /\ (call[c].ok => Stale)
  BY DEF Cache, Looked, LookedBy
<1>2. age \in 0..Never /\ age < Cooldown /\ age <= Ttl
  BY TimesAssumption, Times DEF Good, TypeOK, CoolingDown
<1>3. ~call[c].ok /\ call[c].kid \notin keys
  BY <1>1, <1>2, Times DEF Stale
<1>4. ASSUME call[c].kid \in Usable
      PROVE  ~issuer[call[c].kid].listed \/ issuer[call[c].kid].since < Cooldown + Timeout
  <2>1. Agrees(call[c].kid, call[c].kid \in keys, age + Timeout)
    BY <1>2, <1>4 DEF Cache, Cached
  <2>2. issuer[call[c].kid].since \in Nat
    BY <1>4, UsableKids, Since
  <2>3. QED BY <1>2, <1>3, <2>1, <2>2, Times DEF Agrees
<1>5. QED BY <1>3, <1>4 DEF Right

LEMMA AgainRight ==
    ASSUME Good, Cache, NEW c \in Callers, call[c].pc = "again"
    PROVE  Right(call[c].kid, call[c].kid \in keys, "fetched", call[c].raced)
<1> DEFINE k == call[c].kid
<1>1. age = 0 /\ k \in Kids
  BY DEF Cache, Fetched, Good, Asked
<1>2. k \in keys => k \in Usable
  BY DEF Good, TypeOK
<1>3. k \in Usable => Agrees(k, k \in keys, 0 + Timeout)
  BY <1>1, Times DEF Cache, Cached
<1>4. issuer[k].since \in Nat
  BY <1>1, Since
<1> HIDE DEF k
<1>5. k \in Usable => (issuer[k].listed <=> k \in keys) \/ issuer[k].since <= Timeout
  BY <1>3, <1>4, Times DEF Agrees
<1>6. issuer[k].since <= Timeout => issuer[k].since < Cooldown + Timeout
  BY <1>4, Times, TimesAssumption
<1>7. QED BY <1>2, <1>5, <1>6 DEF Right, k

LEMMA NextTold ==
    ASSUME Good, Cache, Told, [Next]_vars
    PROVE  Told'
<1>1. ASSUME UNCHANGED answer PROVE Told'
  BY <1>1 DEF Told, HandsOutListed, FindsListed
<1>2. ASSUME answer' = << >> PROVE Told'
  BY <1>2 DEF Told, HandsOutListed, FindsListed
<1>3. ASSUME NEW c \in Callers, NEW kid \in Kids, Look(c, kid) PROVE Told'
  <2>1. CASE kid \in keys /\ ~Stale
    <3>1. Right(kid, TRUE, "cached", FALSE) /\ Returns(c, kid, TRUE, "cached")
      BY <1>3, <2>1, CachedRight DEF Look
    <3>2. Right(kid, TRUE, "cached", call[c].raced)
      BY <3>1 DEF Right
    <3>3. QED BY <3>1, <3>2, AnswerRight
  <2>2. CASE ~(kid \in keys /\ ~Stale)
    BY <1>1, <1>3, <2>2 DEF Look
  <2>3. QED BY <2>1, <2>2
<1>4. ASSUME NEW c \in Callers, Cool(c) PROVE Told'
  <2>1. CASE CoolingDown
    <3>1. Returns(c, call[c].kid, call[c].ok, "cooling") /\ call[c].pc = "cool"
      BY <1>4, <2>1 DEF Cool
    <3>2. call[c].ok \in BOOLEAN
      BY DEF Good, TypeOK, Call
    <3>3. QED BY <2>1, <3>1, <3>2, CoolRight, AnswerRight
  <2>2. CASE ~CoolingDown
    BY <1>1, <1>4, <2>2 DEF Cool
  <2>3. QED BY <2>1, <2>2
<1>5. ASSUME NEW c \in Callers, FetchFails(c) PROVE Told'
  <2>1. Returns(c, call[c].kid, call[c].ok, "failed")
    BY <1>5 DEF FetchFails
  <2>2. Right(call[c].kid, call[c].ok, "failed", call[c].raced) /\ call[c].ok \in BOOLEAN
    BY DEF Right, Good, TypeOK, Call
  <2>3. QED BY <2>1, <2>2, AnswerRight
<1>6. ASSUME NEW c \in Callers, Again(c) PROVE Told'
  <2>1. Returns(c, call[c].kid, call[c].kid \in keys, "fetched") /\ call[c].pc = "again"
    BY <1>6 DEF Again
  <2>2. (call[c].kid \in keys) \in BOOLEAN
    OBVIOUS
  <2>3. QED BY <2>1, <2>2, AgainRight, AnswerRight
<1>7. ASSUME NEW c \in Callers, Serve(c) \/ Receive(c) \/ Store(c) PROVE Told'
  BY <1>1, <1>7 DEF Serve, Receive, Store
<1>8. CASE Tick \/ \E kid \in Kids : Rotate(kid)
  BY <1>2, <1>8 DEF Tick, Rotate
<1>9. CASE UNCHANGED vars
  BY <1>1, <1>9 DEF vars
<1>10. QED BY <1>3, <1>4, <1>5, <1>6, <1>7, <1>8, <1>9 DEF Next

LEMMA ToldInvariant == Spec => []Told
<1>1. Init => Cache /\ Told
  <2> SUFFICES ASSUME Init PROVE Cache /\ Told
    OBVIOUS
  <2>1. \A c \in Callers : call[c].pc = "idle"
    BY IsIdle DEF Init
  <2>2. ~(age <= Ttl)
    BY Times DEF Init, Never
  <2>3. Cache
    BY <2>1, <2>2 DEF Cache, Bodies, Cached, Looked, LookedBy, Fetched
  <2>4. Told
    BY DEF Init, Told, HandsOutListed, FindsListed
  <2>5. QED BY <2>3, <2>4
<1>2. Good /\ Cache /\ Told /\ [Next]_vars => Cache' /\ Told'
  BY NextCache, NextTold
<1>3. QED
  BY <1>1, <1>2, TypesInvariant, PTL DEF Spec, Good

\* A key that getKey hands out was listed within the Ttl and the time of one fetch,
\* and within that of a fetch alone if it has fetched, unless its own fetch failed or
\* another request's came between its two looks (oidc.go getKey, refresh).
THEOREM ListedHandedOut == Spec => []HandsOutListed
<1>1. Told => HandsOutListed
  BY DEF Told
<1>2. QED BY <1>1, ToldInvariant, PTL

\* A usable key that the issuer has listed for the Cooldown and a fetch is not
\* refused, in the same two cases excepted (oidc.go getKey, refresh).
THEOREM ListedFound == Spec => []FindsListed
<1>1. Told => FindsListed
  BY DEF Told
<1>2. QED BY <1>1, ToldInvariant, PTL
=============================================================================
