----------------------------- MODULE AccessProofs -----------------------------
(***************************************************************************)
(* Proofs about Access, for any policy files, configurations and clients.  *)
(***************************************************************************)
EXTENDS Access, FiniteSetTheorems, TLAPS

(* The ids loadPolicies gives. *)

LEMMA PoliciesFinite ==
    ASSUME NEW files, NEW s \in SUBSET Policies(files)
    PROVE  IsFiniteSet(s) /\ Cardinality(s) \in Nat
<1>1. IsFiniteSet(1..Files)
  <2>1. 1 \in Int /\ Files \in Int
    BY BoundsAssumption
  <2>2. QED BY <2>1, FS_Interval
<1>2. IsFiniteSet((1..Files) \X (1..MaxPolicies))
  <2>1. 1 \in Int /\ MaxPolicies \in Int
    BY BoundsAssumption
  <2>2. IsFiniteSet(1..MaxPolicies)
    BY <2>1, FS_Interval
  <2>3. QED BY <1>1, <2>2, FS_Product
<1>3. s \subseteq (1..Files) \X (1..MaxPolicies)
  BY DEF Policies
<1>4. IsFiniteSet(s)
  BY <1>2, <1>3, FS_Subset
<1>5. QED BY <1>4, FS_CardinalityType

\* Of two policies of one file the later has the greater number.
LEMMA CountGrows ==
    ASSUME NEW files, NEW p \in Policies(files), NEW q \in Policies(files), Earlier(p, q)
    PROVE  PolicyId(files, p)[2] < PolicyId(files, q)[2]
<1> DEFINE Before(x) == {y \in Policies(files) : Earlier(y, x)}
<1>1. /\ IsFiniteSet(Before(p)) /\ Cardinality(Before(p)) \in Nat
      /\ IsFiniteSet(Before(q)) /\ Cardinality(Before(q)) \in Nat
  BY PoliciesFinite
<1>2. ASSUME NEW x \in Policies(files) PROVE x[1] \in Int /\ x[2] \in Int
  BY BoundsAssumption DEF Policies
<1>3. Before(p) \subseteq Before(q)
  <2> SUFFICES ASSUME NEW x \in Policies(files), Earlier(x, p) PROVE Earlier(x, q)
    OBVIOUS
  <2>1. QED BY <1>2 DEF Earlier
<1>4. p \in Before(q) /\ p \notin Before(p)
  BY <1>2 DEF Earlier
<1>5. Cardinality(Before(p)) <= Cardinality(Before(q)) /\ Cardinality(Before(p)) # Cardinality(Before(q))
  BY <1>1, <1>3, <1>4, FS_Subset
<1>6. Cardinality(Before(p)) < Cardinality(Before(q))
  BY <1>1, <1>5
<1>7. QED BY <1>6 DEF PolicyId

LEMMA PolicyIdsDistinct ==
    ASSUME NEW files, NEW p \in Policies(files), NEW q \in Policies(files),
           PolicyId(files, p) = PolicyId(files, q)
    PROVE  p = q
<1>1. p \in (1..Files) \X (1..MaxPolicies) /\ q \in (1..Files) \X (1..MaxPolicies)
  BY DEF Policies
<1>2. /\ PolicyId(files, p)[2] \in Nat /\ PolicyId(files, q)[2] \in Nat
  <2>1. ASSUME NEW x \in Policies(files) PROVE PolicyId(files, x)[2] \in Nat
    <3>1. Cardinality({y \in Policies(files) : Earlier(y, x)}) \in Nat
      BY PoliciesFinite
    <3>2. QED BY <3>1 DEF PolicyId
  <2>2. QED BY <2>1
<1>3. ~Earlier(p, q) /\ ~Earlier(q, p)
  BY <1>2, CountGrows
<1>4. p[1] = q[1] /\ p[2] = q[2]
  BY <1>1, <1>3, BoundsAssumption DEF Earlier
<1>5. QED BY <1>1, <1>4

\* The policy set holds every policy of the files, and nothing else.
LEMMA AllLoaded ==
    ASSUME NEW files
    PROVE  LET set == LoadPolicies(files)
           IN  {set[i] : i \in DOMAIN set} = {PolicyAt(files, p) : p \in Policies(files)}
<1> DEFINE Ids == {PolicyId(files, p) : p \in Policies(files)}
           IsLast(p, i) == /\ PolicyId(files, p) = i
                           /\ \A q \in Policies(files) : PolicyId(files, q) = i => ~Earlier(p, q)
           Last(i) == CHOOSE p \in Policies(files) : IsLast(p, i)
<1>1. LoadPolicies(files) = [i \in Ids |-> PolicyAt(files, Last(i))]
  BY DEF LoadPolicies
<1>2. ASSUME NEW p \in Policies(files) PROVE Last(PolicyId(files, p)) = p
  <2>1. ~Earlier(p, p)
    BY BoundsAssumption DEF Earlier, Policies
  <2>2. IsLast(p, PolicyId(files, p))
    BY <2>1, PolicyIdsDistinct
  <2>3. Last(PolicyId(files, p)) \in Policies(files) /\ IsLast(Last(PolicyId(files, p)), PolicyId(files, p))
    BY <2>2
  <2>4. QED BY <2>3, PolicyIdsDistinct
<1> HIDE DEF Last
<1>3. DOMAIN LoadPolicies(files) = Ids
  BY <1>1
<1>4. ASSUME NEW p \in Policies(files)
      PROVE  LoadPolicies(files)[PolicyId(files, p)] = PolicyAt(files, p)
  BY <1>1, <1>2
<1>5. QED BY <1>3, <1>4

-----------------------------------------------------------------------------
(* Type correctness. *)

LEMMA NothingStarted == ASSUME NEW f \in DOMAIN << >> PROVE FALSE
OBVIOUS

LEMMA InitTypes == Init => TypeOK
<1> SUFFICES ASSUME Init PROVE TypeOK
  OBVIOUS
<1>1. 0 \in 0..MaxTime /\ 0 \in 0..MaxEdits
  BY BoundsAssumption
<1>2. cfg \in Configs \cup {NoCfg} /\ cfg.plugins \subseteq Known /\ cfg = NoCfg
  BY DEF Init, NoCfg
<1>3. \A f \in DOMAIN started : started[f] # Broken
  BY NothingStarted DEF Init
<1>4. QED BY <1>1, <1>2, <1>3 DEF Init, TypeOK

\* What a start does with the configuration.
LEMMA StartTypes ==
    ASSUME TypeOK, NEW c \in Configs, Start(c)
    PROVE  TypeOK'
<1>1. c # NoCfg /\ c.plugins \subseteq Known
  BY DEF Start, Creatable, AuthenticatorKnown, PluginsKnown, NoCfg
<1>2. \A f \in DOMAIN started' : started'[f] # Broken
  <2>1. CASE c.authz = "cedar"
    <3>1. started' = disk /\ \A f \in 1..Files : disk[f] # Broken
      BY <2>1 DEF Start, Creatable, AuthorizerMade
    <3>2. QED BY <3>1 DEF TypeOK
  <2>2. CASE c.authz # "cedar"
    <3>1. started' = << >>
      BY <2>2 DEF Start
    <3>2. QED BY <3>1
  <2>3. QED BY <2>1, <2>2
<1>3. QED BY <1>1, <1>2 DEF Start, TypeOK

LEMMA NextTypes == TypeOK /\ [Next]_vars => TypeOK'
<1> SUFFICES ASSUME TypeOK, [Next]_vars PROVE TypeOK'
  OBVIOUS
<1>1. ASSUME NEW c \in Calls, NEW cred \in Creds, Call(c, cred) PROVE TypeOK'
  BY <1>1 DEF Call, TypeOK, settings
<1>2. CASE Return
  BY <1>2 DEF Return, TypeOK, settings
<1>3. CASE Panic
  BY <1>3, NothingStarted DEF Panic, TypeOK, NoCfg
<1>4. ASSUME NEW c \in Configs, Start(c) PROVE TypeOK'
  BY <1>4, StartTypes
<1>5. ASSUME NEW c \in Configs, StartFails(c) PROVE TypeOK'
  BY <1>5 DEF StartFails, TypeOK, settings
<1>6. CASE Stop
  BY <1>6, NothingStarted DEF Stop, TypeOK, NoCfg
<1>7. ASSUME NEW f \in 1..Files, NEW content \in Texts \cup {Absent, Broken}, Edit(f, content)
      PROVE  TypeOK'
  BY <1>7, BoundsAssumption DEF Edit, TypeOK, settings
<1>8. CASE Tick
  BY <1>8, BoundsAssumption DEF Tick, TypeOK, settings
<1>9. CASE UNCHANGED vars
  BY <1>9 DEF TypeOK, vars, settings
<1>10. QED
  BY <1>1, <1>2, <1>3, <1>4, <1>5, <1>6, <1>7, <1>8, <1>9 DEF Next

\* Every state is well typed, and an agent runs only with plugins it knows and from
\* policy files that can be read (main.go loadPlugins, cedar.go).
THEOREM AccessTypes == Spec => []TypeOK
BY InitTypes, NextTypes, PTL DEF Spec

-----------------------------------------------------------------------------
(* What a call acts on is permitted by the files. *)

\* The policy set is that of the files the agent was started with.
Followed == run = "up" /\ cfg.authz = "cedar" => loaded = LoadPolicies(started)

\* A function that has done its work was authorized for the thing it acted on.
Faithful ==
    /\ call # NoCall => run = "up"
    /\ Followed
    /\ ActsAsPermitted

LEMMA AskedAboutTarget ==
    ASSUME NEW c \in Calls, Perform(c) = "done"
    PROVE  Resource(c) = Target(c) /\ c.rpc # "UnknownServiceAction"
<1>1. c.rpc # "UnknownServiceAction" /\ ~BadArgument(c)
  BY DEF Perform
<1>2. QED BY <1>1 DEF Resource, Target, BadArgument, ServiceRpcs

LEMMA CallFaithful ==
    ASSUME Faithful, NEW c \in Calls, NEW cred \in Creds, Call(c, cred)
    PROVE  ActsAsPermitted'
<1> DEFINE id == Authenticate(cred)
<1>1. /\ run = "up" /\ UNCHANGED <<cfg, loaded, started>>
      /\ call' = [rpc |-> c.rpc, arg |-> c.arg, id |-> id, cred |-> cred,
                  outcome |-> Outcome(c, cred)]
  BY DEF Call, settings
<1>2. Target(call') = Target(c)
  BY <1>1 DEF Target
<1> SUFFICES ASSUME Outcome(c, cred) = "done", cfg.authz = "cedar"
             PROVE  PermittedByFiles(id, c.rpc, Target(c))
  <2> USE DEF ActsAsPermitted, Acted, PermittedByFiles
  <2> HIDE DEF id
  <2>1. Policies(started)' = Policies(started)
    BY <1>1 DEF Policies
  <2>2. QED BY <1>1, <1>2, <2>1 DEF PolicyAt
<1>3. c.rpc # "BootstrapAuth" /\ Perform(c) = "done"
      /\ (c.rpc = "UnknownServiceAction" \/ Authorize(id, c.rpc, Resource(c)))
  BY DEF Outcome
<1>4. Authorize(id, c.rpc, Target(c))
  BY <1>3, AskedAboutTarget
<1>5. Decision({loaded[i] : i \in DOMAIN loaded}, id, c.rpc, Target(c))
  BY <1>4 DEF Authorize
<1>6. {loaded[i] : i \in DOMAIN loaded} = {PolicyAt(started, p) : p \in Policies(started)}
  <2>1. loaded = LoadPolicies(started)
    BY <1>1 DEF Faithful, Followed
  <2>2. {LoadPolicies(started)[i] : i \in DOMAIN LoadPolicies(started)}
            = {PolicyAt(started, p) : p \in Policies(started)}
    BY AllLoaded
  <2>3. QED BY <2>1, <2>2
<1>7. QED
  BY <1>1, <1>5, <1>6 DEF PermittedByFiles

LEMMA InitFaithful == Init => Faithful
BY DEF Init, Faithful, Followed, ActsAsPermitted, Acted

LEMMA NextFaithful == Faithful /\ [Next]_vars => Faithful'
<1> SUFFICES ASSUME Faithful, [Next]_vars PROVE Faithful'
  OBVIOUS
<1> USE DEF Faithful, Followed
<1>1. ASSUME NEW c \in Calls, NEW cred \in Creds, Call(c, cred) PROVE Faithful'
  <2>1. ActsAsPermitted'
    BY <1>1, CallFaithful
  <2>2. QED BY <1>1, <2>1 DEF Call, settings
<1> DEFINE Idle == ActsAsPermitted'
<1>2. call' = NoCall => Idle
  BY DEF ActsAsPermitted, Acted
<1>3. call = NoCall /\ call' = call => Idle
  BY <1>2
<1> HIDE DEF Idle
<1>4. CASE Return
  BY <1>4, <1>2 DEF Return, settings, Idle
<1>5. CASE Panic
  BY <1>5, <1>2 DEF Panic, Idle
<1>6. ASSUME NEW c \in Configs, Start(c) PROVE Faithful'
  BY <1>6, <1>3 DEF Start, Idle
<1>7. ASSUME NEW c \in Configs, StartFails(c) PROVE Faithful'
  BY <1>7, <1>3 DEF StartFails, settings, Idle
<1>8. CASE Stop
  BY <1>8, <1>3 DEF Stop, Idle
<1>9. ASSUME UNCHANGED <<run, settings, call>> PROVE Faithful'
  <2>1. ActsAsPermitted'
    BY <1>9 DEF ActsAsPermitted, Acted, PermittedByFiles, settings, Policies, PolicyAt
  <2>2. QED BY <1>9, <2>1 DEF settings
<1>10. ASSUME NEW f \in 1..Files, NEW content \in Texts \cup {Absent, Broken}, Edit(f, content)
       PROVE  Faithful'
  BY <1>10, <1>9 DEF Edit
<1>11. CASE Tick
  BY <1>11, <1>9 DEF Tick
<1>12. CASE UNCHANGED vars
  BY <1>12, <1>9 DEF vars
<1>13. QED
  BY <1>1, <1>4, <1>5, <1>6, <1>7, <1>8, <1>10, <1>11, <1>12 DEF Next

\* With cedar, whatever a call acts on is permitted by all the policies of the files
\* as they were at the start (cedar.go loadPolicies, machine.go NewMachineServer).
THEOREM PermittedActs == Spec => []ActsAsPermitted
<1>1. Faithful => ActsAsPermitted
  BY DEF Faithful
<1>2. QED BY <1>1, InitFaithful, NextFaithful, PTL DEF Spec

-----------------------------------------------------------------------------
(* The other two properties. *)

LEMMA CallSurvives ==
    ASSUME NEW c \in Calls, NEW cred \in Creds, Call(c, cred)
    PROVE  ChangersSurvive'
<1>1. call'.rpc = c.rpc /\ call'.outcome = Outcome(c, cred)
  BY DEF Call
<1>2. SUFFICES ASSUME Perform(c) = "panic" PROVE c.rpc \notin Changing
  BY <1>1 DEF ChangersSurvive, Outcome
<1>3. c.rpc \in Changing => Uses(c) \subseteq Guarded(c)
  BY DEF Changing, ServiceRpcs, LifecycleRpcs, ConfigRpcs, Uses, Guarded
<1>4. Missing(Guarded(c)) = {} /\ Missing(Uses(c)) # {}
  BY <1>2 DEF Perform
<1>5. Uses(c) \subseteq Guarded(c) => Missing(Uses(c)) \subseteq Missing(Guarded(c))
  BY DEF Missing
<1>6. QED BY <1>3, <1>4, <1>5

\* A call that changes the node never ends the agent: each asks for what it is
\* about to use (machine.go).
THEOREM ChangersNeverPanic == Spec => []ChangersSurvive
<1>1. Init => ChangersSurvive
  BY DEF Init, ChangersSurvive
<1>2. ChangersSurvive /\ [Next]_vars => ChangersSurvive'
  <2> SUFFICES ASSUME ChangersSurvive, [Next]_vars PROVE ChangersSurvive'
    OBVIOUS
  <2>1. ASSUME NEW c \in Calls, NEW cred \in Creds, Call(c, cred) PROVE ChangersSurvive'
    BY <2>1, CallSurvives
  <2>2. CASE Return \/ Panic
    BY <2>2 DEF Return, Panic, ChangersSurvive
  <2>3. ASSUME call' = call PROVE ChangersSurvive'
    BY <2>3 DEF ChangersSurvive
  <2>4. QED
    BY <2>1, <2>2, <2>3 DEF Next, Start, StartFails, Stop, Edit, Tick, vars
<1>3. QED BY <1>1, <1>2, PTL DEF Spec

\* A token that verifies was signed by a key of the issuer and is not past its time.
LEMMA TokenVouches ==
    ASSUME NEW cred \in Creds, cred.bearer = "jwt", now \in Nat, VerifyToken(cred.jwt, now)
    PROVE  LET j == cred.jwt
           IN  j.signer \in DOMAIN Keys /\ j.exp \in Nat /\ now <= j.exp
<1>1. cred.jwt.exp \in Int
  BY TimesAssumption
<1>2. SignatureGood(cred.jwt) /\ Timely(cred.jwt, now)
  BY DEF VerifyToken
<1>3. cred.jwt.signer \in DOMAIN Keys
  BY <1>2 DEF SignatureGood
<1>4. now <= cred.jwt.exp
  BY <1>1, <1>2 DEF Timely
<1>5. cred.jwt.exp \in Nat
  BY <1>1, <1>4
<1>6. QED BY <1>3, <1>4, <1>5

LEMMA CallIdentified ==
    ASSUME TypeOK, NEW c \in Calls, NEW cred \in Creds, Call(c, cred),
           call'.outcome \notin {"refused", "unauthenticated"}
    PROVE  /\ active \/ call'.cred.cert # NoId
           /\ \/ Vouched(call'.id, call'.cred, now)
              \/ active /\ call'.rpc = "BootstrapAuth"
<1> DEFINE id == Authenticate(cred)
<1>1. /\ call'.rpc = c.rpc /\ call'.id = id /\ call'.cred = cred
      /\ call'.outcome = Outcome(c, cred)
  BY DEF Call
<1>2. Connects(cred) /\ (Skipped(c) \/ id # NoId)
  <2>1. ~Connects(cred) => Outcome(c, cred) = "refused"
    BY DEF Outcome
  <2>2. Connects(cred) /\ ~Skipped(c) /\ id = NoId => Outcome(c, cred) = "unauthenticated"
    BY DEF Outcome
  <2>3. QED BY <1>1, <2>1, <2>2
<1>3. ASSUME id # NoId PROVE Vouched(id, cred, now)
  <2>1. CASE cfg.auth = "mtls"
    BY <1>3, <2>1 DEF Authenticate, MtlsIdentity, Vouched
  <2>2. CASE cfg.auth = "token"
    BY <1>3, <2>2 DEF Authenticate, TokenIdentity, Vouched
  <2>3. CASE cfg.auth \notin {"mtls", "token"}
    <3>1. cred.bearer = "jwt" /\ VerifyToken(cred.jwt, now) /\ id = cred.jwt.id
      BY <1>3, <2>3 DEF Authenticate, OidcIdentity
    <3>2. now \in Nat
      BY BoundsAssumption DEF TypeOK
    <3>3. QED
      BY <1>3, <2>3, <3>1, <3>2, TokenVouches DEF Vouched
  <2>4. QED BY <2>1, <2>2, <2>3
<1> HIDE DEF id
<1>4. QED BY <1>1, <1>2, <1>3 DEF Connects, Skipped

\* Whatever passes the door has an identity, a caller's and not NoId, that the means
\* the agent was set to vouches for; BootstrapAuth through an open endpoint is the one
\* exception (server.go NewServer, authn.go, the three providers).
THEOREM IdentifiedAtDoor == Spec => IdentifiedUnlessBootstrap
<1> DEFINE Step ==
      call = NoCall /\ call' # NoCall /\ call'.outcome \notin {"refused", "unauthenticated"} =>
        /\ active \/ call'.cred.cert # NoId
        /\ \/ Vouched(call'.id, call'.cred, now)
           \/ active /\ call'.rpc = "BootstrapAuth"
<1>1. TypeOK /\ [Next]_vars => [Step]_vars
  <2> SUFFICES ASSUME TypeOK, [Next]_vars, call = NoCall, call' # NoCall,
                      call'.outcome \notin {"refused", "unauthenticated"}
               PROVE  /\ active \/ call'.cred.cert # NoId
                      /\ \/ Vouched(call'.id, call'.cred, now)
                         \/ active /\ call'.rpc = "BootstrapAuth"
    OBVIOUS
  <2>1. \E c \in Calls, cred \in Creds : Call(c, cred)
    BY DEF Next, Return, Panic, Start, StartFails, Stop, Edit, Tick, vars
  <2>2. QED BY <2>1, CallIdentified
<1>2. QED BY <1>1, AccessTypes, PTL DEF Spec, IdentifiedUnlessBootstrap
=============================================================================
