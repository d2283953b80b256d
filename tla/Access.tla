------------------------------- MODULE Access -------------------------------
(***************************************************************************)
(* Who may do what: the configuration and the plugins a run of the agent   *)
(* starts with (cmd/hb-agent/main.go, internal/config, plugins), the       *)
(* connection and the authenticators (internal/agent/server.go,            *)
(* internal/authn), the authorizers with their policy files                *)
(* (internal/authz), and the table of RPCs that gives each its resource    *)
(* and its function (internal/api/v1alpha1/machine.go).                    *)
(*                                                                         *)
(* A call is one step: what decides it is fixed when the agent starts, and *)
(* only the clock and the policy files move on, which a call in service    *)
(* does not look at again.  Agent models the concurrency of calls, Control *)
(* and JournalStream what their functions do.                              *)
(***************************************************************************)
EXTENDS Integers, Sequences, FiniteSets

CONSTANTS
    Files,      \* the number of policy files, in the order of their names
    Texts,      \* what a policy file may hold: sequences of policies
    Absent,     \* a file that is not there
    Broken,     \* one that cannot be read or parsed
    Configs,    \* the configurations the agent may be started with
    Creds,      \* what a client may show: [cert, bearer, jwt]
    Keys,       \* the issuer's keys by id: [family, small]
    Units,      \* names of units
    Images,     \* references of images
    MaxAge,     \* the age at which a token is too old: 24 hours in the code
    MaxPolicies,\* bound: policies in a file
    MaxTime,    \* bound: the clock
    MaxEdits    \* bound: changes of the policy files

ASSUME BoundsAssumption == {Files, MaxPolicies, MaxAge, MaxTime, MaxEdits} \subseteq Nat
ASSUME TextsAssumption == \A text \in Texts : Len(text) <= MaxPolicies
ASSUME TimesAssumption == \A cred \in Creds : cred.bearer = "jwt" => cred.jwt.exp \in Int

Known == {"services", "diagnostics", "lifecycle", "config"}

VARIABLES
    disk,       \* each policy file
    run,        \* the process
    cfg,        \* the configuration it runs with
    active,     \* BootstrapActive
    loaded,     \* the policy set, by policy id
    started,    \* the policy files as they were at the start
    now,        \* the clock
    edits,      \* changes of the files so far
    call        \* the call in service: what, by whom, and what comes of it

settings == <<cfg, active, loaded, started>>
vars == <<disk, run, settings, now, edits, call>>

NoId == [name |-> "none", groups |-> {}]
NoCfg == [auth |-> "none", authz |-> "none", plugins |-> {}]
NoCall == [rpc |-> "none"]
NoTime == -1

-----------------------------------------------------------------------------
(* The table of RPCs. *)

Arguments(rpc) ==
    CASE rpc \in {"StartService", "StopService", "RestartService"} -> Units \cup {"", "bad"}
      [] rpc = "ServiceStatus" -> Units \cup {""}
      [] rpc = "Upgrade" -> Images \cup {"", "bad"}
      [] OTHER -> {""}

ServiceRpcs == {"StartService", "StopService", "RestartService"}
LifecycleRpcs == {"Upgrade", "Rollback", "Reboot"}
ConfigRpcs == {"GetConfig", "ApplyConfig"}
Changing == ServiceRpcs \cup LifecycleRpcs \cup {"ApplyConfig"}

Rpcs ==
    {"Version", "Health", "Stats", "ServiceStatus", "Logs", "Dmesg", "BootstrapAuth",
     "UnknownServiceAction"} \cup ServiceRpcs \cup LifecycleRpcs \cup ConfigRpcs

Calls == UNION {{[rpc |-> r, arg |-> a] : a \in Arguments(r)} : r \in Rpcs}

ThisNode == [type |-> "Node", id |-> "*"]

\* The extractors of NewMachineServer: what the authorizer is asked about.
Resource(c) ==
    CASE c.rpc \in ServiceRpcs \cup {"ServiceStatus"} /\ c.arg # "" ->
             [type |-> "Service", id |-> c.arg]
      [] c.rpc = "Upgrade" /\ c.arg # "" -> [type |-> "Image", id |-> c.arg]
      [] c.rpc = "ApplyConfig" -> [type |-> "Config", id |-> "machine"]
      [] OTHER -> ThisNode

\* What the function of the call acts on.
Target(c) ==
    CASE c.rpc \in ServiceRpcs -> [type |-> "Service", id |-> c.arg]
      [] c.rpc = "ServiceStatus" -> [type |-> "Service", id |-> c.arg]
      [] c.rpc = "Upgrade" -> [type |-> "Image", id |-> c.arg]
      [] c.rpc = "ApplyConfig" -> [type |-> "Config", id |-> "machine"]
      [] OTHER -> ThisNode

\* buildDeps.  Nothing sets Deps.Health.
Deps(plugins) ==
    {d \in {"systemd", "journal", "proc", "bootc", "network", "kargs"} :
        CASE d = "systemd" -> "services" \in plugins
          [] d \in {"journal", "proc"} -> "diagnostics" \in plugins
          [] d = "bootc" -> "lifecycle" \in plugins
          [] OTHER -> "config" \in plugins}

\* The dependency the function calls.
Uses(c) ==
    CASE c.rpc = "Health" -> {"health"}
      [] c.rpc = "Stats" -> {"proc"}
      [] c.rpc \in {"Logs", "Dmesg"} -> {"journal"}
      [] c.rpc \in ServiceRpcs \cup {"ServiceStatus", "Reboot"} -> {"systemd"}
      [] c.rpc \in {"Upgrade", "Rollback"} -> {"bootc"}
      [] c.rpc \in ConfigRpcs -> {"network", "kargs"}
      [] OTHER -> {}

\* A bug to catch: the upgrade manager is made without systemd.
Guarded_BootcOnly(c) ==
    CASE c.rpc \in LifecycleRpcs -> {"bootc"}
      [] c.rpc \in ConfigRpcs -> {"network", "kargs"}
      [] c.rpc \in ServiceRpcs -> {"systemd"}
      [] OTHER -> {}

\* The dependencies the function asks for first, to answer "not configured".
\* DiagnosticsServer is never nil itself, so the tests for it find nothing.
Guarded(c) ==
    CASE c.rpc \in LifecycleRpcs -> {"bootc", "systemd"}
      [] c.rpc \in ConfigRpcs -> {"network", "kargs"}
      [] c.rpc \in ServiceRpcs -> {"systemd"}
      [] OTHER -> {}

\* validate.UnitName and validate.ImageRef.
BadArgument(c) ==
    c.rpc \in ServiceRpcs \cup {"ServiceStatus", "Upgrade"} /\ c.arg \in {"", "bad"}

-----------------------------------------------------------------------------
(* Authentication. *)

\* The handshake: a certificate is asked for unless the bootstrap endpoint was
\* opened at the start.
Connects(cred) == active \/ cred.cert # NoId

\* verifySignature: the algorithm is one of the key's family.
SignatureGood(j) ==
    /\ j.kid \in DOMAIN Keys
    /\ j.alg = Keys[j.kid].family
    /\ ~Keys[j.kid].small
    /\ j.signer = j.kid

\* The times in a token; exp must be there.
Timely(j, t) ==
    /\ j.exp # NoTime /\ j.exp >= t
    /\ j.nbf # NoTime => j.nbf <= t
    /\ j.iat # NoTime => t - j.iat <= MaxAge

\* verifyToken, its key being found, and Authenticate.
VerifyToken(j, t) ==
    /\ SignatureGood(j)
    /\ j.iss = "issuer"
    /\ "hbctl" \in j.aud
    /\ Timely(j, t)
    /\ j.id.name # ""

\* mtls: the subject of the certificate the handshake verified.
MtlsIdentity(cred) == cred.cert

\* token: one name for all who know the token.
TokenIdentity(cred) ==
    IF cred.bearer = "token" THEN [name |-> "bearer-token", groups |-> {}] ELSE NoId

OidcIdentity(cred) ==
    IF cred.bearer = "jwt" /\ VerifyToken(cred.jwt, now) THEN cred.jwt.id ELSE NoId

\* The provider the agent was set to: an identity, or none.
Authenticate(cred) ==
    CASE cfg.auth = "mtls" -> MtlsIdentity(cred)
      [] cfg.auth = "token" -> TokenIdentity(cred)
      [] OTHER -> OidcIdentity(cred)

\* A bug to catch: every method is let through while the endpoint is open.
Skipped_All(c) == active

\* skipMethods.
Skipped(c) == active /\ c.rpc = "BootstrapAuth"

-----------------------------------------------------------------------------
(* Authorization. *)

\* The policies of the files, by file and place in it.
Policies(files) ==
    {p \in (1..Files) \X (1..MaxPolicies) :
        files[p[1]] \notin {Absent, Broken} /\ p[2] <= Len(files[p[1]])}

PolicyAt(files, p) == files[p[1]][p[2]]

Earlier(p, q) == p[1] < q[1] \/ (p[1] = q[1] /\ p[2] < q[2])

\* A bug to catch: a policy is named by its place in its file.
PolicyId_Place(files, p) == p[2]

\* The name of the file, and policyCount, which goes on from file to file.
PolicyId(files, p) == <<p[1], Cardinality({q \in Policies(files) : Earlier(q, p)})>>

\* loadPolicies: of two policies with one id, Add keeps the later.
LoadPolicies(files) ==
    LET Last(i) == CHOOSE p \in Policies(files) :
            /\ PolicyId(files, p) = i
            /\ \A q \in Policies(files) : PolicyId(files, q) = i => ~Earlier(p, q)
    IN  [i \in {PolicyId(files, p) : p \in Policies(files)} |-> PolicyAt(files, Last(i))]

\* The scope of a policy: the user or a group of its, the action, the resource.
\* One whose condition fails in the evaluation applies to nothing.
Applies(policy, id, act, on) ==
    /\ policy.who \cap ({id.name} \cup id.groups) # {}
    /\ act \in policy.acts
    /\ on \in policy.on
    /\ ~policy.fails

\* cedarlib.Authorize: a permit and no forbid.
Decision(policies, id, act, on) ==
    LET Some(effect) == \E p \in policies : p.effect = effect /\ Applies(p, id, act, on)
    IN  Some("permit") /\ ~Some("forbid")

\* Authorize of the two authorizers.
Authorize(id, act, on) ==
    \/ cfg.authz = "allow-all"
    \/ Decision({loaded[i] : i \in DOMAIN loaded}, id, act, on)

-----------------------------------------------------------------------------
(* A call: the interceptor, Execute, and the function. *)

Missing(needed) == needed \ Deps(cfg.plugins)

\* The function of an RPC.
Perform(c) ==
    IF c.rpc = "UnknownServiceAction" \/ BadArgument(c) \/ Missing(Guarded(c)) # {} THEN "error"
    ELSE IF Missing(Uses(c)) # {} THEN "panic"
    ELSE "done"

\* BootstrapAuth is passed on to the manager (Bootstrap), with no identity if
\* it was let through; an unknown action of ServiceControl never gets to Execute.
Outcome(c, cred) ==
    LET id == Authenticate(cred)
    IN  IF ~Connects(cred) THEN "refused"
        ELSE IF id = NoId /\ ~Skipped(c) THEN "unauthenticated"
        ELSE IF c.rpc = "BootstrapAuth" THEN "bootstrap"
        ELSE IF c.rpc # "UnknownServiceAction" /\ ~Authorize(id, c.rpc, Resource(c)) THEN "denied"
        ELSE Perform(c)

Call(c, cred) ==
    /\ run = "up" /\ call = NoCall
    /\ call' = [rpc |-> c.rpc, arg |-> c.arg, id |-> Authenticate(cred), cred |-> cred,
                outcome |-> Outcome(c, cred)]
    /\ UNCHANGED <<disk, run, settings, now, edits>>

Return ==
    /\ run = "up" /\ call # NoCall /\ call.outcome # "panic"
    /\ call' = NoCall
    /\ UNCHANGED <<disk, run, settings, now, edits>>

\* Nothing recovers: a panic ends the process.
Panic ==
    /\ run = "up" /\ call # NoCall /\ call.outcome = "panic"
    /\ run' = "failed"
    /\ call' = NoCall /\ cfg' = NoCfg /\ active' = FALSE
    /\ loaded' = << >> /\ started' = << >>
    /\ UNCHANGED <<disk, now, edits>>

-----------------------------------------------------------------------------
(* The process, and the world around it. *)

\* loadPlugins: the registry makes every plugin of HB_PLUGINS.
PluginsKnown(c) == c.plugins \subseteq Known

\* The registry of the authenticators.
AuthenticatorKnown(c) == c.auth \in {"mtls", "token", "oidc"}

\* New of the authorizer; the cedar policies are read here and never again.
AuthorizerMade(c) ==
    /\ c.authz \in {"allow-all", "cedar"}
    /\ c.authz = "cedar" => \A f \in 1..Files : disk[f] # Broken

Creatable(c) == AuthenticatorKnown(c) /\ AuthorizerMade(c) /\ PluginsKnown(c)

Init ==
    /\ disk \in [1..Files -> Texts \cup {Absent, Broken}]
    /\ run = "down" /\ cfg = NoCfg /\ active = FALSE
    /\ loaded = << >> /\ started = << >>
    /\ now = 0 /\ edits = 0 /\ call = NoCall

Start(c) ==
    /\ run # "up"
    /\ Creatable(c)
    /\ run' = "up" /\ cfg' = c /\ active' \in BOOLEAN
    /\ IF c.authz = "cedar"
       THEN loaded' = LoadPolicies(disk) /\ started' = disk
       ELSE loaded' = << >> /\ started' = << >>
    /\ UNCHANGED <<disk, now, edits, call>>

\* New of the token provider, whose hash may be missing.
NoHash(c) == c.auth = "token"

\* discoverJWKSURL: the issuer may be out of reach, or name a host not its own.
NoIssuer(c) == c.auth = "oidc"

StartFails(c) ==
    /\ run # "up"
    /\ NoHash(c) \/ NoIssuer(c) \/ ~Creatable(c)
    /\ run' = "failed"
    /\ UNCHANGED <<disk, settings, now, edits, call>>

Stop ==
    /\ run = "up" /\ call = NoCall
    /\ run' = "down"
    /\ cfg' = NoCfg /\ active' = FALSE /\ loaded' = << >> /\ started' = << >>
    /\ UNCHANGED <<disk, now, edits, call>>

\* Somebody writes, breaks or removes a policy file.
Edit(f, content) ==
    /\ edits < MaxEdits /\ content # disk[f]
    /\ disk' = [disk EXCEPT ![f] = content]
    /\ edits' = edits + 1
    /\ UNCHANGED <<run, settings, now, call>>

Tick ==
    /\ now < MaxTime
    /\ now' = now + 1
    /\ UNCHANGED <<disk, run, settings, edits, call>>

Next ==
    \/ \E c \in Calls, cred \in Creds : Call(c, cred)
    \/ Return \/ Panic
    \/ \E c \in Configs : Start(c) \/ StartFails(c)
    \/ Stop
    \/ \E f \in 1..Files, content \in Texts \cup {Absent, Broken} : Edit(f, content)
    \/ Tick

Spec == Init /\ [][Next]_vars

-----------------------------------------------------------------------------
(* What must hold. *)

\* Every variable has its type, and an agent runs only with plugins it knows
\* (main.go, loadPlugins) and from policy files that can be read.
TypeOK ==
    /\ disk \in [1..Files -> Texts \cup {Absent, Broken}]
    /\ run \in {"down", "up", "failed"}
    /\ cfg \in Configs \cup {NoCfg} /\ cfg.plugins \subseteq Known
    /\ run = "up" <=> cfg # NoCfg
    /\ active \in BOOLEAN
    /\ \A f \in DOMAIN started : started[f] # Broken
    /\ now \in 0..MaxTime /\ edits \in 0..MaxEdits
    /\ call # NoCall => run = "up"

Acted == call # NoCall /\ call.outcome = "done"

\* What the policy files say of an act, read as one text.
PermittedByFiles(id, act, on) ==
    Decision({PolicyAt(started, p) : p \in Policies(started)}, id, act, on)

\* With cedar, whatever a call acts on is permitted by all the policies of the
\* files as they were at the start, for the identity of the caller and for the
\* thing acted on and not for some other resource the authorizer was asked about
\* (cedar.go loadPolicies, machine.go NewMachineServer, handler.go Execute).
ActsAsPermitted ==
    Acted /\ cfg.authz = "cedar" => PermittedByFiles(call.id, call.rpc, Target(call))

\* A call that changes the node never ends the agent, whatever plugins are
\* loaded: each asks for what it is about to use (machine.go).
ChangersSurvive ==
    call # NoCall /\ call.outcome = "panic" => call.rpc \notin Changing

\* Somebody is named, and what the caller showed vouches for the name: a
\* certificate the handshake has verified, the shared token, or a token that a key
\* of the issuer has signed and whose time has not passed.
Vouched(id, cred, t) ==
    /\ id # NoId
    /\ CASE cfg.auth = "mtls" -> cred.cert = id
         [] cfg.auth = "token" -> cred.bearer = "token"
         [] OTHER ->
                LET j == cred.jwt
                IN  /\ cred.bearer = "jwt" /\ j.id = id
                    /\ j.signer \in DOMAIN Keys
                    /\ j.exp \in Nat /\ t <= j.exp

\* Nobody is anonymous: whatever passes the door has an identity that the means
\* the agent was set to vouches for at that moment, but for BootstrapAuth while
\* its endpoint was open at the start, and then alone may a certificate be missing
\* in the handshake (server.go NewServer, authn.go, the three providers;
\* docs/security.md:23).
IdentifiedUnlessBootstrap ==
    [][call = NoCall /\ call' # NoCall
            /\ call'.outcome \notin {"refused", "unauthenticated"} =>
        /\ active \/ call'.cred.cert # NoId
        /\ \/ Vouched(call'.id, call'.cred, now)
           \/ active /\ call'.rpc = "BootstrapAuth"]_vars
=============================================================================
