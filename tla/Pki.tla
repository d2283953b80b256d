-------------------------------- MODULE Pki --------------------------------
(***************************************************************************)
(* The key material: internal/pki/pki.go, the start of the agent that uses *)
(* it (cmd/hb-agent/main.go), and `hbctl bootstrap`, which keeps what the  *)
(* agent issues (cmd/hbctl/cmd_bootstrap.go, internal/client/client.go).   *)
(*                                                                         *)
(* Both sides keep several files that only work together and write them    *)
(* one by one, in place.  A file holds the number of the CA generation, or *)
(* of the client's try, it was written for.  The server certificate names  *)
(* what the node was called when it was made, once and for all; hbctl      *)
(* bootstrap does not look at these names, every later call does.  Whether *)
(* a token is good is Bootstrap's matter: here every token is.             *)
(***************************************************************************)
EXTENDS Integers, Sequences

CONSTANTS
    Clients,        \* directories hbctl keeps credentials in
    Names,          \* endpoints (host names, addresses) that may lead to the node
    Local,          \* those that discoverSANs finds while the node has them
    Faults,         \* what may go wrong, a subset of FaultKinds
    MaxFaults,      \* bound: faults
    MaxTries        \* bound: runs of hbctl bootstrap per client

FaultKinds ==
    { "crash",      \* the agent stops anywhere
      "write",      \* the agent cannot write a file
      "remove",     \* the operator removes a file of the agent's directory
      "client" }    \* hbctl stops, or cannot write a file

ASSUME NamesAssumption == Local \subseteq Names
ASSUME FaultsAssumption == Faults \subseteq FaultKinds
ASSUME BoundsAssumption == MaxFaults \in Nat /\ MaxTries \in Nat

VARIABLES
    disk,       \* the agent's files
    gen,        \* CA generations made so far
    run,        \* what the agent is doing
    next,       \* the file it writes next
    sans,       \* the names in server.crt as last written
    serving,    \* the CA generation of [pool: ClientCAs, cert: the server pair],
                \* and the names in the certificate
    known,      \* fingerprints the agent has logged
    own,        \* what the node is called now: its host name and addresses
    faults,     \* faults so far
    removed,    \* the operator has removed one of the agent's files
    try,        \* the runs of hbctl bootstrap of each client
    via,        \* the endpoint of the last one that was answered
    says,       \* what the last one has told the user
    todo,       \* files it has yet to write
    cred,       \* the CA generation that signed each try's certificate
    dir         \* each client's files

agent == <<disk, gen, run, next, sans, serving, known>>
client == <<try, via, says, todo, cred, dir>>
mishaps == <<faults, removed>>
vars == <<agent, own, mishaps, client>>

Absent == 0
Cut == -1

\* The order in which Bootstrap writes.
Order == <<"ca.crt", "ca.key", "server.crt", "server.key">>
AgentFiles == {Order[i] : i \in DOMAIN Order}
ClientFiles == {"ca.crt", "client.crt", "client.key"}

\* What discoverSANs starts from.
AlwaysNamed == {"localhost", "hb-agent", "127.0.0.1", "::1"}

Fingerprints == [kind : {"ca", "server"}, gen : Nat]

TypeOK ==
    /\ gen \in Nat
    /\ disk \in [AgentFiles -> {Cut} \cup 0..gen]
    /\ run \in {"down", "write", "load", "up"}
    /\ next \in DOMAIN Order
    /\ sans \subseteq AlwaysNamed \cup Local
    /\ serving \in [pool : 0..gen, cert : 0..gen, names : SUBSET (AlwaysNamed \cup Local)]
    /\ known \subseteq Fingerprints
    /\ own \subseteq Local
    /\ faults \in 0..MaxFaults
    /\ removed \in BOOLEAN
    /\ try \in [Clients -> 0..MaxTries]
    /\ via \in [Clients -> Names \cup {""}]
    /\ says \in [Clients -> {"", "successful", "error", "mismatch"}]
    /\ todo \in [Clients -> SUBSET ClientFiles]
    /\ cred \in [Clients -> [1..MaxTries -> 0..gen]]
    /\ dir \in [Clients -> [ClientFiles -> {Cut} \cup 0..MaxTries]]

-----------------------------------------------------------------------------
NotServing == [pool |-> 0, cert |-> 0, names |-> {}]

Init ==
    /\ disk = [f \in AgentFiles |-> Absent]
    /\ gen = 0 /\ run = "down" /\ next = 1
    /\ sans = {} /\ serving = NotServing
    /\ known = {}
    /\ own \in SUBSET Local
    /\ faults = 0 /\ removed = FALSE
    /\ try = [c \in Clients |-> 0]
    /\ via = [c \in Clients |-> ""]
    /\ says = [c \in Clients |-> ""]
    /\ todo = [c \in Clients |-> {}]
    /\ cred = [c \in Clients |-> [n \in 1..MaxTries |-> 0]]
    /\ dir = [c \in Clients |-> [f \in ClientFiles |-> Absent]]

Fault(kind) ==
    /\ kind \in Faults
    /\ faults < MaxFaults
    /\ faults' = faults + 1
    /\ removed' = (removed \/ kind = "remove")

\* A bug to catch: the material is made anew at every start.
Exists_Never == FALSE

\* All that Bootstrap asks before it returns: Stat of ca.crt.
Exists == disk["ca.crt"] # Absent

\* The agent is started: pki.Bootstrap up to its first write.
Start ==
    /\ run = "down"
    /\ IF Exists
       THEN run' = "load" /\ UNCHANGED <<gen, next>>
       ELSE run' = "write" /\ gen' = gen + 1 /\ next' = 1
    /\ UNCHANGED <<disk, sans, serving, known, own, mishaps, client>>

\* A bug to catch: one file too few is written.
LastFile_OneLess == next = Len(Order) - 1

LastFile == next = Len(Order)

\* discoverSANs: what the node is called, but for interfaces that are down or
\* cannot be read.
SANs == {AlwaysNamed \cup found : found \in SUBSET own}

\* writePEM of the next file; the names are discovered just before server.crt.
WriteFile ==
    /\ run = "write"
    /\ disk' = [disk EXCEPT ![Order[next]] = gen]
    /\ IF LastFile
       THEN run' = "load" /\ next' = 1
       ELSE run' = "write" /\ next' = next + 1
    /\ IF Order[next] = "server.crt" THEN sans' \in SANs ELSE UNCHANGED sans
    /\ UNCHANGED <<gen, serving, known, own, mishaps, client>>

\* The file being written is not touched, or truncated by the O_TRUNC of the open.
Interrupted ==
    \/ UNCHANGED disk
    \/ run = "write" /\ disk' = [disk EXCEPT ![Order[next]] = Cut]

Ends ==
    /\ run' = "down" /\ next' = 1
    /\ serving' = NotServing
    /\ UNCHANGED <<gen, sans, known, own, client>>

\* Bootstrap returns the error of writePEM, and with it run.
WriteFails == run = "write" /\ Fault("write") /\ Interrupted /\ Ends

Crash == run # "down" /\ Fault("crash") /\ Interrupted /\ Ends

\* LoadX509KeyPair of the server pair, and the CA for ClientCAs.
Loads ==
    /\ disk["server.crt"] \notin {Absent, Cut}
    /\ disk["server.key"] = disk["server.crt"]
    /\ disk["ca.crt"] \notin {Absent, Cut}

\* LoadServerTLS; then run logs both fingerprints and serves, or it returns.
Load ==
    /\ run = "load"
    /\ Loads
    /\ run' = "up"
    /\ serving' = [pool |-> disk["ca.crt"], cert |-> disk["server.crt"], names |-> sans]
    /\ known' = known \cup {[kind |-> "ca", gen |-> disk["ca.crt"]],
                            [kind |-> "server", gen |-> disk["server.crt"]]}
    /\ UNCHANGED <<disk, gen, next, sans, own, mishaps, client>>

LoadFails == run = "load" /\ ~Loads /\ UNCHANGED <<disk, mishaps>> /\ Ends

Stop == run = "up" /\ UNCHANGED <<disk, mishaps>> /\ Ends

Remove(f) ==
    /\ Fault("remove")
    /\ disk[f] # Absent
    /\ disk' = [disk EXCEPT ![f] = Absent]
    /\ UNCHANGED <<gen, run, next, sans, serving, known, own, client>>

\* The node is given other addresses or another name: by DHCP, or by ApplyConfig.
Readdress ==
    /\ own' \in SUBSET Local
    /\ UNCHANGED <<agent, mishaps, client>>

-----------------------------------------------------------------------------
\* A bug to catch: a certificate is signed with whatever key is there.
Signs_Unmatched == disk["ca.crt"] \notin {Absent, Cut} /\ disk["ca.key"] \notin {Absent, Cut}

\* SignCSR: CreateCertificate refuses a key that is not the CA certificate's.
Signs == disk["ca.crt"] \notin {Absent, Cut} /\ disk["ca.key"] = disk["ca.crt"]

\* verifyFingerprint goes through the certificates the server presents: those
\* in server.crt.
Presented == {[kind |-> "server", gen |-> serving.cert]}

\* The endpoint leads to the node: one of its own if it has that now, any other
\* (a DNS record, a forwarded port) by what is outside of the node.
Reaches(e) == e \in Local => e \in own

\* hbctl bootstrap up to the answer of BootstrapAuth, over the endpoint e and with
\* the fingerprint p that the operator took from the agent's log.  The names in the
\* certificate are not asked for (InsecureSkipVerify).
Enrol(c, p, e) ==
    /\ run = "up"
    /\ Reaches(e)
    /\ todo[c] = {}
    /\ try[c] < MaxTries
    /\ try' = [try EXCEPT ![c] = @ + 1]
    /\ IF p \in Presented /\ Signs
       THEN /\ cred' = [cred EXCEPT ![c][try[c] + 1] = disk["ca.key"]]
            /\ todo' = [todo EXCEPT ![c] = ClientFiles]
            /\ via' = [via EXCEPT ![c] = e]
            /\ says' = [says EXCEPT ![c] = ""]
       ELSE /\ says' = [says EXCEPT ![c] = IF p \in Presented THEN "error" ELSE "mismatch"]
            /\ UNCHANGED <<cred, todo, via>>
    /\ UNCHANGED <<agent, own, mishaps, dir>>

\* The files are written in the order of a map's iteration: any.
WriteCred(c, f) ==
    /\ f \in todo[c]
    /\ dir' = [dir EXCEPT ![c][f] = try[c]]
    /\ todo' = [todo EXCEPT ![c] = @ \ {f}]
    /\ says' = [says EXCEPT ![c] = IF todo[c] = {f} THEN "successful" ELSE @]
    /\ UNCHANGED <<agent, own, mishaps, try, via, cred>>

\* A file cannot be written, or hbctl is stopped: the rest is not written.
WriteCredFails(c, f) ==
    /\ f \in todo[c]
    /\ Fault("client")
    /\ \/ dir' = [dir EXCEPT ![c][f] = Cut]
       \/ UNCHANGED dir
    /\ todo' = [todo EXCEPT ![c] = {}]
    /\ says' = [says EXCEPT ![c] = "error"]
    /\ UNCHANGED <<agent, own, try, via, cred>>

AgentNext ==
    \/ Start \/ WriteFile \/ Load \/ LoadFails
    \/ WriteFails \/ Crash \/ Stop
    \/ \E f \in AgentFiles : Remove(f)

ClientNext(c) ==
    \/ \E p \in known, e \in Names : Enrol(c, p, e)
    \/ \E f \in ClientFiles : WriteCred(c, f) \/ WriteCredFails(c, f)

Next == AgentNext \/ Readdress \/ \E c \in Clients : ClientNext(c)

Spec == Init /\ [][Next]_vars

\* The agent is started whenever it is down, and what it does itself goes on.
FairSpec == Spec /\ WF_vars(Start \/ WriteFile \/ Load \/ LoadFails)

-----------------------------------------------------------------------------
(* Properties. *)

\* A call of hbctl over the endpoint the client was enrolled through, with the
\* files it was given: loadClientTLS and both ends of the handshake.  The client's
\* pair matches, the agent's pool holds the CA that signed it, the CA certificate
\* kept is the one that signed the server's, and that one names the endpoint
\* (client.go sets no ServerName: it is the endpoint's host).
Connects(c) ==
    LET at == dir[c]
    IN  /\ \A f \in ClientFiles : at[f] \notin {Absent, Cut}
        /\ at["client.key"] = at["client.crt"]
        /\ cred[c][at["client.crt"]] = serving.pool
        /\ cred[c][at["ca.crt"]] = serving.cert
        /\ via[c] \in serving.names

\* As long as nobody removes the agent's files, whatever crashed before on either
\* side: a client that was told "Bootstrap successful", and still reaches the node
\* that serves, can connect if and only if the server certificate was made with the
\* name it was enrolled through.  The key material always fits; but through a DNS
\* name, a forwarded port or an address that the node was given after its first
\* start, the client is told of success and the usage line it is then shown fails.
EnrolledConnects ==
    ~removed =>
        \A c \in Clients :
            says[c] = "successful" /\ run = "up" /\ Reaches(via[c]) =>
                (Connects(c) <=> via[c] \in sans)

\* Even if files were removed and half made anew, a run of the agent issues no
\* certificate that it would not accept itself.
IssuesWhatItAccepts ==
    [][\A c \in Clients, n \in 1..MaxTries :
           cred'[c][n] # cred[c][n] => cred'[c][n] = serving.pool]_vars

\* ca.crt is there, and with it the agent will never make the rest.
HalfMade == Exists /\ ~Loads

\* Started again whenever it is down, the agent comes up again and again; but for
\* one thing: a fault while it made its files, or their removal, has left the
\* material half made, which stays so for ever (pki.go Bootstrap).
ComesUpUnlessHalfMade == []<>(run = "up") \/ <>[](HalfMade /\ faults > 0)
=============================================================================
