------------------------------ MODULE PkiProofs ------------------------------
(***************************************************************************)
(* Proofs about Pki, for any clients, any number of tries and any faults.  *)
(***************************************************************************)
EXTENDS Pki, TLAPS

LEMMA FileOrder ==
    /\ DOMAIN Order = 1..4 /\ Len(Order) = 4
    /\ Order[1] = "ca.crt" /\ Order[2] = "ca.key"
    /\ Order[3] = "server.crt" /\ Order[4] = "server.key"
    /\ AgentFiles = {"ca.crt", "ca.key", "server.crt", "server.key"}
    /\ \A i \in 1..4 : Order[i] \in AgentFiles
<1>1. DOMAIN Order = 1..4 /\ Len(Order) = 4
  BY DEF Order
<1>2. /\ Order[1] = "ca.crt" /\ Order[2] = "ca.key"
      /\ Order[3] = "server.crt" /\ Order[4] = "server.key"
  BY DEF Order
<1>3. AgentFiles = {Order[1], Order[2], Order[3], Order[4]}
  BY <1>1 DEF AgentFiles
<1>4. QED BY <1>1, <1>2, <1>3 DEF AgentFiles

-----------------------------------------------------------------------------
(* Type correctness. *)

AgentTypes ==
    /\ gen \in Nat
    /\ disk \in [AgentFiles -> {Cut} \cup 0..gen]
    /\ run \in {"down", "write", "load", "up"}
    /\ next \in 1..4
    /\ sans \subseteq AlwaysNamed \cup Local
    /\ serving \in [pool : 0..gen, cert : 0..gen, names : SUBSET (AlwaysNamed \cup Local)]
    /\ known \subseteq Fingerprints

MishapTypes == own \subseteq Local /\ faults \in 0..MaxFaults /\ removed \in BOOLEAN

ClientTypes ==
    /\ try \in [Clients -> 0..MaxTries]
    /\ via \in [Clients -> Names \cup {""}]
    /\ says \in [Clients -> {"", "successful", "error", "mismatch"}]
    /\ todo \in [Clients -> SUBSET ClientFiles]
    /\ cred \in [Clients -> [1..MaxTries -> 0..gen]]
    /\ dir \in [Clients -> [ClientFiles -> {Cut} \cup 0..MaxTries]]

Base == AgentTypes /\ MishapTypes /\ ClientTypes

LEMMA BaseTypes == Base => TypeOK
BY FileOrder DEF Base, AgentTypes, MishapTypes, ClientTypes, TypeOK

LEMMA InitBase == Init => Base
<1> SUFFICES ASSUME Init PROVE Base
  OBVIOUS
<1>1. 0 \in 0..MaxFaults /\ 0 \in 0..MaxTries /\ 0 \in 0..0
  BY BoundsAssumption
<1>2. AgentTypes
  <2>1. gen = 0 /\ disk = [f \in AgentFiles |-> 0]
    BY DEF Init, Absent
  <2>2. disk \in [AgentFiles -> {Cut} \cup 0..gen]
    BY <1>1, <2>1
  <2>3. serving \in [pool : 0..gen, cert : 0..gen, names : SUBSET (AlwaysNamed \cup Local)]
    BY <1>1, <2>1 DEF Init, NotServing
  <2>4. run = "down" /\ next = 1 /\ known = {} /\ sans = {}
    BY DEF Init
  <2>5. QED BY <2>1, <2>2, <2>3, <2>4 DEF AgentTypes
<1>3. MishapTypes /\ ClientTypes
  BY <1>1 DEF Init, MishapTypes, ClientTypes, Absent
<1>4. QED BY <1>2, <1>3 DEF Base

LEMMA FaultTypes == ASSUME MishapTypes, NEW k, Fault(k), own' = own PROVE MishapTypes'
BY BoundsAssumption DEF MishapTypes, Fault

LEMMA MishapSteps == MishapTypes /\ [Next]_vars => MishapTypes'
<1> SUFFICES ASSUME MishapTypes, [Next]_vars PROVE MishapTypes'
  OBVIOUS
<1>1. CASE UNCHANGED <<own, mishaps>>
  BY <1>1 DEF mishaps, MishapTypes
<1>2. CASE own' = own /\ \E k : Fault(k)
  BY <1>2, FaultTypes
<1>3. CASE Readdress
  BY <1>3 DEF Readdress, mishaps, MishapTypes
<1>4. CASE AgentNext \/ UNCHANGED vars
  BY <1>1, <1>2, <1>4 DEF AgentNext, Start, WriteFile, Load, LoadFails, WriteFails,
     Crash, Stop, Remove, Ends, vars
<1>5. CASE \E c \in Clients : ClientNext(c)
  BY <1>1, <1>2, <1>5 DEF ClientNext, Enrol, WriteCred, WriteCredFails
<1>6. QED BY <1>3, <1>4, <1>5 DEF Next

LEMMA InterruptedTypes == ASSUME AgentTypes, Interrupted, gen' = gen
                          PROVE  disk' \in [AgentFiles -> {Cut} \cup 0..gen']
BY DEF AgentTypes, Interrupted

LEMMA EndsTypes == ASSUME AgentTypes, Ends, disk' \in [AgentFiles -> {Cut} \cup 0..gen']
                   PROVE  AgentTypes'
<1>1. gen' = gen /\ 0 \in 0..gen
  BY DEF AgentTypes, Ends
<1>2. serving' \in [pool : 0..gen', cert : 0..gen', names : SUBSET (AlwaysNamed \cup Local)]
  BY <1>1 DEF Ends, NotServing
<1>3. QED BY <1>1, <1>2 DEF AgentTypes, Ends

LEMMA AgentSteps == Base /\ [Next]_vars => AgentTypes'
<1> SUFFICES ASSUME Base, [Next]_vars PROVE AgentTypes'
  OBVIOUS
<1> USE DEF Base
<1>1. CASE Start
  <2>1. CASE Exists
    BY <1>1, <2>1 DEF Start, AgentTypes
  <2>2. CASE ~Exists
    <3>1. gen' = gen + 1 /\ gen' \in Nat /\ 0..gen \subseteq 0..gen'
      BY <1>1, <2>2 DEF Start, AgentTypes
    <3>2. /\ disk' \in [AgentFiles -> {Cut} \cup 0..gen']
          /\ serving' \in [pool : 0..gen', cert : 0..gen', names : SUBSET (AlwaysNamed \cup Local)]
      BY <1>1, <3>1 DEF Start, AgentTypes
    <3>3. QED BY <1>1, <2>2, <3>1, <3>2 DEF Start, AgentTypes
  <2>3. QED BY <2>1, <2>2
<1>2. CASE WriteFile
  <2>1. gen \in 0..gen
    BY DEF AgentTypes
  <2>2. disk' \in [AgentFiles -> {Cut} \cup 0..gen]
    BY <1>2, <2>1 DEF WriteFile, AgentTypes
  <2>3. next' \in 1..4 /\ run' \in {"load", "write"}
    BY <1>2, FileOrder DEF WriteFile, LastFile, AgentTypes
  <2>4. sans' \subseteq AlwaysNamed \cup Local
    <3>1. own \subseteq Local /\ sans \subseteq AlwaysNamed \cup Local
      BY DEF AgentTypes, MishapTypes
    <3>2. \A names \in SANs : names \subseteq AlwaysNamed \cup Local
      BY <3>1 DEF SANs
    <3>3. sans' \in SANs \/ sans' = sans
      BY <1>2 DEF WriteFile
    <3>4. QED BY <3>1, <3>2, <3>3
  <2>5. QED BY <1>2, <2>2, <2>3, <2>4 DEF WriteFile, AgentTypes
<1>3. CASE Load
  <2>1. disk["ca.crt"] \in 0..gen /\ disk["server.crt"] \in 0..gen
    BY <1>3, FileOrder DEF Load, Loads, AgentTypes, Cut
  <2>2. serving' \in [pool : 0..gen, cert : 0..gen, names : SUBSET (AlwaysNamed \cup Local)]
    BY <1>3, <2>1 DEF Load, AgentTypes
  <2>3. known' \subseteq Fingerprints
    BY <1>3, <2>1 DEF Load, AgentTypes, Fingerprints
  <2>4. QED BY <1>3, <2>2, <2>3 DEF Load, AgentTypes
<1>4. CASE WriteFails \/ Crash
  BY <1>4, InterruptedTypes, EndsTypes DEF WriteFails, Crash, Ends
<1>5. CASE LoadFails \/ Stop
  BY <1>5, EndsTypes DEF LoadFails, Stop, Ends, AgentTypes
<1>6. ASSUME NEW f \in AgentFiles, Remove(f) PROVE AgentTypes'
  <2>1. Absent \in 0..gen
    BY DEF AgentTypes, Absent
  <2>2. QED BY <1>6, <2>1 DEF Remove, AgentTypes
<1>7. CASE UNCHANGED agent
  BY <1>7 DEF agent, AgentTypes
<1>8. QED
  BY <1>1, <1>2, <1>3, <1>4, <1>5, <1>6, <1>7
  DEF Next, AgentNext, Readdress, ClientNext, Enrol, WriteCred, WriteCredFails, vars

\* Functions into functions.
LEMMA Wider ==
    ASSUME NEW A, NEW B, NEW S, NEW T, S \subseteq T, NEW f \in [A -> [B -> S]]
    PROVE  f \in [A -> [B -> T]]
<1>1. \A a \in A : f[a] \in [B -> T]
  OBVIOUS
<1>2. QED BY <1>1

LEMMA Changed ==
    ASSUME NEW A, NEW B, NEW S, NEW f \in [A -> [B -> S]],
           NEW a \in A, NEW b, NEW v, b \in B => v \in S
    PROVE  [f EXCEPT ![a][b] = v] \in [A -> [B -> S]]
<1>1. f[a] \in [B -> S] /\ [f[a] EXCEPT ![b] = v] \in [B -> S]
  OBVIOUS
<1>2. QED BY <1>1

LEMMA ClientSteps == Base /\ [Next]_vars => ClientTypes'
<1> SUFFICES ASSUME Base, [Next]_vars PROVE ClientTypes'
  OBVIOUS
<1> USE DEF Base
<1>1. ASSUME UNCHANGED client, gen' \in Nat, gen <= gen' PROVE ClientTypes'
  <2>1. 0..gen \subseteq 0..gen'
    BY <1>1 DEF AgentTypes
  <2>2. cred' \in [Clients -> [1..MaxTries -> 0..gen']]
    BY <1>1, <2>1, Wider DEF client, ClientTypes
  <2>3. QED BY <1>1, <2>2 DEF client, ClientTypes
<1>2. CASE AgentNext \/ Readdress \/ UNCHANGED vars
  <2>1. UNCHANGED client /\ (gen' = gen \/ gen' = gen + 1)
    BY <1>2 DEF AgentNext, Readdress, Start, WriteFile, Load, LoadFails, WriteFails, Crash, Stop, Remove,
       Ends, vars, agent
  <2>2. QED BY <1>1, <2>1 DEF AgentTypes
<1>3. ASSUME NEW c \in Clients, NEW p \in known, NEW e \in Names, Enrol(c, p, e)
      PROVE  ClientTypes'
  <2>1. try[c] + 1 \in 1..MaxTries /\ try[c] + 1 \in 0..MaxTries /\ gen' = gen
    <3>1. try[c] \in 0..MaxTries /\ try[c] < MaxTries
      BY <1>3 DEF Enrol, ClientTypes
    <3>2. try[c] + 1 \in 1..MaxTries /\ try[c] + 1 \in 0..MaxTries
      BY <3>1, BoundsAssumption
    <3>3. gen' = gen
      BY <1>3 DEF Enrol, agent
    <3>4. QED BY <3>2, <3>3
  <2>2. CASE p \in Presented /\ Signs
    <3>1. disk["ca.key"] \in 0..gen
      BY <2>2, FileOrder DEF Signs, AgentTypes, Cut
    <3>2. cred' = [cred EXCEPT ![c][try[c] + 1] = disk["ca.key"]]
      BY <1>3, <2>2 DEF Enrol
    <3>3. cred' \in [Clients -> [1..MaxTries -> 0..gen]]
      BY <3>1, <3>2, Changed DEF ClientTypes
    <3>4. QED BY <1>3, <2>1, <2>2, <3>3 DEF Enrol, ClientTypes
  <2>3. CASE ~(p \in Presented /\ Signs)
    BY <1>3, <2>1, <2>3 DEF Enrol, ClientTypes
  <2>4. QED BY <2>2, <2>3
<1>4. ASSUME NEW c \in Clients, NEW f \in ClientFiles, WriteCred(c, f) PROVE ClientTypes'
  <2>1. dir' \in [Clients -> [ClientFiles -> {Cut} \cup 0..MaxTries]]
    BY <1>4 DEF WriteCred, ClientTypes
  <2>2. QED BY <1>4, <2>1 DEF WriteCred, ClientTypes, agent
<1>5. ASSUME NEW c \in Clients, NEW f \in ClientFiles, WriteCredFails(c, f) PROVE ClientTypes'
  <2>1. dir' \in [Clients -> [ClientFiles -> {Cut} \cup 0..MaxTries]]
    <3>1. dir' = [dir EXCEPT ![c][f] = Cut] \/ dir' = dir
      BY <1>5 DEF WriteCredFails
    <3>2. Cut \in {Cut} \cup 0..MaxTries
      OBVIOUS
    <3>3. dir \in [Clients -> [ClientFiles -> {Cut} \cup 0..MaxTries]]
      BY DEF ClientTypes
    <3>4. [dir EXCEPT ![c][f] = Cut] \in [Clients -> [ClientFiles -> {Cut} \cup 0..MaxTries]]
      BY <3>2, <3>3, Changed
    <3>5. QED BY <3>1, <3>3, <3>4
  <2>2. QED BY <1>5, <2>1 DEF WriteCredFails, ClientTypes, agent
<1>6. QED BY <1>2, <1>3, <1>4, <1>5 DEF Next, ClientNext

LEMMA NextBase == Base /\ [Next]_vars => Base'
BY AgentSteps, MishapSteps, ClientSteps DEF Base

\* Every state is well typed: no file is of a generation that was never made.
THEOREM PkiTypes == Spec => []TypeOK
BY BaseTypes, InitBase, NextBase, PTL DEF Spec

-----------------------------------------------------------------------------
(* While no file is removed. *)

\* The files are of one generation, and the first is written first.
Made ==
    /\ \A f \in AgentFiles : disk[f] \in {Absent, Cut, gen}
    /\ disk["ca.crt"] = Absent => \A f \in AgentFiles : disk[f] = Absent
    /\ run = "write" => gen # Absent /\ disk["ca.crt"] = IF next = 1 THEN Absent ELSE gen
    /\ run \in {"load", "up"} => disk["ca.crt"] # Absent
    /\ run = "up" => serving = [pool |-> gen, cert |-> gen, names |-> sans]

\* Certificates are of that generation, which is the last.
Issued ==
    \A c \in Clients, n \in 1..MaxTries :
        cred[c][n] # 0 => cred[c][n] = gen /\ disk["ca.crt"] # Absent /\ run # "write"

\* What hbctl has written of the credentials of its last try.
KeptBy(c) ==
    /\ todo[c] # {} =>
           /\ says[c] = "" /\ try[c] \in 1..MaxTries /\ cred[c][try[c]] # 0
           /\ \A f \in ClientFiles \ todo[c] : dir[c][f] = try[c]
    /\ says[c] = "successful" =>
           /\ try[c] \in 1..MaxTries /\ cred[c][try[c]] # 0
           /\ \A f \in ClientFiles : dir[c][f] = try[c]

Kept == \A c \in Clients : KeptBy(c)

Untouched == ~removed => Made /\ Issued

LEMMA InitUntouched == Init => Untouched /\ Kept
<1> SUFFICES ASSUME Init PROVE Untouched /\ Kept
  OBVIOUS
<1>1. Made
  BY FileOrder DEF Init, Made
<1>2. Issued /\ Kept
  BY DEF Init, Issued, Kept, KeptBy
<1>3. QED BY <1>1, <1>2 DEF Untouched

LEMMA NoCredYet ==
    ASSUME Issued, disk["ca.crt"] = Absent \/ run = "write", UNCHANGED cred
    PROVE  Issued'
BY DEF Issued

\* The steps of the agent that may leave the write of a file half done.
LEMMA EndsMade ==
    ASSUME Base, Made, Issued, Interrupted, Ends
    PROVE  Made' /\ Issued'
<1> USE FileOrder
<1>1. run' = "down" /\ gen' = gen /\ cred' = cred
  BY DEF Ends, client
<1>2. CASE UNCHANGED disk
  BY <1>1, <1>2 DEF Made, Issued
<1>3. CASE run = "write" /\ disk' = [disk EXCEPT ![Order[next]] = Cut]
  <2>1. \A f \in AgentFiles : disk'[f] \in {Absent, Cut, gen}
    BY <1>3 DEF Made, Base, AgentTypes
  <2>2. disk'["ca.crt"] # Absent
    <3>1. CASE next = 1
      BY <1>3, <3>1 DEF Base, AgentTypes, Cut, Absent
    <3>2. CASE next # 1
      <4>1. Order[next] # "ca.crt"
        BY <3>2 DEF Base, AgentTypes
      <4>2. QED BY <1>3, <3>2, <4>1 DEF Made, Base, AgentTypes
    <3>3. QED BY <3>1, <3>2
  <2>3. QED BY <1>1, <1>3, <2>1, <2>2, NoCredYet DEF Made
<1>4. QED BY <1>2, <1>3 DEF Interrupted

LEMMA StartMade ==
    ASSUME Base, Made, Issued, Start PROVE Made' /\ Issued'
<1> USE FileOrder
<1>1. cred' = cred /\ disk' = disk /\ run = "down"
  BY DEF Start, client
<1>2. CASE Exists
  BY <1>1, <1>2 DEF Start, Exists, Made, Issued
<1>3. CASE ~Exists
  <2>1. /\ run' = "write" /\ gen' = gen + 1 /\ gen' # Absent /\ next' = 1
        /\ disk["ca.crt"] = Absent
    BY <1>1, <1>3 DEF Start, Exists, Base, AgentTypes, Absent
  <2>2. Made'
    BY <1>1, <2>1 DEF Made
  <2>3. QED BY <1>1, <2>1, <2>2, NoCredYet
<1>4. QED BY <1>2, <1>3

LEMMA WriteMade ==
    ASSUME Base, Made, Issued, WriteFile PROVE Made' /\ Issued'
<1> USE FileOrder
<1>1. /\ run = "write" /\ gen' = gen /\ cred' = cred /\ run' \in {"load", "write"}
      /\ disk' = [disk EXCEPT ![Order[next]] = gen] /\ next \in 1..4 /\ gen # Absent
  BY DEF WriteFile, client, Base, AgentTypes, Made
<1>2. Issued'
  BY <1>1, NoCredYet
<1>3. \A f \in AgentFiles : disk'[f] \in {Absent, Cut, gen}
  BY <1>1 DEF Made, Base, AgentTypes
<1>4. disk'["ca.crt"] = gen
  <2>1. CASE next = 1
    BY <1>1, <2>1 DEF Base, AgentTypes
  <2>2. CASE next # 1
    <3>1. Order[next] # "ca.crt"
      BY <1>1, <2>2
    <3>2. QED BY <1>1, <2>2, <3>1 DEF Made, Base, AgentTypes
  <2>3. QED BY <2>1, <2>2
<1>5. run' = "write" => next' # 1
  BY <1>1 DEF WriteFile, LastFile
<1>6. QED BY <1>1, <1>2, <1>3, <1>4, <1>5 DEF Made

LEMMA LoadMade ==
    ASSUME Base, Made, Issued, Load PROVE Made' /\ Issued'
<1> USE FileOrder
<1>1. /\ run = "load" /\ run' = "up" /\ UNCHANGED <<disk, gen, sans, cred>>
      /\ serving' = [pool |-> disk["ca.crt"], cert |-> disk["server.crt"], names |-> sans]
  BY DEF Load, client
<1>2. disk["ca.crt"] = gen /\ disk["server.crt"] = gen
  BY DEF Load, Loads, Made
<1>3. QED BY <1>1, <1>2 DEF Made, Issued

LEMMA EnrolMade ==
    ASSUME Base, Made, Issued, NEW c \in Clients, NEW p \in known, NEW e \in Names, Enrol(c, p, e)
    PROVE  Made' /\ Issued'
<1> USE FileOrder
<1>1. run = "up" /\ UNCHANGED <<disk, gen, run, next, sans, serving>>
  BY DEF Enrol, agent
<1>2. Made'
  BY <1>1 DEF Made
<1>3. CASE p \in Presented /\ Signs
  <2>1. disk["ca.key"] = gen /\ disk["ca.crt"] # Absent
    BY <1>3 DEF Signs, Made
  <2>2. cred' = [cred EXCEPT ![c][try[c] + 1] = gen]
    BY <1>3, <2>1 DEF Enrol
  <2>3. \A d \in Clients, n \in 1..MaxTries : cred'[d][n] \in {cred[d][n], gen}
    BY <2>2 DEF Base, ClientTypes
  <2>4. QED BY <1>1, <1>2, <2>1, <2>3 DEF Issued
<1>4. CASE ~(p \in Presented /\ Signs)
  <2>1. cred' = cred
    BY <1>4 DEF Enrol
  <2>2. QED BY <1>1, <1>2, <2>1 DEF Issued
<1>5. QED BY <1>3, <1>4

LEMMA NextUntouched == Base /\ Untouched /\ [Next]_vars => Untouched'
<1> SUFFICES ASSUME Base, Untouched, [Next]_vars, ~removed' PROVE Made' /\ Issued'
  BY DEF Untouched
<1>1. ~removed /\ \A f \in AgentFiles : ~Remove(f)
  <2>1. ASSUME NEW k, Fault(k) PROVE ~removed /\ k # "remove"
    BY <2>1 DEF Fault, Base, MishapTypes
  <2>2. \A f \in AgentFiles : ~Remove(f)
    BY <2>1 DEF Remove
  <2>3. (\E k : Fault(k)) \/ UNCHANGED mishaps
    BY DEF Next, AgentNext, ClientNext, Start, WriteFile, Load, LoadFails, WriteFails,
       Crash, Stop, Remove, Readdress, Enrol, WriteCred, WriteCredFails, vars
  <2>4. QED BY <2>1, <2>2, <2>3 DEF mishaps
<1>2. Made /\ Issued
  BY <1>1 DEF Untouched
<1>3. CASE Start \/ WriteFile \/ Load
  BY <1>2, <1>3, StartMade, WriteMade, LoadMade
<1>4. CASE LoadFails \/ Stop \/ WriteFails \/ Crash
  BY <1>2, <1>4, EndsMade DEF LoadFails, Stop, WriteFails, Crash, Interrupted
<1>5. ASSUME NEW c \in Clients, NEW p \in known, NEW e \in Names, Enrol(c, p, e)
      PROVE  Made' /\ Issued'
  BY <1>2, <1>5, EnrolMade
<1>6. ASSUME UNCHANGED <<agent, cred>> PROVE Made' /\ Issued'
  BY <1>2, <1>6 DEF agent, Made, Issued
<1>7. ASSUME NEW c \in Clients, NEW f \in ClientFiles, WriteCred(c, f) \/ WriteCredFails(c, f)
      PROVE  Made' /\ Issued'
  BY <1>6, <1>7 DEF WriteCred, WriteCredFails
<1>8. CASE Readdress \/ UNCHANGED vars
  BY <1>6, <1>8 DEF Readdress, vars, client
<1>9. QED
  BY <1>1, <1>3, <1>4, <1>5, <1>7, <1>8 DEF Next, AgentNext, ClientNext

-----------------------------------------------------------------------------
(* The client's files. *)

LEMMA StillKept ==
    ASSUME NEW d \in Clients, KeptBy(d), UNCHANGED <<try[d], says[d], todo[d], cred[d], dir[d]>>
    PROVE  KeptBy(d)'
BY DEF KeptBy

LEMMA EnrolKept ==
    ASSUME Base, Kept, NEW c \in Clients, NEW p \in known, NEW e \in Names, Enrol(c, p, e)
    PROVE  Kept'
<1>1. \A d \in Clients \ {c} : UNCHANGED <<try[d], says[d], todo[d], cred[d], dir[d]>>
  BY DEF Enrol, Base, ClientTypes
<1>2. \A d \in Clients \ {c} : KeptBy(d)'
  BY <1>1, StillKept DEF Kept
<1>3. try'[c] = try[c] + 1 /\ try'[c] \in 1..MaxTries /\ todo[c] = {}
  <2>1. try[c] \in 0..MaxTries /\ try[c] < MaxTries /\ todo[c] = {} /\ try'[c] = try[c] + 1
    BY DEF Enrol, Base, ClientTypes
  <2>2. QED BY <2>1, BoundsAssumption
<1>4. KeptBy(c)'
  <2>1. CASE p \in Presented /\ Signs
    <3>1. todo'[c] = ClientFiles /\ says'[c] = ""
      BY <2>1 DEF Enrol, Base, ClientTypes
    <3>2. disk["ca.key"] # 0
      BY <2>1 DEF Signs, Absent
    <3>3. cred' = [cred EXCEPT ![c][try[c] + 1] = disk["ca.key"]]
      BY <2>1 DEF Enrol
    <3>4. cred'[c][try[c] + 1] = disk["ca.key"]
      <4>1. cred[c] \in [1..MaxTries -> 0..gen]
        BY DEF Base, ClientTypes
      <4>2. cred'[c] = [cred[c] EXCEPT ![try[c] + 1] = disk["ca.key"]]
        BY <3>3 DEF Base, ClientTypes
      <4>3. QED BY <1>3, <4>1, <4>2
    <3>5. QED BY <1>3, <3>1, <3>2, <3>4 DEF KeptBy
  <2>2. CASE ~(p \in Presented /\ Signs)
    <3>1. todo'[c] = {} /\ says'[c] \in {"error", "mismatch"}
      BY <1>3, <2>2 DEF Enrol, Base, ClientTypes
    <3>2. QED BY <3>1 DEF KeptBy
  <2>3. QED BY <2>1, <2>2
<1>5. QED BY <1>2, <1>4 DEF Kept

LEMMA WriteKept ==
    ASSUME Base, Kept, NEW c \in Clients, NEW f \in ClientFiles, WriteCred(c, f)
    PROVE  Kept'
<1>1. \A d \in Clients \ {c} : UNCHANGED <<try[d], says[d], todo[d], cred[d], dir[d]>>
  BY DEF WriteCred, Base, ClientTypes
<1>2. /\ f \in todo[c] /\ todo'[c] = todo[c] \ {f} /\ UNCHANGED <<try, cred>>
      /\ says'[c] = IF todo[c] = {f} THEN "successful" ELSE says[c]
      /\ todo[c] \subseteq ClientFiles
  BY DEF WriteCred, Base, ClientTypes
<1>3. says[c] = "" /\ try[c] \in 1..MaxTries /\ cred[c][try[c]] # 0
      /\ \A g \in ClientFiles \ todo[c] : dir[c][g] = try[c]
  BY <1>2 DEF Kept, KeptBy
<1>4. dir'[c][f] = try[c] /\ \A g \in ClientFiles \ {f} : dir'[c][g] = dir[c][g]
  <2>1. dir[c] \in [ClientFiles -> {Cut} \cup 0..MaxTries]
    BY DEF Base, ClientTypes
  <2>2. dir'[c] = [dir[c] EXCEPT ![f] = try[c]]
    BY DEF WriteCred, Base, ClientTypes
  <2>3. QED BY <2>1, <2>2
<1>5. \A g \in ClientFiles \ todo'[c] : dir'[c][g] = try[c]
  BY <1>2, <1>3, <1>4
<1>6. says'[c] = "successful" => todo'[c] = {}
  BY <1>2, <1>3
<1>7. todo'[c] # {} => says'[c] = ""
  BY <1>2, <1>3
<1>8. KeptBy(c)'
  BY <1>2, <1>3, <1>5, <1>6, <1>7 DEF KeptBy
<1>9. QED BY <1>1, <1>8, StillKept DEF Kept

LEMMA FailKept ==
    ASSUME Base, Kept, NEW c \in Clients, NEW f \in ClientFiles, WriteCredFails(c, f)
    PROVE  Kept'
<1>1. \A d \in Clients \ {c} : UNCHANGED <<try[d], says[d], todo[d], cred[d], dir[d]>>
  BY DEF WriteCredFails, Base, ClientTypes
<1>2. todo'[c] = {} /\ says'[c] = "error"
  BY DEF WriteCredFails, Base, ClientTypes
<1>3. KeptBy(c)'
  BY <1>2 DEF KeptBy
<1>4. QED BY <1>1, <1>3, StillKept DEF Kept

LEMMA NextKept == Base /\ Kept /\ [Next]_vars => Kept'
<1> SUFFICES ASSUME Base, Kept, [Next]_vars PROVE Kept'
  OBVIOUS
<1>1. ASSUME UNCHANGED client PROVE Kept'
  BY <1>1, StillKept DEF client, Kept
<1>2. CASE AgentNext \/ Readdress \/ UNCHANGED vars
  BY <1>1, <1>2 DEF AgentNext, Readdress, Start, WriteFile, Load, LoadFails, WriteFails, Crash, Stop, Remove,
     Ends, vars
<1>3. QED
  BY <1>2, EnrolKept, WriteKept, FailKept DEF Next, ClientNext

Together == Base /\ Untouched /\ Kept

LEMMA TogetherInvariant == Spec => []Together
<1>1. Init => Together
  BY InitBase, InitUntouched DEF Together
<1>2. Together /\ [Next]_vars => Together'
  BY NextBase, NextUntouched, NextKept DEF Together
<1>3. QED BY <1>1, <1>2, PTL DEF Spec

\* As long as nobody removes the agent's files, a client that was told "Bootstrap
\* successful" and still reaches the node can connect whenever the agent serves, if
\* and only if the server certificate was made with the name it was enrolled through:
\* the key material always fits, the name need not (pki.go, cmd_bootstrap.go,
\* client.go).
THEOREM EnrolledCanConnect == Spec => []EnrolledConnects
<1>1. Together => EnrolledConnects
  <2> SUFFICES ASSUME Together, ~removed, NEW c \in Clients, says[c] = "successful", run = "up"
               PROVE  Connects(c) <=> via[c] \in sans
    BY DEF EnrolledConnects
  <2>1. try[c] \in 1..MaxTries /\ cred[c][try[c]] # 0 /\ \A f \in ClientFiles : dir[c][f] = try[c]
    BY DEF Together, Kept, KeptBy
  <2>2. /\ cred[c][try[c]] = gen
        /\ serving.pool = gen /\ serving.cert = gen /\ serving.names = sans
    BY <2>1 DEF Together, Untouched, Issued, Made
  <2>3. try[c] # Absent /\ try[c] # Cut
    BY <2>1, BoundsAssumption DEF Absent, Cut
  <2>4. QED BY <2>1, <2>2, <2>3 DEF Connects, ClientFiles
<1>2. QED BY <1>1, TogetherInvariant, PTL

-----------------------------------------------------------------------------
(* With files removed, too. *)

\* While the agent serves, ca.crt is the one it serves with, or gone.
Serves == run = "up" => disk["ca.crt"] \in {Absent, serving.pool}

LEMMA NextServes == Base /\ Serves /\ [Next]_vars => Serves'
<1> SUFFICES ASSUME Base, Serves, [Next]_vars, run' = "up" PROVE Serves'
  BY DEF Serves
<1>1. CASE Load
  BY <1>1 DEF Load, Serves
<1>2. ASSUME NEW f \in AgentFiles, Remove(f) PROVE Serves'
  BY <1>2, FileOrder DEF Remove, Serves, Base, AgentTypes
<1>3. ASSUME UNCHANGED agent PROVE Serves'
  BY <1>3 DEF agent, Serves
<1>4. QED
  BY <1>1, <1>2, <1>3 DEF Next, AgentNext, ClientNext, Start, WriteFile, LoadFails, WriteFails,
     Crash, Stop, Ends, Readdress, Enrol, WriteCred, WriteCredFails, vars

\* Even if files were removed and half made anew, a run of the agent issues no
\* certificate that it would not accept itself (pki.go SignCSR).
THEOREM IssuesAccepted == Spec => IssuesWhatItAccepts
<1> DEFINE Step == \A c \in Clients, n \in 1..MaxTries :
                       cred'[c][n] # cred[c][n] => cred'[c][n] = serving.pool
<1>1. Init => Serves
  BY DEF Init, Serves
<1>2. Base /\ Serves /\ [Next]_vars => [Step]_vars
  <2> SUFFICES ASSUME Base, Serves, [Next]_vars, NEW c \in Clients, NEW n \in 1..MaxTries,
                      cred'[c][n] # cred[c][n]
               PROVE  cred'[c][n] = serving.pool
    OBVIOUS
  <2>1. PICK d \in Clients, p \in known, e \in Names : Enrol(d, p, e)
    BY DEF Next, AgentNext, ClientNext, Start, WriteFile, Load, LoadFails, WriteFails, Crash,
       Stop, Remove, Ends, Readdress, WriteCred, WriteCredFails, vars, client
  <2>2. Signs /\ run = "up" /\ cred' = [cred EXCEPT ![d][try[d] + 1] = disk["ca.key"]]
    BY <2>1 DEF Enrol
  <2>3. disk["ca.key"] = serving.pool
    BY <2>2 DEF Signs, Serves
  <2>4. cred'[c][n] \in {cred[c][n], disk["ca.key"]}
    BY <2>2 DEF Base, ClientTypes
  <2>5. QED BY <2>3, <2>4
<1>3. QED
  BY <1>1, <1>2, InitBase, NextBase, NextServes, PTL DEF Spec, IssuesWhatItAccepts
=============================================================================
