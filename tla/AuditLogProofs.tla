--------------------------- MODULE AuditLogProofs ---------------------------
(***************************************************************************)
(* Proofs about AuditLog, for every value of its constants: every number   *)
(* of files and every combination of faults.                               *)
(***************************************************************************)
EXTENDS AuditLog, SequenceTheorems, FiniteSetTheorems, WellFoundedInduction, TLAPS

\* A set of numbers that is not empty has a least element.
LEMMA SmallestOf ==
    ASSUME NEW T, T \subseteq Nat, T # {}
    PROVE  \E x \in T : \A y \in T : x <= y
<1>1. PICK x \in T : \A y \in T : ~ (<<y, x>> \in OpToRel(<, Nat))
  BY WFMin, NatLessThanWellFounded
<1>2. \A y \in T : <<y, x>> \in OpToRel(<, Nat) <=> y < x
  BY SMT DEF OpToRel
<1>3. \A y \in T : ~ (y < x)
  BY <1>1, <1>2, Zenon
<1>4. \A y \in T : x <= y
  BY <1>3, SMT
<1>5. QED BY <1>4

\* A set of numbers up to m that is not empty has a greatest element.
LEMMA LargestOf ==
    ASSUME NEW m \in Nat, NEW T, T \subseteq 1..m, T # {}
    PROVE  \E x \in T : \A y \in T : y <= x
<1> DEFINE U == {m - x : x \in T}
<1>1. U \subseteq Nat
  OBVIOUS
<1>2. U # {}
  OBVIOUS
<1> HIDE DEF U
<1>3. PICK u \in U : \A v \in U : u <= v
  BY <1>1, <1>2, SmallestOf
<1>4. PICK x \in T : u = m - x
  BY DEF U
<1>5. \A y \in T : m - y \in U
  BY DEF U
<1>6. \A y \in T : m - x <= m - y
  BY <1>3, <1>4, <1>5
<1>7. QED BY <1>6

-----------------------------------------------------------------------------
(* Type correctness. *)

\* A restart begins the chain at genesis or at the hash of an event in the file.
LEMMA ReadLastHashType ==
    ASSUME NEW f \in Seq(Chunk)
    PROVE  ReadLastHash(f) \in Nat
<1> DEFINE seen == {k \in 1..Len(f) : /\ Size(SubSeq(f, k, Len(f))) <= Window
                                      /\ Readable(f, k)}
<1>1. CASE seen = {}
  BY <1>1 DEF ReadLastHash
<1>2. CASE seen # {}
  <2> DEFINE k == CHOOSE k \in seen : \A j \in seen : j <= k
  <2>1. seen \subseteq 1..Len(f) /\ Len(f) \in Nat
    OBVIOUS
  <2> HIDE DEF seen
  <2>2. k \in seen
    BY <1>2, <2>1, LargestOf
  <2>3. k \in 1..Len(f)
    BY <2>1, <2>2
  <2> HIDE DEF k
  <2>4a. f[k] \in Chunk
    BY <2>3, ElementOfSeq
  <2>4. f[k].id \in Nat
    BY <2>4a DEF Chunk
  <2>5. ReadLastHash(f) = f[k].id
    BY <1>2 DEF ReadLastHash, seen, k
  <2>6. QED BY <2>4, <2>5
<1>3. QED BY <1>1, <1>2

\* What a rename leaves are files again.
LEMMA ShiftedType ==
    ASSUME log \in [Files -> Seq(Chunk)], NEW f \in 0..(Keep - 1)
    PROVE  Shifted(f) \in [Files -> Seq(Chunk)]
<1>1. f \in Files /\ f + 1 \in Files
  BY KeepAssumption DEF Files
<1>2. <<>> \in Seq(Chunk)
  OBVIOUS
<1>3. QED BY <1>1, <1>2 DEF Shifted

\* What a Write leaves is a chunk, and the files are files again.
LEMMA WriteType ==
    ASSUME TypeOK, cur \in Chunk
    PROVE  /\ Parts \subseteq Chunk
           /\ \A c \in Chunk : Appended(c) \in [Files -> Seq(Chunk)]
<1>1. Parts \subseteq Chunk
  <2>1. [cur EXCEPT !.form = "bare"] \in Chunk
    BY DEF Chunk
  <2>2. ASSUME NEW s \in 1..cur.size
        PROVE  [cur EXCEPT !.form = "torn", !.size = s] \in Chunk
    <3>1. s \in Nat \ {0}
      BY DEF Chunk
    <3>2. QED BY <3>1 DEF Chunk
  <2>3. QED BY <2>1, <2>2 DEF Parts
<1>2. 0 \in Files
  BY KeepAssumption DEF Files
<1>3. ASSUME NEW c \in Chunk PROVE Appended(c) \in [Files -> Seq(Chunk)]
  <2>1. Append(log[0], c) \in Seq(Chunk)
    BY <1>2, AppendProperties DEF TypeOK
  <2>2. QED BY <1>2, <2>1 DEF TypeOK, Appended
<1>4. QED BY <1>1, <1>3

\* The call in flight: pc and cur agree, cur is a whole line and the last event
\* stamped, and a rename is of a file that has a successor.
InFlight == pc \in {"rename", "expire", "reopen", "write"}

CallOK ==
    /\ InFlight => cur \in Chunk /\ cur.id = n
    /\ pc = "rename" => ri \in 0..(Keep - 1)

Typed == TypeOK /\ CallOK

\* The files and the memory are typed at the start.
LEMMA InitTyped == Init => Typed
BY KeepAssumption DEF Init, Typed, TypeOK, CallOK, InFlight, Files, NoEvent

\* Every step keeps the types.
LEMMA NextTyped == Typed /\ [Next]_vars => Typed'
<1> SUFFICES ASSUME Typed, [Next]_vars PROVE Typed'
  OBVIOUS
<1> USE DEF Typed
<1>0. 0 \in Files
  BY KeepAssumption DEF Files
<1>a. CASE Start
  <2>1. ReadLastHash(log[0]) \in Nat
    BY <1>0, ReadLastHashType DEF TypeOK
  <2>2. QED BY <1>a, <2>1 DEF Start, TypeOK, CallOK, InFlight
<1>b. CASE StartFails
  BY <1>b DEF StartFails, TypeOK, CallOK, InFlight
<1>c. ASSUME NEW s \in Sizes, LogBegin(s) PROVE Typed'
  <2>1. s \in Nat \ {0} /\ OldestShift \in 0..(Keep - 1) /\ OldestShift \in 0..Keep
    BY SizesAssumption, KeepAssumption DEF OldestShift
  <2>2. cur' \in Chunk /\ cur'.id = n'
    BY <1>c, <2>1 DEF LogBegin, TypeOK, Chunk
  <2>3. TypeOK'
    <3>1. log' \in [Files -> Seq(Chunk)] /\ keyFile' \in Nat /\ key' \in Nat /\ boot' \in Nat
      BY <1>c DEF LogBegin, TypeOK
    <3>2. n' \in Nat /\ prev' \in Nat
      BY <1>c DEF LogBegin, TypeOK
    <3>3. open' \in BOOLEAN /\ pc' \in {"rename", "write"}
      BY <1>c DEF LogBegin, TypeOK
    <3>4. ri' \in 0..Keep
      BY <1>c, <2>1 DEF LogBegin, TypeOK
    <3>5. QED BY <2>2, <3>1, <3>2, <3>3, <3>4 DEF TypeOK
  <2>4. CallOK'
    BY <1>c, <2>1, <2>2 DEF LogBegin, CallOK, InFlight
  <2>5. QED BY <2>3, <2>4
<1>d. CASE Rename
  <2>1. ri \in 0..(Keep - 1)
    BY <1>d DEF Rename, CallOK
  <2>2. log' \in [Files -> Seq(Chunk)]
    BY <1>d, <2>1, ShiftedType DEF Rename, TypeOK
  <2>3. CASE ri > 0
    BY <1>d, <2>1, <2>2, <2>3, KeepAssumption DEF Rename, TypeOK, CallOK, InFlight
  <2>4. CASE ~(ri > 0)
    BY <1>d, <2>2, <2>4, KeepAssumption
       DEF Rename, AfterRenames, TypeOK, CallOK, InFlight, Files
  <2>5. QED BY <2>3, <2>4
<1>e. CASE Expire
  <2> <<>> \in Seq(Chunk)
    OBVIOUS
  <2>1. log' \in [Files -> Seq(Chunk)]
    BY <1>e DEF Expire, TypeOK
  <2>2. QED BY <1>e, <2>1, KeepAssumption DEF Expire, TypeOK, CallOK, InFlight
<1>f. CASE Reopen
  BY <1>f DEF Reopen, TypeOK, CallOK, InFlight
<1>g. CASE Write
  <2>1. log' \in [Files -> Seq(Chunk)]
    BY <1>g, WriteType DEF Write, CallOK, InFlight, TypeOK
  <2>2. QED BY <1>g, <2>1 DEF Write, TypeOK, CallOK, InFlight
<1>h. CASE Close
  BY <1>h DEF Close, TypeOK, CallOK, InFlight
<1>i. ASSUME Down, log' \in [Files -> Seq(Chunk)] PROVE Typed'
  <2>1. TypeOK'
    <3>1. pc' = "down" /\ open' = FALSE /\ prev' = 0 /\ key' = 0 /\ cur' = NoEvent
          /\ ri' = 0 /\ keyFile' = keyFile /\ n' = n /\ boot' = boot
      BY <1>i DEF Down
    <3>2. ri' \in 0..Keep
      BY <3>1, KeepAssumption
    <3>3. prev' \in Nat /\ key' \in Nat /\ keyFile' \in Nat /\ n' \in Nat /\ boot' \in Nat
      BY <3>1 DEF TypeOK
    <3>4. open' \in BOOLEAN
      BY <3>1
    <3>5. QED BY <1>i, <3>1, <3>2, <3>3, <3>4 DEF TypeOK
  <2>2. CallOK'
    BY <1>i DEF Down, CallOK, InFlight
  <2>3. QED BY <2>1, <2>2
<1>j. CASE Exit
  BY <1>i, <1>j DEF Exit, TypeOK
<1>k. CASE Crash
  <2>1. ASSUME log' = log PROVE log' \in [Files -> Seq(Chunk)]
    BY <2>1 DEF TypeOK
  <2>2. ASSUME pc = "write", \E c \in Parts : log' = Appended(c)
        PROVE  log' \in [Files -> Seq(Chunk)]
    BY <2>2, WriteType DEF CallOK, InFlight
  <2>3. log' \in [Files -> Seq(Chunk)]
    BY <1>k, <2>1, <2>2 DEF Crash
  <2>4. QED BY <1>i, <1>k, <2>3 DEF Crash
<1>l. CASE PowerLoss
  <2>1. PICK k \in 0..Len(log[0]) : log' = [log EXCEPT ![0] = SubSeq(@, 1, k)]
    BY <1>l DEF PowerLoss
  <2>2. log[0] \in Seq(Chunk)
    BY <1>0 DEF TypeOK
  <2>3. SubSeq(log[0], 1, k) \in Seq(Chunk)
    BY <2>2, ElementOfSeq, SubSeqProperties
  <2>4. log' \in [Files -> Seq(Chunk)]
    BY <1>0, <2>1, <2>3 DEF TypeOK
  <2>5. QED BY <1>i, <1>l, <2>4 DEF PowerLoss
<1>m. CASE UNCHANGED vars
  BY <1>m DEF vars, TypeOK, CallOK, InFlight
<1>n. QED
  BY <1>a, <1>b, <1>c, <1>d, <1>e, <1>f, <1>g, <1>h, <1>j, <1>k, <1>l, <1>m DEF Next

\* The types hold in every state of every behaviour, whatever fails.
THEOREM TypeCorrect == Spec => []TypeOK
<1>1. Typed => TypeOK
  BY DEF Typed
<1>2. QED
  BY InitTyped, NextTyped, <1>1, PTL DEF Spec

-----------------------------------------------------------------------------
(* Order. *)

\* The files L hold events in the order of their numbers, all below m.
Below(s, m) == \A k \in 1..Len(s) : s[k].id < m

Ordered(L, m) ==
    /\ \A f \in Files : Increasing(L[f]) /\ Below(L[f], m)
    /\ \A f, g \in Files : g < f => Before(L[f], L[g])

\* The event in flight is newer than all that is on disk.
OrderInv == Typed /\ Ordered(log, IF InFlight THEN n ELSE n + 1)

\* The number of a stored chunk, or of the call in flight, is a number.
LEMMA IdIsNat ==
    ASSUME NEW L \in [Files -> Seq(Chunk)]
    PROVE  \A f \in Files : \A i \in 1..Len(L[f]) : L[f][i].id \in Nat
<1> SUFFICES ASSUME NEW f \in Files, NEW i \in 1..Len(L[f]) PROVE L[f][i].id \in Nat
  OBVIOUS
<1>1. L[f][i] \in Chunk
  BY ElementOfSeq
<1>2. QED BY <1>1 DEF Chunk

\* A bound on the numbers can be raised.
LEMMA RaiseBound ==
    ASSUME NEW L \in [Files -> Seq(Chunk)], NEW m \in Nat, Ordered(L, m)
    PROVE  Ordered(L, m + 1)
<1>1. \A f \in Files : Below(L[f], m + 1)
  BY IdIsNat DEF Ordered, Below
<1>2. QED BY <1>1 DEF Ordered

\* The empty file is in order, and in order with any other.
LEMMA EmptyOrdered ==
    /\ Increasing(<<>>) /\ \A m : Below(<<>>, m)
    /\ \A s : Before(s, <<>>) /\ Before(<<>>, s)
BY DEF Increasing, Below, Before

\* Emptying a file keeps the order.
LEMMA DropOrdered ==
    ASSUME NEW L \in [Files -> Seq(Chunk)], NEW m, NEW f \in Files, Ordered(L, m)
    PROVE  Ordered([L EXCEPT ![f] = <<>>], m)
BY EmptyOrdered DEF Ordered

\* So does giving a file the name of its successor.
LEMMA ShiftOrdered ==
    ASSUME NEW L \in [Files -> Seq(Chunk)], NEW m, NEW f \in 0..(Keep - 1), Ordered(L, m)
    PROVE  Ordered([L EXCEPT ![f + 1] = L[f], ![f] = <<>>], m)
<1> DEFINE M == [L EXCEPT ![f + 1] = L[f], ![f] = <<>>]
<1>1. f \in Files /\ f + 1 \in Files /\ f + 1 # f
  BY KeepAssumption DEF Files
<1>2. /\ M[f + 1] = L[f] /\ M[f] = <<>>
      /\ \A g \in Files : g # f /\ g # f + 1 => M[g] = L[g]
  BY <1>1
<1> HIDE DEF M
<1>3. \A g \in Files : Increasing(M[g]) /\ Below(M[g], m)
  BY <1>1, <1>2, EmptyOrdered DEF Ordered
<1>4. ASSUME NEW g \in Files, NEW h \in Files, h < g PROVE Before(M[g], M[h])
  <2>1. CASE g = f \/ h = f
    BY <1>2, <2>1, EmptyOrdered
  <2>2. CASE g = f + 1 /\ h # f
    <3>1. h < f
      BY <1>4, <2>2, KeepAssumption DEF Files
    <3>2. QED BY <1>1, <1>2, <2>2, <3>1 DEF Ordered
  <2>3. CASE h = f + 1 /\ g # f
    <3>1. f < g
      BY <1>4, <2>3, KeepAssumption DEF Files
    <3>2. g # f + 1
      BY <1>4, <2>3, KeepAssumption DEF Files
    <3>3. QED BY <1>1, <1>2, <2>3, <3>1, <3>2 DEF Ordered
  <2>4. CASE g # f /\ h # f /\ g # f + 1 /\ h # f + 1
    BY <1>2, <1>4, <2>4 DEF Ordered
  <2>5. QED BY <2>1, <2>2, <2>3, <2>4
<1>5. QED BY <1>3, <1>4 DEF Ordered, M

\* So does losing the end of audit.log.
LEMMA PrefixOrdered ==
    ASSUME NEW L \in [Files -> Seq(Chunk)], NEW m, NEW k \in 0..Len(L[0]), Ordered(L, m)
    PROVE  Ordered([L EXCEPT ![0] = SubSeq(@, 1, k)], m)
<1> DEFINE s == SubSeq(L[0], 1, k)
<1>1. 0 \in Files
  BY KeepAssumption DEF Files
<1>2. L[0] \in Seq(Chunk)
  BY <1>1
<1>3. Len(s) = k /\ k <= Len(L[0]) /\ k \in Nat /\ \A i \in 1..k : s[i] = L[0][i]
  BY <1>2
<1>4. Increasing(L[0]) /\ Below(L[0], m)
  BY <1>1 DEF Ordered
<1> HIDE DEF s
<1>5. 1..k \subseteq 1..Len(L[0])
  BY <1>2, <1>3
<1>6. Increasing(s) /\ Below(s, m)
  BY <1>3, <1>4, <1>5 DEF Increasing, Below
<1>7. ASSUME NEW t, Before(t, L[0]) PROVE Before(t, s)
  BY <1>3, <1>5, <1>7 DEF Before
<1>8. QED
  <2>1. [L EXCEPT ![0] = SubSeq(@, 1, k)] = [L EXCEPT ![0] = s]
    BY DEF s
  <2>2. \A g \in Files : 0 < g => Before(L[g], s)
    BY <1>1, <1>7 DEF Ordered
  <2>3. \A g \in Files : ~(g < 0)
    BY DEF Files
  <2>4. QED BY <1>1, <1>6, <2>1, <2>2, <2>3 DEF Ordered

\* And so does appending to audit.log a chunk newer than everything.
LEMMA AppendOrdered ==
    ASSUME NEW L \in [Files -> Seq(Chunk)], NEW c \in Chunk, Ordered(L, c.id)
    PROVE  Ordered([L EXCEPT ![0] = Append(@, c)], c.id + 1)
<1> DEFINE s == Append(L[0], c)
<1>1. 0 \in Files
  BY KeepAssumption DEF Files
<1>2. L[0] \in Seq(Chunk) /\ Len(L[0]) \in Nat
  BY <1>1
<1>3. /\ Len(s) = Len(L[0]) + 1 /\ s[Len(s)] = c
      /\ \A i \in 1..Len(L[0]) : s[i] = L[0][i]
  BY <1>2
<1>4. Increasing(L[0]) /\ Below(L[0], c.id)
  BY <1>1 DEF Ordered
<1>a. \A f \in Files : \A i \in 1..Len(L[f]) : L[f][i].id \in Nat
  BY IdIsNat
<1>b. c.id \in Nat
  BY DEF Chunk
<1> HIDE DEF s
<1>5. \A i \in 1..Len(s) : i \in 1..Len(L[0]) \/ i = Len(s)
  BY <1>2, <1>3
<1>6. Increasing(s)
  <2> SUFFICES ASSUME NEW j \in 1..Len(s), NEW k \in 1..Len(s), j < k
               PROVE  s[j].id < s[k].id
    BY DEF Increasing
  <2>1. j \in 1..Len(L[0])
    BY <1>2, <1>3
  <2>2. CASE k \in 1..Len(L[0])
    BY <1>3, <1>4, <2>1, <2>2 DEF Increasing
  <2>3. CASE k = Len(s)
    BY <1>3, <1>4, <2>1, <2>3 DEF Below
  <2>4. QED BY <1>5, <2>2, <2>3
<1>7. \A f \in Files : Below(L[f], c.id + 1)
  BY <1>a, <1>b DEF Ordered, Below
<1>8. Below(s, c.id + 1)
  <2> SUFFICES ASSUME NEW k \in 1..Len(s) PROVE s[k].id < c.id + 1
    BY DEF Below
  <2>1. CASE k \in 1..Len(L[0])
    BY <1>1, <1>3, <1>7, <2>1 DEF Below
  <2>2. CASE k = Len(s)
    BY <1>3, <1>b, <2>2
  <2>3. QED BY <1>5, <2>1, <2>2
<1>9. ASSUME NEW g \in Files, 0 < g PROVE Before(L[g], s)
  <2> SUFFICES ASSUME NEW j \in 1..Len(L[g]), NEW k \in 1..Len(s)
               PROVE  L[g][j].id < s[k].id
    BY DEF Before
  <2>1. CASE k \in 1..Len(L[0])
    BY <1>1, <1>3, <1>9, <2>1 DEF Ordered, Before
  <2>2. CASE k = Len(s)
    BY <1>3, <2>2 DEF Ordered, Below
  <2>3. QED BY <1>5, <2>1, <2>2
<1>10. QED
  <2>1. [L EXCEPT ![0] = Append(@, c)] = [L EXCEPT ![0] = s]
    BY DEF s
  <2>2. \A g \in Files : ~(g < 0)
    BY DEF Files
  <2>3. QED BY <1>1, <1>6, <1>7, <1>8, <1>9, <2>1, <2>2 DEF Ordered

\* The order of the trail holds at the start.
LEMMA InitOrder == Init => OrderInv
<1> SUFFICES ASSUME Init PROVE OrderInv
  OBVIOUS
<1>1. \A f \in Files : log[f] = <<>>
  BY DEF Init
<1>2. \A m : Ordered(log, m)
  BY <1>1, EmptyOrdered DEF Ordered
<1>3. QED BY <1>2, InitTyped DEF OrderInv

\* Every step keeps the order.  Only Write and the crash that cuts it add a
\* chunk, and cur is newer than every other; everything else moves whole files
\* to a free name or takes something away.
LEMMA NextOrder == OrderInv /\ [Next]_vars => OrderInv'
<1> SUFFICES ASSUME OrderInv, [Next]_vars PROVE OrderInv'
  OBVIOUS
<1> DEFINE Bound == IF InFlight THEN n ELSE n + 1
<1>0. Typed /\ Typed' /\ Ordered(log, Bound) /\ n \in Nat /\ log \in [Files -> Seq(Chunk)]
  BY NextTyped DEF OrderInv, Typed, TypeOK
<1>1. SUFFICES Ordered(log', Bound')
  BY <1>0 DEF OrderInv
<1>2. Ordered(log, n + 1)
  BY <1>0, RaiseBound
<1>a. CASE Start
  BY <1>0, <1>a DEF Start, InFlight
<1>b. CASE StartFails
  BY <1>0, <1>b DEF StartFails, InFlight
<1>c. ASSUME NEW s \in Sizes, LogBegin(s) PROVE Ordered(log', Bound')
  BY <1>0, <1>c DEF LogBegin, InFlight
<1>d. CASE Rename
  <2>1. ri \in 0..(Keep - 1) /\ Bound = n
    BY <1>0, <1>d DEF Rename, Typed, CallOK, InFlight
  <2>2. Bound' = n
    BY <1>d DEF Rename, AfterRenames, InFlight
  <2>3. Ordered(Shifted(ri), n)
    BY <1>0, <2>1, ShiftOrdered DEF Shifted
  <2>4. log' = Shifted(ri) \/ log' = log
    BY <1>d DEF Rename
  <2>5. QED BY <1>0, <2>1, <2>2, <2>3, <2>4
<1>e. CASE Expire
  <2>1. ri \in Files
    BY <1>0 DEF Typed, TypeOK, Files
  <2>2. Bound = n /\ Bound' = n
    BY <1>e DEF Expire, InFlight
  <2>3. Ordered([log EXCEPT ![ri] = <<>>], n)
    BY <1>0, <2>1, <2>2, DropOrdered
  <2>4. QED BY <1>0, <1>e, <2>2, <2>3 DEF Expire
<1>f. CASE Reopen
  BY <1>0, <1>f DEF Reopen, InFlight
<1>g. ASSUME pc = "write", NEW c \in {cur} \cup Parts, log' = Appended(c)
      PROVE  Ordered(log', n + 1)
  <2>1. cur \in Chunk /\ cur.id = n /\ Bound = n
    BY <1>0, <1>g DEF Typed, CallOK, InFlight
  <2>2. c \in Chunk
    BY <1>0, <2>1, WriteType DEF Typed
  <2>3. c.id = n
    BY <1>g, <2>1 DEF Parts, Chunk
  <2>4. QED BY <1>0, <1>g, <2>1, <2>2, <2>3, AppendOrdered DEF Appended
<1>h. CASE Write
  <2>1. Bound' = n + 1
    BY <1>h DEF Write, InFlight
  <2>2. pc = "write" /\ (log' = log \/ \E c \in {cur} \cup Parts : log' = Appended(c))
    BY <1>h DEF Write
  <2>3. QED BY <1>2, <1>g, <2>1, <2>2
<1>i. CASE Close
  BY <1>0, <1>i DEF Close, InFlight
<1>j. ASSUME Down PROVE Bound' = n + 1
  BY <1>j DEF Down, InFlight
<1>k. CASE Exit
  BY <1>2, <1>j, <1>k DEF Exit
<1>l. CASE Crash
  <2>1. log' = log \/ (pc = "write" /\ \E c \in {cur} \cup Parts : log' = Appended(c))
    BY <1>l DEF Crash
  <2>2. QED BY <1>2, <1>g, <1>j, <1>l, <2>1 DEF Crash
<1>m. CASE PowerLoss
  <2>1. PICK k \in 0..Len(log[0]) : log' = [log EXCEPT ![0] = SubSeq(@, 1, k)]
    BY <1>m DEF PowerLoss
  <2>2. QED BY <1>0, <1>2, <1>j, <1>m, <2>1, PrefixOrdered DEF PowerLoss
<1>n. CASE UNCHANGED vars
  BY <1>0, <1>n DEF vars, InFlight
<1>o. QED
  BY <1>a, <1>b, <1>c, <1>d, <1>e, <1>f, <1>h, <1>i, <1>k, <1>l, <1>m, <1>n DEF Next

\* The trail is in the order of the calls of Log in every reachable state, for
\* any number of files and any combination of crashes and failing operations.
THEOREM OrderKept == Spec => []InOrder
<1>1. OrderInv => InOrder
  BY DEF OrderInv, Ordered, InOrder
<1>2. QED
  BY InitOrder, NextOrder, <1>1, PTL DEF Spec

-----------------------------------------------------------------------------
(* Refinement: while no line is cut and no rename fails, and age removes       *)
(* nothing, the files implement the abstract trail.  Crashes, Writes that fail *)
(* and a failing reopening are allowed.                                        *)

Mild == Faults \cap {"torn", "dir", "power"} = {} /\ ~MaxAge

\* All chunks are whole lines; a file about to be renamed has a free name to
\* move to, the first excepted, which replaces the oldest file.
TrailInv ==
    /\ OrderInv
    /\ \A f \in Files : \A k \in 1..Len(log[f]) : log[f][k].form = "line"
    /\ InFlight => cur.form = "line"
    /\ pc # "expire"
    /\ pc = "rename" /\ ri # Keep - 1 => log[ri + 1] = <<>>

Ids(L) == {e \in Nat : \E f \in Files : \E k \in 1..Len(L[f]) : L[f][k].id = e}

\* The events a reader finds are all those on disk.
LEMMA KeptIsIds == TrailInv => KeptIds = Ids(log)
<1> SUFFICES ASSUME TrailInv PROVE KeptIds = Ids(log)
  OBVIOUS
<1>1. log \in [Files -> Seq(Chunk)]
  BY DEF TrailInv, OrderInv, Typed, TypeOK
<1>2. ASSUME NEW f \in Files, NEW k \in 1..Len(log[f]) PROVE Readable(log[f], k)
  <2>1. log[f][k].form = "line" /\ (k = 1 \/ log[f][k - 1].form = "line")
    BY <1>1, <1>2 DEF TrailInv
  <2>2. QED BY <2>1 DEF Readable, StartsLine
<1>3. \A f \in Files : {i \in 1..Len(log[f]) : Readable(log[f], i)} = 1..Len(log[f])
  BY <1>2
<1>4. KeptIds = UNION {{log[f][k].id : k \in 1..Len(log[f])} : f \in Files}
  BY <1>3 DEF KeptIds
<1>5. QED BY <1>1, <1>4, IdIsNat DEF Ids

\* An append adds one event.
LEMMA AppendIds ==
    ASSUME NEW L \in [Files -> Seq(Chunk)], NEW c \in Chunk
    PROVE  Ids([L EXCEPT ![0] = Append(@, c)]) = Ids(L) \cup {c.id}
<1> DEFINE M == [L EXCEPT ![0] = Append(@, c)]
<1>1. 0 \in Files
  BY KeepAssumption DEF Files
<1>2. L[0] \in Seq(Chunk) /\ Len(L[0]) \in Nat /\ c.id \in Nat
  BY <1>1 DEF Chunk
<1>3. /\ M[0] = Append(L[0], c)
      /\ \A f \in Files : f # 0 => M[f] = L[f]
  BY <1>1
<1>4. /\ Len(M[0]) = Len(L[0]) + 1 /\ M[0][Len(L[0]) + 1] = c
      /\ \A i \in 1..Len(L[0]) : M[0][i] = L[0][i]
  BY <1>2, <1>3
<1> HIDE DEF M
<1>5. ASSUME NEW e \in Ids(M) PROVE e \in Ids(L) \cup {c.id}
  <2>0. PICK f \in Files : \E k \in 1..Len(M[f]) : M[f][k].id = e
    BY DEF Ids
  <2>1. PICK k \in 1..Len(M[f]) : M[f][k].id = e
    BY <2>0
  <2>2. CASE f # 0
    BY <1>3, <2>1, <2>2 DEF Ids
  <2>3. CASE f = 0 /\ k = Len(L[0]) + 1
    BY <1>4, <2>1, <2>3
  <2>4. CASE f = 0 /\ k # Len(L[0]) + 1
    <3>1. k \in 1..Len(L[0])
      BY <1>2, <1>4, <2>1, <2>4
    <3>2. QED BY <1>1, <1>4, <2>1, <2>4, <3>1 DEF Ids
  <2>5. QED BY <2>2, <2>3, <2>4
<1>6. ASSUME NEW e \in Ids(L) PROVE e \in Ids(M)
  <2>0. PICK f \in Files : \E k \in 1..Len(L[f]) : L[f][k].id = e
    BY DEF Ids
  <2>1. PICK k \in 1..Len(L[f]) : L[f][k].id = e
    BY <2>0
  <2>2. k \in 1..Len(M[f]) /\ M[f][k].id = e
    <3>1. CASE f # 0
      BY <1>3, <2>1, <3>1
    <3>2. CASE f = 0
      BY <1>2, <1>4, <2>1, <3>2
    <3>3. QED BY <3>1, <3>2
  <2>3. QED BY <2>1, <2>2 DEF Ids
<1>7. c.id \in Ids(M)
  BY <1>1, <1>2, <1>4 DEF Ids
<1>8. QED BY <1>5, <1>6, <1>7 DEF M

\* A rename to a free name loses nothing.
LEMMA ShiftIdsFree ==
    ASSUME NEW L \in [Files -> Seq(Chunk)], NEW f \in 0..(Keep - 1), L[f + 1] = <<>>
    PROVE  Ids([L EXCEPT ![f + 1] = L[f], ![f] = <<>>]) = Ids(L)
<1> DEFINE M == [L EXCEPT ![f + 1] = L[f], ![f] = <<>>]
<1>1. f \in Files /\ f + 1 \in Files /\ f + 1 # f
  BY KeepAssumption DEF Files
<1>2. /\ M[f + 1] = L[f] /\ M[f] = <<>>
      /\ \A g \in Files : g # f /\ g # f + 1 => M[g] = L[g]
  BY <1>1
<1> HIDE DEF M
<1>3. ASSUME NEW e \in Ids(M) PROVE e \in Ids(L)
  <2>0. PICK g \in Files : \E k \in 1..Len(M[g]) : M[g][k].id = e
    BY DEF Ids
  <2>1. PICK k \in 1..Len(M[g]) : M[g][k].id = e
    BY <2>0
  <2>2. g # f
    BY <1>2, <2>1
  <2>3. CASE g = f + 1
    BY <1>1, <1>2, <2>1, <2>3 DEF Ids
  <2>4. CASE g # f + 1
    BY <1>2, <2>1, <2>2, <2>4 DEF Ids
  <2>5. QED BY <2>3, <2>4
<1>4. ASSUME NEW e \in Ids(L) PROVE e \in Ids(M)
  <2>0. PICK g \in Files : \E k \in 1..Len(L[g]) : L[g][k].id = e
    BY DEF Ids
  <2>1. PICK k \in 1..Len(L[g]) : L[g][k].id = e
    BY <2>0
  <2>2. g # f + 1
    BY <2>1
  <2>3. CASE g = f
    BY <1>1, <1>2, <2>1, <2>3 DEF Ids
  <2>4. CASE g # f
    BY <1>2, <2>1, <2>2, <2>4 DEF Ids
  <2>5. QED BY <2>3, <2>4
<1>5. QED BY <1>3, <1>4 DEF M

\* The rename that replaces audit.log.Keep loses exactly its events, which are
\* the oldest ones.
LEMMA ShiftIdsOldest ==
    ASSUME NEW L \in [Files -> Seq(Chunk)], NEW m, Ordered(L, m), L[Keep] # <<>>
    PROVE  Ids([L EXCEPT ![Keep] = L[Keep - 1], ![Keep - 1] = <<>>])
              = {e \in Ids(L) : e > L[Keep][Len(L[Keep])].id}
<1> DEFINE f == Keep - 1
           M == [L EXCEPT ![Keep] = L[f], ![f] = <<>>]
           z == L[Keep][Len(L[Keep])].id
<1>1. f \in Files /\ Keep \in Files /\ Keep # f /\ f < Keep
  BY KeepAssumption DEF Files
<1>2. /\ M[Keep] = L[f] /\ M[f] = <<>>
      /\ \A g \in Files : g # f /\ g # Keep => M[g] = L[g]
  BY <1>1
<1>3. L[Keep] \in Seq(Chunk) /\ Len(L[Keep]) \in 1..Len(L[Keep])
  BY <1>1, EmptySeq
<1>4. z \in Nat
  BY <1>1, <1>3, IdIsNat
<1>5. \A k \in 1..Len(L[Keep]) : L[Keep][k].id <= z
  <2> SUFFICES ASSUME NEW k \in 1..Len(L[Keep]) PROVE L[Keep][k].id <= z
    OBVIOUS
  <2>1. L[Keep][k].id \in Nat
    BY <1>1, IdIsNat
  <2>2. CASE k = Len(L[Keep])
    BY <1>4, <2>2
  <2>3. CASE k < Len(L[Keep])
    <3>1. L[Keep][k].id < z
      BY <1>1, <1>3, <2>3 DEF Ordered, Increasing
    <3>2. QED BY <1>4, <2>1, <3>1
  <2>4. QED BY <1>3, <2>2, <2>3
<1>6. \A g \in Files : g # Keep => \A k \in 1..Len(L[g]) : z < L[g][k].id
  <2> SUFFICES ASSUME NEW g \in Files, g # Keep, NEW k \in 1..Len(L[g])
               PROVE  z < L[g][k].id
    OBVIOUS
  <2>1. g < Keep
    BY KeepAssumption DEF Files
  <2>2. Before(L[Keep], L[g])
    BY <1>1, <2>1 DEF Ordered
  <2>3. QED BY <1>3, <2>2 DEF Before
<1> HIDE DEF M, f, z
<1>7. ASSUME NEW e \in Ids(M) PROVE e \in Ids(L) /\ e > z
  <2>0. PICK g \in Files : \E k \in 1..Len(M[g]) : M[g][k].id = e
    BY DEF Ids
  <2>1. PICK k \in 1..Len(M[g]) : M[g][k].id = e
    BY <2>0
  <2>2. g # f
    BY <1>2, <2>1
  <2>3. PICK h \in Files : h # Keep /\ M[g] = L[h]
    BY <1>1, <1>2, <2>2
  <2>4. e > z
    BY <1>4, <1>6, <2>1, <2>3 DEF Ids
  <2>5. QED BY <2>1, <2>3, <2>4 DEF Ids
<1>8. ASSUME NEW e \in Ids(L), e > z PROVE e \in Ids(M)
  <2>0. PICK g \in Files : \E k \in 1..Len(L[g]) : L[g][k].id = e
    BY DEF Ids
  <2>1. PICK k \in 1..Len(L[g]) : L[g][k].id = e
    BY <2>0
  <2>2. g # Keep
    BY <1>4, <1>5, <1>8, <2>1 DEF Ids
  <2>3. CASE g = f
    BY <1>1, <1>2, <2>1, <2>3 DEF Ids
  <2>4. CASE g # f
    BY <1>2, <2>1, <2>2, <2>4 DEF Ids
  <2>5. QED BY <2>3, <2>4
<1>9. QED BY <1>7, <1>8 DEF M, f, z

\* The trail is empty at the start.
LEMMA InitTrail == Init => TrailInv
<1> SUFFICES ASSUME Init PROVE TrailInv
  OBVIOUS
<1>1. \A f \in Files : log[f] = <<>>
  BY DEF Init
<1>2. QED BY <1>1, InitOrder DEF TrailInv, Init, InFlight

\* Every step keeps TrailInv and is a step, or a stutter, of the abstract trail.
LEMMA NextTrail ==
    ASSUME Mild, TrailInv, [Next]_vars
    PROVE  TrailInv' /\ [Trail!Next]_<<n, KeptIds>>
<1> DEFINE Lines(L) == \A f \in Files : \A k \in 1..Len(L[f]) : L[f][k].form = "line"
           Call == /\ InFlight => cur.form = "line"
                   /\ pc # "expire"
                   /\ pc = "rename" /\ ri # Keep - 1 => log[ri + 1] = <<>>
           Kept == KeptIds
<1>0. /\ OrderInv /\ OrderInv' /\ Typed /\ Lines(log) /\ Call /\ n \in Nat
      /\ log \in [Files -> Seq(Chunk)]
  BY NextOrder DEF TrailInv, OrderInv, Typed, TypeOK
<1>1. KeptIds = Ids(log)
  BY KeptIsIds
<1>2. ASSUME Lines(log'), Call' PROVE TrailInv' /\ KeptIds' = Ids(log')
  <2>1. TrailInv'
    BY <1>0, <1>2 DEF TrailInv
  <2>2. (TrailInv => KeptIds = Ids(log))'
    BY KeptIsIds, PTL
  <2>3. QED BY <2>1, <2>2
<1>3. ASSUME log' = log, Call', n' = n \/ n' = n + 1
      PROVE  TrailInv' /\ [Trail!Next]_<<n, KeptIds>>
  <2>1. TrailInv' /\ KeptIds' = KeptIds
    BY <1>0, <1>1, <1>2, <1>3
  <2>2. QED BY <1>3, <2>1 DEF Trail!Next, Trail!Issue
<1>a. CASE Start
  BY <1>0, <1>3, <1>a DEF Start, InFlight
<1>b. CASE StartFails
  BY <1>0, <1>3, <1>b DEF StartFails, InFlight
<1>c. ASSUME NEW s \in Sizes, LogBegin(s)
      PROVE  TrailInv' /\ [Trail!Next]_<<n, KeptIds>>
  <2>1. Call'
    BY <1>c DEF LogBegin, OldestShift
  <2>2. QED BY <1>3, <1>c, <2>1 DEF LogBegin
<1>d. CASE Rename
  <2>1. ri \in 0..(Keep - 1) /\ cur.form = "line" /\ InFlight
    BY <1>0, <1>d DEF Rename, Typed, CallOK, InFlight
  <2>2. log' = Shifted(ri) /\ n' = n /\ cur' = cur
    BY <1>d DEF Rename, Mild
  <2>3. ri \in Files /\ ri + 1 \in Files /\ ri # ri + 1
    BY <2>1, KeepAssumption DEF Files
  <2>4. log'[ri] = <<>> /\ Lines(log')
    BY <1>0, <2>2, <2>3 DEF Shifted
  <2>5. Call'
    <3>1. CASE ri > 0
      <4>1. ri' = ri - 1 /\ pc' = "rename" /\ ri' + 1 = ri
        BY <1>d, <2>1, <3>1 DEF Rename
      <4>2. QED BY <2>1, <2>2, <2>4, <4>1
    <3>2. CASE ~(ri > 0)
      BY <1>d, <2>1, <2>2, <3>2 DEF Rename, AfterRenames, Mild
    <3>3. QED BY <3>1, <3>2
  <2>6. TrailInv' /\ KeptIds' = Ids(log')
    BY <1>2, <2>4, <2>5
  <2>7. CASE log[ri] = <<>>
    BY <1>1, <2>2, <2>6, <2>7 DEF Shifted
  <2>8. CASE log[ri] # <<>> /\ log[ri + 1] = <<>>
    <3>1. Ids(log') = Ids(log)
      BY <1>0, <2>1, <2>2, <2>8, ShiftIdsFree DEF Shifted
    <3>2. QED BY <1>1, <2>2, <2>6, <3>1
  <2>9. CASE log[ri] # <<>> /\ log[ri + 1] # <<>>
    <3>1. ri = Keep - 1 /\ ri + 1 = Keep /\ Keep \in Files
      BY <1>0, <1>d, <2>1, <2>3, <2>9, KeepAssumption DEF Rename
    <3>2. Ordered(log, n)
      BY <1>0, <2>1 DEF OrderInv
    <3>3. log' = [log EXCEPT ![Keep] = log[Keep - 1], ![Keep - 1] = <<>>]
      BY <2>2, <2>9, <3>1 DEF Shifted
    <3> DEFINE z == log[Keep][Len(log[Keep])].id
    <3>4. Ids(log') = {e \in Ids(log) : e > z}
      BY <1>0, <2>9, <3>1, <3>2, <3>3, ShiftIdsOldest
    <3>5. z \in Ids(log)
      <4>1. Len(log[Keep]) \in 1..Len(log[Keep])
        BY <1>0, <2>9, <3>1, EmptySeq
      <4>2. z \in Nat
        BY <1>0, <3>1, <4>1, IdIsNat
      <4>3. QED BY <3>1, <4>1, <4>2 DEF Ids
    <3> HIDE DEF z
    <3>6. Trail!Forget
      BY <1>1, <2>2, <2>6, <3>4, <3>5 DEF Trail!Forget
    <3>7. QED BY <2>6, <3>6 DEF Trail!Next
  <2>10. QED BY <2>7, <2>8, <2>9
<1>e. CASE Expire
  BY <1>0, <1>e DEF Expire
<1>f. CASE Reopen
  BY <1>0, <1>3, <1>f DEF Reopen, InFlight
<1>g. CASE Write
  <2>1. cur \in Chunk /\ cur.id = n /\ cur.form = "line" /\ InFlight
    BY <1>0, <1>g DEF Write, Typed, CallOK, InFlight
  <2>2. n' = n /\ Call'
    BY <1>g DEF Write, InFlight
  <2>3. CASE log' = log
    BY <1>3, <2>2, <2>3
  <2>4. CASE log' = Appended(cur)
    <3>1. log' = [log EXCEPT ![0] = Append(@, cur)]
      BY <2>4 DEF Appended
    <3>2. 0 \in Files /\ log[0] \in Seq(Chunk) /\ log'[0] = Append(log[0], cur)
      BY <1>0, <3>1, KeepAssumption DEF Files
    <3>3. \A k \in 1..Len(log'[0]) : log'[0][k].form = "line"
      BY <1>0, <2>1, <3>2
    <3>4. Lines(log')
      BY <1>0, <3>1, <3>2, <3>3
    <3>5. TrailInv' /\ KeptIds' = Ids(log')
      BY <1>2, <2>2, <3>4
    <3>6. KeptIds' = KeptIds \cup {n}
      BY <1>0, <1>1, <2>1, <3>1, <3>5, AppendIds
    <3>7. \A e \in KeptIds : e < n
      BY <1>0, <1>1, <2>1 DEF OrderInv, Ordered, Below, Ids
    <3>8. n > 0
      BY <2>1 DEF Chunk
    <3>9. Trail!Store
      BY <2>2, <3>6, <3>7, <3>8 DEF Trail!Store
    <3>10. QED BY <3>5, <3>9 DEF Trail!Next
  <2>5. QED BY <1>g, <2>3, <2>4 DEF Write, Mild
<1>h. CASE Close
  BY <1>0, <1>3, <1>h DEF Close, InFlight
<1>i. ASSUME Down PROVE Call' /\ n' = n
  BY <1>i DEF Down, InFlight
<1>j. CASE Exit
  BY <1>3, <1>i, <1>j DEF Exit
<1>k. CASE Crash
  BY <1>3, <1>i, <1>k DEF Crash, Mild
<1>l. CASE PowerLoss
  BY <1>l DEF PowerLoss, Mild
<1>m. CASE UNCHANGED vars
  BY <1>0, <1>3, <1>m DEF vars, InFlight
<1>n. QED
  BY <1>a, <1>b, <1>c, <1>d, <1>e, <1>f, <1>g, <1>h, <1>j, <1>k, <1>l, <1>m DEF Next

\* Whatever the number and the size of the files, and through crashes, failing
\* Writes and a failing reopening, the trail only grows at its end and is only
\* cut at its beginning.
THEOREM TrailImplemented == ASSUME Mild PROVE Spec => ImplementsTrail
<1>1. Init => Trail!Init
  <2> SUFFICES ASSUME Init PROVE n = 0 /\ KeptIds = {}
    BY DEF Trail!Init
  <2>1. \A f \in Files : log[f] = <<>>
    BY DEF Init
  <2>2. Ids(log) = {}
    BY <2>1 DEF Ids
  <2>3. QED BY <2>2, InitTrail, KeptIsIds DEF Init
<1>2. QED
  BY <1>1, InitTrail, NextTrail, PTL DEF Spec, ImplementsTrail, Trail!Spec, Trail!trailVars

-----------------------------------------------------------------------------
(* Recursion over a file.  Size and VerifyLog are recursive functions on      *)
(* 0..Len(f); that such a function exists, and is the only one to satisfy its  *)
(* equation, follows from the least number that would be a counterexample.     *)

\* Induction, as a fact about sets of numbers.
LEMMA NatInduct ==
    ASSUME NEW T, 0 \in T, \A i \in Nat : i \in T => i + 1 \in T
    PROVE  \A i \in Nat : i \in T
<1> SUFFICES ASSUME NEW e \in Nat, e \notin T PROVE FALSE
  OBVIOUS
<1> DEFINE U == {i \in Nat : i \notin T}
<1>1. U \subseteq Nat /\ U # {}
  OBVIOUS
<1>2. PICK x \in U : \A y \in U : x <= y
  <2> HIDE DEF U
  <2>1. QED BY <1>1, SmallestOf
<1>3. x # 0
  OBVIOUS
<1>4. x - 1 \in Nat /\ x - 1 \notin U
  BY <1>2, <1>3
<1>5. (x - 1) + 1 \in T
  BY <1>4
<1>6. QED BY <1>5

\* u is the running total of the sizes in f.
Totals(f, u) ==
    /\ u \in [0..Len(f) -> Nat]
    /\ u[0] = 0
    /\ \A k \in 1..Len(f) : u[k] = u[k - 1] + f[k].size

\* Every file has its running totals.
LEMMA TotalsExist ==
    ASSUME NEW f \in Seq(Chunk)
    PROVE  \E u : Totals(f, u)
<1> DEFINE Upto(m, u) == /\ u \in [0..m -> Nat]
                         /\ u[0] = 0
                         /\ \A k \in 1..m : u[k] = u[k - 1] + f[k].size
           T == {m \in Nat : m <= Len(f) => \E u : Upto(m, u)}
<1>0. Len(f) \in Nat
  OBVIOUS
<1>1. 0 \in T
  <2>1. Upto(0, [k \in 0..0 |-> 0])
    OBVIOUS
  <2>2. QED BY <2>1
<1>2. ASSUME NEW m \in Nat, m \in T PROVE m + 1 \in T
  <2> HIDE DEF Upto
  <2> SUFFICES ASSUME m + 1 <= Len(f) PROVE \E u : Upto(m + 1, u)
    OBVIOUS
  <2>1. PICK u : Upto(m, u)
    <3>1. m <= Len(f) => \E u : Upto(m, u)
      BY <1>2
    <3>2. QED BY <1>0, <3>1
  <2> USE DEF Upto
  <2> DEFINE v == [k \in 0..(m + 1) |-> IF k = m + 1 THEN u[m] + f[m + 1].size ELSE u[k]]
  <2>2. f[m + 1] \in Chunk
    BY <1>0, ElementOfSeq
  <2>3. u[m] + f[m + 1].size \in Nat
    <3>1. f[m + 1].size \in Nat
      BY <2>2 DEF Chunk
    <3>2. QED BY <2>1, <3>1
  <2>4. v \in [0..(m + 1) -> Nat]
    BY <2>1, <2>3
  <2>5. v[0] = 0
    BY <2>1
  <2>6. \A k \in 1..(m + 1) : v[k] = v[k - 1] + f[k].size
    BY <2>1
  <2>7. QED BY <2>4, <2>5, <2>6
<1>3. Len(f) \in T
  <2> HIDE DEF T
  <2>1. QED BY <1>0, <1>1, <1>2, NatInduct
<1>4. QED BY <1>0, <1>3 DEF Totals

\* The size of a file is its last running total.
LEMMA SizeIs ==
    ASSUME NEW f \in Seq(Chunk), NEW u, Totals(f, u)
    PROVE  Size(f) = u[Len(f)]
<1> DEFINE Eq(w) == w = [k \in 0..Len(f) |-> IF k = 0 THEN 0 ELSE w[k - 1] + f[k].size]
           w == CHOOSE w : Eq(w)
<1>0. Len(f) \in Nat
  OBVIOUS
<1>1. Eq(u)
  BY <1>0 DEF Totals
<1>2. Eq(w)
  BY <1>1
<1>3. Size(f) = w[Len(f)]
  BY DEF Size
<1> HIDE DEF w
<1> DEFINE T == {k \in Nat : k <= Len(f) => w[k] = u[k]}
<1>4. 0 \in T
  BY <1>0, <1>2 DEF Totals
<1>5. ASSUME NEW k \in Nat, k \in T PROVE k + 1 \in T
  BY <1>0, <1>2, <1>5 DEF Totals
<1>6. Len(f) \in T
  <2> HIDE DEF T
  <2>1. QED BY <1>0, <1>4, <1>5, NatInduct
<1>7. QED BY <1>0, <1>3, <1>6

\* A size is a number, the empty file has none, and an append adds its chunk's.
LEMMA SizeType ==
    ASSUME NEW f \in Seq(Chunk)
    PROVE  Size(f) \in Nat
<1>1. PICK u : Totals(f, u)
  BY TotalsExist
<1>2. Size(f) = u[Len(f)] /\ Len(f) \in 0..Len(f)
  BY <1>1, SizeIs
<1>3. QED BY <1>1, <1>2 DEF Totals

\* The empty file has no size.
LEMMA SizeEmpty == Size(<<>>) = 0
<1>1. Totals(<<>>, [k \in 0..0 |-> 0])
  BY DEF Totals
<1>2. <<>> \in Seq(Chunk)
  OBVIOUS
<1>3. QED BY <1>1, <1>2, SizeIs

\* An appended chunk adds its size.
LEMMA SizeAppend ==
    ASSUME NEW f \in Seq(Chunk), NEW c \in Chunk
    PROVE  Size(Append(f, c)) = Size(f) + c.size
<1>1. PICK u : Totals(f, u)
  BY TotalsExist
<1> DEFINE g == Append(f, c)
           m == Len(f)
           v == [k \in 0..(m + 1) |-> IF k = m + 1 THEN u[m] + c.size ELSE u[k]]
<1>2. /\ g \in Seq(Chunk) /\ Len(g) = m + 1 /\ m \in Nat
      /\ g[m + 1] = c /\ \A k \in 1..m : g[k] = f[k]
  BY AppendProperties
<1>3. u[m] \in Nat /\ c.size \in Nat
  <2>1. m \in 0..m
    BY <1>2
  <2>2. QED BY <1>1, <2>1 DEF Totals, Chunk
<1> HIDE DEF g
<1>4. Totals(g, v)
  <2>1. v \in [0..Len(g) -> Nat] /\ v[0] = 0
    BY <1>1, <1>2, <1>3 DEF Totals
  <2>2. ASSUME NEW k \in 1..Len(g) PROVE v[k] = v[k - 1] + g[k].size
    <3>1. CASE k = m + 1
      BY <1>2, <3>1
    <3>2. CASE k # m + 1
      BY <1>1, <1>2, <3>2 DEF Totals
    <3>3. QED BY <3>1, <3>2
  <2>3. QED BY <2>1, <2>2 DEF Totals
<1>5. Size(g) = v[m + 1] /\ Size(f) = u[m]
  BY <1>1, <1>2, <1>4, SizeIs
<1>6. QED BY <1>2, <1>5 DEF g

-----------------------------------------------------------------------------
(* What a step does to the files. *)

\* What Write or a cut of it leaves of cur differs only in size and form.
LEMMA PartsOfCur ==
    ASSUME Typed, InFlight, NEW c \in {cur} \cup Parts
    PROVE  /\ c \in Chunk
           /\ c.id = cur.id /\ c.prev = cur.prev /\ c.key = cur.key /\ c.boot = cur.boot
           /\ c.size <= cur.size
<1>0. cur \in Chunk
  BY DEF Typed, CallOK
<1>1. CASE c = cur
  BY <1>0, <1>1 DEF Chunk
<1>2. CASE c = [cur EXCEPT !.form = "bare"]
  BY <1>0, <1>2 DEF Chunk
<1>3. ASSUME NEW s \in 1..cur.size, c = [cur EXCEPT !.form = "torn", !.size = s]
      PROVE  c.size <= cur.size /\ s \in Nat \ {0}
  BY <1>0, <1>3 DEF Chunk
<1>4. ASSUME NEW s \in 1..cur.size, c = [cur EXCEPT !.form = "torn", !.size = s]
      PROVE  /\ c \in Chunk
             /\ c.id = cur.id /\ c.prev = cur.prev /\ c.key = cur.key /\ c.boot = cur.boot
             /\ c.size <= cur.size
  BY <1>0, <1>3, <1>4 DEF Chunk
<1>5. QED BY <1>1, <1>2, <1>4 DEF Parts

\* A step moves a file to the next name, empties one, appends to audit.log the
\* call in flight or a part of it, or loses the end of audit.log.
LEMMA LogSteps ==
    ASSUME Typed, [Next]_vars
    PROVE  \/ log' = log
           \/ /\ Rename /\ ri \in 0..(Keep - 1)
              /\ log' = [log EXCEPT ![ri + 1] = log[ri], ![ri] = <<>>]
           \/ Expire /\ log' = [log EXCEPT ![ri] = <<>>]
           \/ /\ pc = "write" /\ open
              /\ \E c \in {cur} \cup Parts :
                    log' = Appended(c) /\ (c = cur \/ "torn" \in Faults)
           \/ /\ PowerLoss
              /\ \E k \in 0..Len(log[0]) : log' = [log EXCEPT ![0] = SubSeq(@, 1, k)]
<1>1. CASE Rename
  BY <1>1 DEF Rename, Shifted, Typed, CallOK
<1>2. CASE Expire
  BY <1>2 DEF Expire
<1>3. CASE Write
  BY <1>3 DEF Write
<1>4. CASE Crash
  BY <1>4 DEF Crash
<1>5. CASE PowerLoss
  BY <1>5 DEF PowerLoss
<1>6. CASE Start \/ StartFails \/ Reopen \/ Close \/ Exit \/ UNCHANGED vars
  BY <1>6 DEF Start, StartFails, Reopen, Close, Exit, vars
<1>7. ASSUME NEW s \in Sizes, LogBegin(s) PROVE log' = log
  BY <1>7 DEF LogBegin
<1>8. QED BY <1>1, <1>2, <1>3, <1>4, <1>5, <1>6, <1>7 DEF Next

\* What a file holds after a step: what it or another one held, nothing, or, for
\* audit.log, a chunk more or a prefix.
LEMMA FileSteps ==
    ASSUME Typed, [Next]_vars, NEW f \in Files
    PROVE  \/ log'[f] = <<>>
           \/ \E g \in Files : (f = 0 => g = 0) /\ log'[f] = log[g]
           \/ /\ f = 0 /\ pc = "write" /\ open
              /\ \E c \in {cur} \cup Parts :
                    log'[f] = Append(log[0], c) /\ (c = cur \/ "torn" \in Faults)
           \/ f = 0 /\ \E k \in 0..Len(log[0]) : log'[f] = SubSeq(log[0], 1, k)
<1>1. log \in [Files -> Seq(Chunk)] /\ 0 \in Files
  BY KeepAssumption DEF Typed, TypeOK, Files
<1>2. CASE log' = log
  BY <1>2
<1>3. ASSUME ri \in 0..(Keep - 1), log' = [log EXCEPT ![ri + 1] = log[ri], ![ri] = <<>>]
      PROVE  log'[f] = <<>> \/ \E g \in Files : (f = 0 => g = 0) /\ log'[f] = log[g]
  <2>1. ri \in Files /\ ri + 1 \in Files /\ ri # ri + 1
    BY <1>3, KeepAssumption DEF Files
  <2>2. f = ri \/ f = ri + 1 \/ (f # ri /\ f # ri + 1)
    OBVIOUS
  <2>3. ri + 1 # 0
    BY <1>3
  <2>4. QED BY <1>1, <1>3, <2>1, <2>2, <2>3
<1>4. ASSUME log' = [log EXCEPT ![ri] = <<>>]
      PROVE  log'[f] = <<>> \/ log'[f] = log[f]
  BY <1>1, <1>4
<1>5. ASSUME NEW c, log' = Appended(c)
      PROVE  IF f = 0 THEN log'[f] = Append(log[0], c) ELSE log'[f] = log[f]
  BY <1>1, <1>5 DEF Appended
<1>6. ASSUME NEW k \in 0..Len(log[0]), log' = [log EXCEPT ![0] = SubSeq(@, 1, k)]
      PROVE  IF f = 0 THEN log'[f] = SubSeq(log[0], 1, k) ELSE log'[f] = log[f]
  BY <1>1, <1>6
<1>7. QED BY LogSteps, <1>1, <1>2, <1>3, <1>4, <1>5, <1>6

\* A set of files that holds the empty one and all prefixes of its members is
\* left only by an append.
LEMMA FilesIn ==
    ASSUME Typed, [Next]_vars, NEW S,
           \A f \in Files : log[f] \in S,
           <<>> \in S, \A s \in S : \A k \in 0..Len(s) : SubSeq(s, 1, k) \in S,
           pc = "write" /\ open => \A c \in {cur} \cup Parts :
               (c = cur \/ "torn" \in Faults) => Append(log[0], c) \in S
    PROVE  \A f \in Files : log'[f] \in S
<1>1. 0 \in Files
  BY KeepAssumption DEF Files
<1>2. QED BY <1>1, FileSteps

\* The fields of a stored chunk.
LEMMA FieldTypes ==
    ASSUME NEW L \in [Files -> Seq(Chunk)]
    PROVE  \A f \in Files : \A i \in 1..Len(L[f]) :
              /\ L[f][i] \in Chunk /\ L[f][i].form \in {"line", "bare", "torn"}
              /\ L[f][i].prev \in Nat /\ L[f][i].boot \in Nat /\ L[f][i].key \in Nat
              /\ L[f][i].id \in Nat \ {0} /\ L[f][i].size \in Nat \ {0}
<1> SUFFICES ASSUME NEW f \in Files, NEW i \in 1..Len(L[f]), NEW c, c = L[f][i]
             PROVE  /\ c \in Chunk /\ c.form \in {"line", "bare", "torn"}
                    /\ c.prev \in Nat /\ c.boot \in Nat /\ c.key \in Nat
                    /\ c.id \in Nat \ {0} /\ c.size \in Nat \ {0}
  OBVIOUS
<1>1. c \in Chunk
  BY ElementOfSeq
<1>2. QED BY <1>1 DEF Chunk

\* The elements of a prefix, and of an append.
LEMMA PrefixElements ==
    ASSUME NEW s \in Seq(Chunk), NEW k \in 0..Len(s)
    PROVE  /\ SubSeq(s, 1, k) \in Seq(Chunk) /\ Len(SubSeq(s, 1, k)) = k
           /\ \A i \in 1..k : i \in 1..Len(s) /\ SubSeq(s, 1, k)[i] = s[i]
<1>1. \A i \in 1..k : i \in 1..Len(s) /\ s[i] \in Chunk
  BY ElementOfSeq
<1>2. QED BY <1>1, SubSeqProperties

\* The elements of a file that one chunk has been appended to.
LEMMA AppendElements ==
    ASSUME NEW s \in Seq(Chunk), NEW c \in Chunk
    PROVE  /\ Append(s, c) \in Seq(Chunk) /\ Len(Append(s, c)) = Len(s) + 1
           /\ Append(s, c)[Len(s) + 1] = c
           /\ \A i \in 1..Len(s) : Append(s, c)[i] = s[i]
           /\ \A i \in 1..(Len(s) + 1) : i \in 1..Len(s) \/ i = Len(s) + 1
BY AppendProperties

-----------------------------------------------------------------------------
(* No silent loss. *)

\* Within a file, every event of a process but the first one links to the event
\* before it: a start's first prevHash is whatever the file held, and from then
\* on prevHash is the last event stamped.
SameBootLinks(s) ==
    \A j, k \in 1..Len(s) : j < k /\ s[j].boot = s[k].boot => s[k].prev = s[k].id - 1

FirstOfBoot == \A k \in 1..Len(log[0]) : log[0][k].boot # boot

LossInv ==
    /\ Typed
    /\ \A f \in Files : SameBootLinks(log[f])
    /\ \A f \in Files : \A k \in 1..Len(log[f]) : log[f][k].boot <= boot
    /\ pc = "idle" => prev = n \/ FirstOfBoot
    /\ InFlight => /\ prev = n /\ cur.boot = boot
                   /\ cur.prev = n - 1 \/ FirstOfBoot

\* No file holds an event at the start.
LEMMA InitLoss == Init => LossInv
<1> SUFFICES ASSUME Init PROVE LossInv
  OBVIOUS
<1>1. \A f \in Files : log[f] = <<>>
  BY DEF Init
<1>2. QED BY <1>1, InitTyped DEF LossInv, SameBootLinks, Init, InFlight

\* Every step keeps LossInv.
LEMMA NextLoss == LossInv /\ [Next]_vars => LossInv'
<1> SUFFICES ASSUME LossInv, [Next]_vars PROVE LossInv'
  OBVIOUS
<1>0. /\ Typed /\ Typed' /\ n \in Nat /\ boot \in Nat /\ 0 \in Files
      /\ log \in [Files -> Seq(Chunk)] /\ log' \in [Files -> Seq(Chunk)]
  BY NextTyped, KeepAssumption DEF LossInv, Typed, TypeOK, Files
<1>1. \A f \in Files : log[f] \in Seq(Chunk) /\ SameBootLinks(log[f])
  BY <1>0 DEF LossInv
<1>2. ASSUME pc = "write", NEW c \in {cur} \cup Parts
      PROVE  /\ c \in Chunk /\ c.boot = boot
             /\ c.prev = c.id - 1 \/ FirstOfBoot
  BY <1>0, <1>2, PartsOfCur DEF LossInv, InFlight, Typed, CallOK
<1>3. \A f \in Files : SameBootLinks(log'[f])
  <2> DEFINE S == {s \in Seq(Chunk) : SameBootLinks(s)}
  <2>1. \A f \in Files : log[f] \in S
    BY <1>1
  <2>2. <<>> \in S
    BY DEF SameBootLinks
  <2>3. ASSUME NEW s \in S, NEW k \in 0..Len(s) PROVE SubSeq(s, 1, k) \in S
    BY PrefixElements DEF SameBootLinks
  <2>4. ASSUME pc = "write", NEW c \in {cur} \cup Parts PROVE Append(log[0], c) \in S
    <3> DEFINE s == log[0]
               t == Append(s, c)
    <3>1. /\ t \in Seq(Chunk) /\ Len(t) = Len(s) + 1 /\ Len(s) \in Nat
          /\ t[Len(s) + 1] = c /\ \A i \in 1..Len(s) : t[i] = s[i]
          /\ \A i \in 1..Len(t) : i \in 1..Len(s) \/ i = Len(s) + 1
      BY <1>0, <1>2, <2>4, AppendElements
    <3>2. SameBootLinks(s)
      BY <1>0, <1>1
    <3> HIDE DEF t, s
    <3>3. ASSUME NEW j \in 1..Len(t), NEW k \in 1..Len(t), j < k, t[j].boot = t[k].boot
          PROVE  t[k].prev = t[k].id - 1
      <4>1. j \in 1..Len(s)
        BY <3>1, <3>3
      <4>2. CASE k \in 1..Len(s)
        BY <3>1, <3>2, <3>3, <4>1, <4>2 DEF SameBootLinks
      <4>3. CASE k = Len(s) + 1
        <5>1. t[k] = c /\ t[j] = s[j]
          BY <3>1, <4>1, <4>3
        <5>2. c.boot = boot /\ (c.prev = c.id - 1 \/ FirstOfBoot)
          BY <1>2, <2>4
        <5>3. s[j].boot = boot
          BY <3>3, <5>1, <5>2
        <5>4. ~FirstOfBoot
          BY <4>1, <5>3 DEF FirstOfBoot, s
        <5>5. QED BY <5>1, <5>2, <5>4
      <4>4. QED BY <3>1, <4>2, <4>3
    <3>4. QED BY <3>1, <3>3 DEF SameBootLinks, t, s
  <2> HIDE DEF S
  <2>5. \A f \in Files : log'[f] \in S
    BY <1>0, <2>1, <2>2, <2>3, <2>4, FilesIn
  <2>6. QED BY <2>5 DEF S
<1>4. boot' \in Nat /\ boot <= boot'
  <2>1. boot' = boot \/ boot' = boot + 1
    BY DEF Next, vars, Start, StartFails, LogBegin, Rename, Expire, Reopen, Write,
           Close, Exit, Crash, PowerLoss, Down
  <2>2. QED BY <1>0, <2>1
<1>5. \A f \in Files : \A k \in 1..Len(log'[f]) : log'[f][k].boot <= boot
  <2> DEFINE S == {s \in Seq(Chunk) : \A k \in 1..Len(s) : s[k].boot <= boot}
  <2>1. \A f \in Files : log[f] \in S
    BY <1>0 DEF LossInv
  <2>2. <<>> \in S
    OBVIOUS
  <2>3. ASSUME NEW s \in S, NEW k \in 0..Len(s) PROVE SubSeq(s, 1, k) \in S
    BY PrefixElements
  <2>4. ASSUME pc = "write", NEW c \in {cur} \cup Parts PROVE Append(log[0], c) \in S
    <3> DEFINE s == log[0]
               t == Append(s, c)
    <3>1. s \in Seq(Chunk) /\ \A k \in 1..Len(s) : s[k].boot <= boot
      BY <1>0, <2>1
    <3>2. /\ t \in Seq(Chunk) /\ Len(t) = Len(s) + 1 /\ t[Len(s) + 1] = c
          /\ \A i \in 1..Len(s) : t[i] = s[i]
          /\ \A i \in 1..Len(t) : i \in 1..Len(s) \/ i = Len(s) + 1
      BY <1>2, <2>4, <3>1, AppendElements
    <3> HIDE DEF s, t
    <3>3. c.boot <= boot
      BY <1>0, <1>2, <2>4
    <3>4. t \in S
      BY <3>1, <3>2, <3>3
    <3>5. QED BY <3>4 DEF s, t
  <2> HIDE DEF S
  <2>5. \A f \in Files : log'[f] \in S
    BY <1>0, <2>1, <2>2, <2>3, <2>4, FilesIn
  <2>6. QED BY <2>5 DEF S
<1>6. \A f \in Files : \A k \in 1..Len(log'[f]) : log'[f][k].boot <= boot'
  <2>1. \A f \in Files : \A k \in 1..Len(log'[f]) : log'[f][k].boot \in Nat
    BY <1>0, FieldTypes
  <2>2. QED BY <1>0, <1>4, <1>5, <2>1
<1>7. ASSUME FirstOfBoot, boot' = boot, log'[0] = log[0] \/ log'[0] = <<>> PROVE FirstOfBoot'
  BY <1>7 DEF FirstOfBoot
<1>8. (pc = "idle" => prev = n \/ FirstOfBoot)'
      /\ (InFlight => /\ prev = n /\ cur.boot = boot
                      /\ cur.prev = n - 1 \/ FirstOfBoot)'
  <2>a. CASE Start
    <3>1. boot' = boot + 1 /\ log' = log /\ pc' = "idle"
      BY <2>a DEF Start
    <3>2. \A k \in 1..Len(log[0]) : log[0][k].boot \in Nat /\ log[0][k].boot <= boot
      BY <1>0, FieldTypes DEF LossInv
    <3>3. FirstOfBoot'
      BY <1>0, <3>1, <3>2 DEF FirstOfBoot
    <3>4. QED BY <3>1, <3>3 DEF InFlight
  <2>b. CASE StartFails
    BY <2>b DEF StartFails, InFlight
  <2>c. ASSUME NEW s \in Sizes, LogBegin(s)
        PROVE  InFlight' /\ prev' = n' /\ cur'.boot = boot'
               /\ (cur'.prev = n' - 1 \/ FirstOfBoot')
    <3>1. /\ InFlight' /\ prev' = n + 1 /\ n' = n + 1 /\ cur'.boot = boot /\ boot' = boot
          /\ cur'.prev = prev /\ log' = log
      BY <2>c DEF LogBegin, InFlight
    <3>2. prev = n \/ FirstOfBoot
      BY <2>c DEF LogBegin, LossInv
    <3>3. QED BY <1>0, <1>7, <3>1, <3>2
  <2>d. CASE Rename
    <3>1. /\ InFlight /\ InFlight' /\ prev' = prev /\ n' = n /\ cur' = cur /\ boot' = boot
          /\ pc' # "idle" /\ ri \in 0..(Keep - 1)
      BY <1>0, <2>d DEF Rename, AfterRenames, InFlight, Typed, CallOK
    <3>2. log'[0] = log[0] \/ log'[0] = <<>>
      <4>1. ri \in Files /\ ri + 1 \in Files /\ ri + 1 # 0
        BY <3>1, KeepAssumption DEF Files
      <4>2. QED BY <1>0, <2>d, <4>1 DEF Rename, Shifted
    <3>3. QED BY <1>7, <3>1, <3>2 DEF LossInv
  <2>e. CASE Expire
    <3>1. /\ InFlight /\ InFlight' /\ prev' = prev /\ n' = n /\ cur' = cur /\ boot' = boot
          /\ pc' # "idle"
      BY <2>e DEF Expire, InFlight
    <3>2. log'[0] = log[0] \/ log'[0] = <<>>
      BY <1>0, <2>e DEF Expire
    <3>3. QED BY <1>7, <3>1, <3>2 DEF LossInv
  <2>f. CASE Reopen
    BY <1>7, <2>f DEF Reopen, LossInv, InFlight
  <2>g. CASE Write
    BY <2>g DEF Write, LossInv, InFlight
  <2>h. CASE Close
    BY <1>7, <2>h DEF Close, LossInv, InFlight
  <2>i. CASE Exit \/ Crash \/ PowerLoss
    BY <2>i DEF Exit, Crash, PowerLoss, Down, InFlight
  <2>j. CASE UNCHANGED vars
    BY <1>7, <2>j DEF vars, LossInv, InFlight
  <2>k. QED
    BY <2>a, <2>b, <2>c, <2>d, <2>e, <2>f, <2>g, <2>h, <2>i, <2>j DEF Next, InFlight
<1>9. QED
  BY <1>0, <1>3, <1>6, <1>8 DEF LossInv

\* An event of a process that is missing between two that link is impossible, for
\* every combination of faults: a Write that failed shows as a broken chain.
THEOREM LossAlwaysBreaks == Spec => []LossBreaks
<1>1. LossInv => LossBreaks
  <2> SUFFICES ASSUME LossInv, NEW f \in Files,
                      NEW j \in 1..Len(log[f]), NEW k \in 1..Len(log[f]),
                      Neighbours(f, j, k), log[f][j].boot = log[f][k].boot,
                      log[f][k].prev = log[f][j].id
               PROVE  log[f][k].id = log[f][j].id + 1
    BY DEF LossBreaks
  <2>1. log[f][k].prev = log[f][k].id - 1
    BY DEF LossInv, SameBootLinks, Neighbours
  <2>2. log[f][k].id \in Nat
    BY IdIsNat DEF LossInv, Typed, TypeOK
  <2>3. QED BY <2>1, <2>2
<1>2. QED
  BY InitLoss, NextLoss, <1>1, PTL DEF Spec

-----------------------------------------------------------------------------
(* No false alarm. *)

\* The premise under which a restart finds the chain's last event: the last event
\* to read in audit.log lies within the window that readLastHash looks at.
LastLineInWindow ==
    \A k \in 1..Len(log[0]) :
        /\ Readable(log[0], k)
        /\ \A j \in 1..Len(log[0]) : Readable(log[0], j) => j <= k
        => Size(SubSeq(log[0], k, Len(log[0]))) <= Window

\* Under that premise readLastHash returns the last event there is to read.
LEMMA ReadLastHashIs ==
    ASSUME Typed, LastLineInWindow, NEW j \in 1..Len(log[0]), Readable(log[0], j)
    PROVE  \E k \in 1..Len(log[0]) : j <= k /\ ReadLastHash(log[0]) = log[0][k].id
<1> DEFINE s == log[0]
           readable == {i \in 1..Len(s) : Readable(s, i)}
           seen == {i \in 1..Len(s) : /\ Size(SubSeq(s, i, Len(s))) <= Window
                                      /\ Readable(s, i)}
           last == CHOOSE k \in seen : \A i \in seen : i <= k
<1>0. 0 \in Files /\ s \in Seq(Chunk) /\ Len(s) \in Nat
  BY KeepAssumption DEF Typed, TypeOK, Files
<1>1. readable \subseteq 1..Len(s) /\ j \in readable /\ seen \subseteq readable
  OBVIOUS
<1>2. PICK k \in readable : \A i \in readable : i <= k
  <2> HIDE DEF readable
  <2>1. QED BY <1>0, <1>1, LargestOf
<1>3. k \in seen
  BY <1>2 DEF LastLineInWindow
<1>4. ReadLastHash(s) = s[last].id
  BY <1>3 DEF ReadLastHash
<1> HIDE DEF seen, readable
<1>5. last \in seen /\ k <= last
  <2>1. seen # {} /\ seen \subseteq 1..Len(s)
    BY <1>1, <1>3
  <2>2. \E i \in seen : \A h \in seen : h <= i
    BY <1>0, <2>1, LargestOf
  <2>3. last \in seen /\ \A h \in seen : h <= last
    BY <2>2, Zenon
  <2> HIDE DEF last
  <2>4. QED BY <1>3, <2>3
<1> HIDE DEF last
<1>6. last \in 1..Len(s) /\ j <= k /\ j \in Nat /\ k \in Nat /\ last \in Nat
  BY <1>0, <1>1, <1>2, <1>5
<1>7. j <= last
  BY <1>5, <1>6
<1>8. QED BY <1>4, <1>6, <1>7

\* Without the premise it still returns an event of the file, or genesis.
LEMMA ReadLastHashRange ==
    ASSUME NEW s \in Seq(Chunk)
    PROVE  ReadLastHash(s) = 0 \/ \E k \in 1..Len(s) : ReadLastHash(s) = s[k].id
<1> DEFINE seen == {k \in 1..Len(s) : /\ Size(SubSeq(s, k, Len(s))) <= Window
                                      /\ Readable(s, k)}
           k == CHOOSE k \in seen : \A j \in seen : j <= k
<1>1. CASE seen = {}
  BY <1>1 DEF ReadLastHash
<1>2. CASE seen # {}
  <2>1. ReadLastHash(s) = s[k].id
    BY <1>2 DEF ReadLastHash
  <2>2. seen \subseteq 1..Len(s) /\ Len(s) \in Nat
    OBVIOUS
  <2> HIDE DEF seen
  <2>3. k \in seen
    BY <1>2, <2>2, LargestOf
  <2> HIDE DEF k
  <2>4. QED BY <2>1, <2>2, <2>3
<1>3. QED BY <1>1, <1>2

\* Chunk j is a whole line: it stays readable whatever is appended after it.
Whole(s, j) == StartsLine(s, j) /\ s[j].form = "line"

\* Every whole line of s is at most as new as e.
UpTo(s, e) == \A j \in 1..Len(s) : Whole(s, j) => s[j].id <= e

\* Every event of a file links to something older than itself, and not older than
\* any whole line before it.
LinksBack(s) ==
    \A k \in 1..Len(s) : /\ s[k].prev < s[k].id
                         /\ \A j \in 1..Len(s) : j < k /\ Whole(s, j) => s[j].id <= s[k].prev

\* The memory never falls behind audit.log: prevHash, or the link of the call in
\* flight, is at least as new as every whole line there.
BreakInv ==
    /\ OrderInv
    /\ \A f \in Files : LinksBack(log[f])
    /\ pc = "idle" => prev <= n /\ UpTo(log[0], prev)
    /\ InFlight => prev = n /\ cur.prev < n /\ UpTo(log[0], cur.prev)

\* Whole lines stay whole lines in a prefix and in an append, and no other comes
\* into being but the appended one.
LEMMA PrefixWhole ==
    ASSUME NEW s \in Seq(Chunk), NEW k \in 0..Len(s), NEW j \in 1..k
    PROVE  Whole(SubSeq(s, 1, k), j) <=> Whole(s, j)
<1>1. j = 1 \/ j - 1 \in 1..k
  OBVIOUS
<1>2. QED BY <1>1, PrefixElements DEF Whole, StartsLine

\* So are those of a file that one chunk is appended to.
LEMMA AppendWhole ==
    ASSUME NEW s \in Seq(Chunk), NEW c \in Chunk, NEW j \in 1..Len(s)
    PROVE  Whole(Append(s, c), j) <=> Whole(s, j)
<1>1. j = 1 \/ j - 1 \in 1..Len(s)
  OBVIOUS
<1>2. QED BY <1>1, AppendElements DEF Whole, StartsLine

\* A prefix of a file that links back links back.
LEMMA PrefixLinksBack ==
    ASSUME NEW s \in Seq(Chunk), NEW k \in 0..Len(s), LinksBack(s)
    PROVE  LinksBack(SubSeq(s, 1, k))
<1> DEFINE t == SubSeq(s, 1, k)
<1>1. Len(t) = k /\ \A i \in 1..k : i \in 1..Len(s) /\ t[i] = s[i]
  BY PrefixElements
<1>2. \A i \in 1..k : Whole(t, i) <=> Whole(s, i)
  BY PrefixWhole
<1> HIDE DEF t
<1>3. LinksBack(t)
  BY <1>1, <1>2 DEF LinksBack
<1>4. QED BY <1>3 DEF t

\* An append keeps it, if the chunk links to nothing older than the file.
LEMMA AppendLinksBack ==
    ASSUME NEW s \in Seq(Chunk), NEW c \in Chunk, LinksBack(s), c.prev < c.id, UpTo(s, c.prev)
    PROVE  LinksBack(Append(s, c))
<1> DEFINE t == Append(s, c)
<1>1. /\ Len(t) = Len(s) + 1 /\ t[Len(s) + 1] = c /\ Len(s) \in Nat
      /\ \A i \in 1..Len(s) : t[i] = s[i]
  BY AppendElements
<1>2. \A i \in 1..Len(s) : Whole(t, i) <=> Whole(s, i)
  BY AppendWhole
<1> HIDE DEF t
<1>3. ASSUME NEW k \in 1..Len(t)
      PROVE  /\ t[k].prev < t[k].id
             /\ \A j \in 1..Len(t) : j < k /\ Whole(t, j) => t[j].id <= t[k].prev
  <2>1. \A j \in 1..Len(t) : j < k => j \in 1..Len(s)
    BY <1>1
  <2>2. CASE k \in 1..Len(s)
    BY <1>1, <1>2, <2>1, <2>2 DEF LinksBack
  <2>3. CASE k = Len(s) + 1
    BY <1>1, <1>2, <2>1, <2>3 DEF UpTo
  <2>4. QED BY <1>1, <2>2, <2>3
<1>4. LinksBack(t)
  BY <1>3 DEF LinksBack
<1>5. QED BY <1>4 DEF t

\* There is nothing to link at the start.
LEMMA InitBreak == Init => BreakInv
<1> SUFFICES ASSUME Init PROVE BreakInv
  OBVIOUS
<1>1. \A f \in Files : log[f] = <<>>
  BY DEF Init
<1>2. QED BY <1>1, InitOrder DEF BreakInv, LinksBack, Init, InFlight

\* Every step keeps BreakInv, as long as the premise holds: only Start needs it.
LEMMA NextBreak == BreakInv /\ LastLineInWindow /\ [Next]_vars => BreakInv'
<1> SUFFICES ASSUME BreakInv, LastLineInWindow, [Next]_vars PROVE BreakInv'
  OBVIOUS
<1>0. /\ OrderInv /\ OrderInv' /\ Typed /\ n \in Nat /\ prev \in Nat /\ 0 \in Files
      /\ log \in [Files -> Seq(Chunk)] /\ log[0] \in Seq(Chunk)
  <2>1. OrderInv /\ OrderInv'
    BY NextOrder DEF BreakInv
  <2>2. Typed
    BY <2>1 DEF OrderInv
  <2>3. n \in Nat /\ prev \in Nat /\ log \in [Files -> Seq(Chunk)]
    BY <2>2 DEF Typed, TypeOK
  <2>4. 0 \in Files
    BY KeepAssumption DEF Files
  <2>5. QED BY <2>1, <2>2, <2>3, <2>4
<1>1. ASSUME pc = "write", NEW c \in {cur} \cup Parts
      PROVE  c \in Chunk /\ c.id = n /\ c.prev < c.id /\ UpTo(log[0], c.prev)
  BY <1>0, <1>1, PartsOfCur DEF BreakInv, InFlight, Typed, CallOK
<1>2. \A f \in Files : LinksBack(log'[f])
  <2> DEFINE S == {s \in Seq(Chunk) : LinksBack(s)}
  <2>1. \A f \in Files : log[f] \in S
    BY <1>0 DEF BreakInv
  <2>2. <<>> \in S
    BY DEF LinksBack
  <2>3. ASSUME NEW s \in S, NEW k \in 0..Len(s) PROVE SubSeq(s, 1, k) \in S
    BY PrefixElements, PrefixLinksBack
  <2>4. ASSUME pc = "write", NEW c \in {cur} \cup Parts PROVE Append(log[0], c) \in S
    <3>1. c \in Chunk /\ c.prev < c.id /\ UpTo(log[0], c.prev)
      BY <1>1, <2>4
    <3>2. Append(log[0], c) \in Seq(Chunk)
      BY <1>0, <3>1, AppendElements
    <3>3. LinksBack(log[0])
      BY <1>0 DEF BreakInv
    <3>4. QED BY <1>0, <3>1, <3>2, <3>3, AppendLinksBack
  <2> HIDE DEF S
  <2>5. \A f \in Files : log'[f] \in S
    BY <1>0, <2>1, <2>2, <2>3, <2>4, FilesIn
  <2>6. QED BY <2>5 DEF S
<1>3. \A e : UpTo(<<>>, e)
  BY DEF UpTo
<1>4. (pc = "idle" => prev <= n /\ UpTo(log[0], prev))'
      /\ (InFlight => prev = n /\ cur.prev < n /\ UpTo(log[0], cur.prev))'
  <2>a. CASE Start
    <3>1. prev' = ReadLastHash(log[0]) /\ log' = log /\ pc' = "idle" /\ n' = n /\ pc = "down"
      BY <2>a DEF Start
    <3>2. \A k \in 1..Len(log[0]) : log[0][k].id \in Nat /\ log[0][k].id < n + 1
      BY <1>0, <3>1, IdIsNat DEF OrderInv, Ordered, Below, InFlight
    <3>3. prev' <= n
      BY <1>0, <3>1, <3>2, ReadLastHashRange
    <3>4. ASSUME NEW j \in 1..Len(log[0]), Whole(log[0], j) PROVE log[0][j].id <= prev'
      <4>1. Readable(log[0], j)
        BY <3>4 DEF Whole, Readable
      <4>2. PICK k \in 1..Len(log[0]) : j <= k /\ prev' = log[0][k].id
        BY <1>0, <3>1, <4>1, ReadLastHashIs
      <4>3. Increasing(log[0])
        BY <1>0 DEF OrderInv, Ordered
      <4>4. j = k \/ j < k
        BY <4>2
      <4>5. QED BY <3>2, <4>2, <4>3, <4>4 DEF Increasing
    <3>5. UpTo(log'[0], prev')
      BY <3>1, <3>4 DEF UpTo
    <3>6. QED BY <3>1, <3>3, <3>5 DEF InFlight
  <2>b. CASE StartFails
    BY <2>b DEF StartFails, InFlight
  <2>c. ASSUME NEW s \in Sizes, LogBegin(s)
        PROVE  InFlight' /\ pc' # "idle" /\ prev' = n' /\ cur'.prev < n' /\ UpTo(log'[0], cur'.prev)
    <3>1. /\ InFlight' /\ pc' # "idle" /\ prev' = n + 1 /\ n' = n + 1
          /\ cur'.prev = prev /\ log' = log
      BY <2>c DEF LogBegin, InFlight
    <3>2. prev <= n /\ UpTo(log[0], prev)
      BY <2>c DEF LogBegin, BreakInv
    <3>3. QED BY <1>0, <3>1, <3>2
  <2>d. CASE Rename
    <3>1. /\ InFlight /\ InFlight' /\ prev' = prev /\ n' = n /\ cur' = cur
          /\ pc' # "idle" /\ ri \in 0..(Keep - 1)
      BY <1>0, <2>d DEF Rename, AfterRenames, InFlight, Typed, CallOK
    <3>2. log'[0] = log[0] \/ log'[0] = <<>>
      <4>1. ri \in Files /\ ri + 1 \in Files /\ ri + 1 # 0
        BY <3>1, KeepAssumption DEF Files
      <4>2. QED BY <1>0, <2>d, <4>1 DEF Rename, Shifted
    <3>3. QED BY <1>3, <3>1, <3>2 DEF BreakInv
  <2>e. CASE Expire
    <3>1. /\ InFlight /\ InFlight' /\ prev' = prev /\ n' = n /\ cur' = cur /\ pc' # "idle"
      BY <2>e DEF Expire, InFlight
    <3>2. log'[0] = log[0] \/ log'[0] = <<>>
      BY <1>0, <2>e DEF Expire
    <3>3. QED BY <1>3, <3>1, <3>2 DEF BreakInv
  <2>f. CASE Reopen
    BY <2>f DEF Reopen, BreakInv, InFlight
  <2>g. CASE Write
    <3>1. /\ pc = "write" /\ InFlight /\ pc' = "idle" /\ prev' = prev /\ n' = n
      BY <2>g DEF Write, InFlight
    <3>2. prev = n /\ cur.prev < n /\ UpTo(log[0], cur.prev) /\ cur \in Chunk
      BY <1>0, <3>1 DEF BreakInv, Typed, CallOK
    <3>3. cur.prev \in Nat
      BY <3>2 DEF Chunk
    <3>4. \A j \in 1..Len(log[0]) : log[0][j].id \in Nat
      BY <1>0, IdIsNat
    <3>5. UpTo(log[0], n)
      BY <1>0, <3>2, <3>3, <3>4 DEF UpTo
    <3>6. ASSUME NEW c \in {cur} \cup Parts, log' = Appended(c) PROVE UpTo(log'[0], n)
      <4> DEFINE t == Append(log[0], c)
      <4>1. c \in Chunk /\ c.id = n /\ log'[0] = t
        BY <1>0, <1>1, <3>1, <3>6 DEF Appended
      <4>2. /\ Len(t) = Len(log[0]) + 1 /\ t[Len(log[0]) + 1] = c
            /\ \A i \in 1..Len(log[0]) : t[i] = log[0][i]
            /\ \A i \in 1..Len(t) : i \in 1..Len(log[0]) \/ i = Len(log[0]) + 1
        BY <1>0, <4>1, AppendElements
      <4>3. \A i \in 1..Len(log[0]) : Whole(t, i) <=> Whole(log[0], i)
        BY <1>0, <4>1, AppendWhole
      <4> HIDE DEF t
      <4>4. UpTo(t, n)
        BY <1>0, <3>5, <4>1, <4>2, <4>3 DEF UpTo
      <4>5. QED BY <4>1, <4>4
    <3>7. UpTo(log'[0], n)
      BY <2>g, <3>5, <3>6 DEF Write
    <3>8. QED BY <1>0, <3>1, <3>2, <3>7 DEF InFlight
  <2>h. CASE Close
    BY <2>h DEF Close, BreakInv, InFlight
  <2>i. CASE Exit \/ Crash \/ PowerLoss
    BY <2>i DEF Exit, Crash, PowerLoss, Down, InFlight
  <2>j. CASE UNCHANGED vars
    BY <2>j DEF vars, BreakInv, InFlight
  <2>k. QED
    BY <2>a, <2>b, <2>c, <2>d, <2>e, <2>f, <2>g, <2>h, <2>i, <2>j DEF Next, InFlight
<1>5. QED
  BY <1>0, <1>2, <1>4 DEF BreakInv

\* A line that does not link to its neighbour is never a false alarm: whatever
\* fails, the first event missing between the two is one that was stamped, as
\* long as a start finds the last line in its window.
THEOREM BreaksAreLosses == Spec /\ []LastLineInWindow => []BreakMeansLoss
<1>1. BreakInv => BreakMeansLoss
  <2> SUFFICES ASSUME BreakInv, NEW f \in Files,
                      NEW j \in 1..Len(log[f]), NEW k \in 1..Len(log[f]), Neighbours(f, j, k)
               PROVE  log[f][k].prev \in log[f][j].id .. (log[f][k].id - 1)
    BY DEF BreakMeansLoss
  <2>0. log \in [Files -> Seq(Chunk)]
    BY DEF BreakInv, OrderInv, Typed, TypeOK
  <2>1. j < k /\ Readable(log[f], j)
    BY DEF Neighbours, IsReadable
  <2>2. Whole(log[f], j)
    <3>1. j # Len(log[f])
      BY <2>0, <2>1
    <3>2. QED BY <2>1, <3>1 DEF Readable, Whole
  <2>3. log[f][k].prev < log[f][k].id /\ log[f][j].id <= log[f][k].prev
    BY <2>1, <2>2 DEF BreakInv, LinksBack
  <2>4. log[f][k].prev \in Nat /\ log[f][k].id \in Nat /\ log[f][j].id \in Nat
    BY <2>0, FieldTypes
  <2>5. QED BY <2>3, <2>4
<1>2. QED
  BY InitBreak, NextBreak, <1>1, PTL DEF Spec

-----------------------------------------------------------------------------
(* Files of whole lines. *)

\* While no Write is cut short, every chunk is a whole line of a legal size.
LineInv ==
    /\ Typed
    /\ \A f \in Files : \A k \in 1..Len(log[f]) :
           log[f][k].form = "line" /\ log[f][k].size \in Sizes
    /\ InFlight => cur.form = "line" /\ cur.size \in Sizes

\* There is no chunk at the start.
LEMMA InitLine == Init => LineInv
<1> SUFFICES ASSUME Init PROVE LineInv
  OBVIOUS
<1>1. \A f \in Files : log[f] = <<>>
  BY DEF Init
<1>2. QED BY <1>1, InitTyped DEF LineInv, Init, InFlight

\* Every step keeps the files made of whole lines.
LEMMA NextLine ==
    ASSUME "torn" \notin Faults
    PROVE  LineInv /\ [Next]_vars => LineInv'
<1> SUFFICES ASSUME LineInv, [Next]_vars PROVE LineInv'
  OBVIOUS
<1>a. Typed
  BY DEF LineInv
<1>0. /\ Typed /\ Typed' /\ 0 \in Files /\ log[0] \in Seq(Chunk)
      /\ log \in [Files -> Seq(Chunk)]
  BY <1>a, NextTyped, KeepAssumption DEF Typed, TypeOK, Files
<1>1. \A f \in Files : \A k \in 1..Len(log'[f]) :
         log'[f][k].form = "line" /\ log'[f][k].size \in Sizes
  <2> DEFINE S == {s \in Seq(Chunk) :
                      \A k \in 1..Len(s) : s[k].form = "line" /\ s[k].size \in Sizes}
  <2>1. \A f \in Files : log[f] \in S
    BY <1>0 DEF LineInv
  <2>2. <<>> \in S
    OBVIOUS
  <2>3. ASSUME NEW s \in S, NEW k \in 0..Len(s) PROVE SubSeq(s, 1, k) \in S
    <3> DEFINE t == SubSeq(s, 1, k)
    <3>1. t \in Seq(Chunk) /\ Len(t) = k /\ \A i \in 1..k : i \in 1..Len(s) /\ t[i] = s[i]
      BY PrefixElements
    <3> HIDE DEF t
    <3>2. t \in S
      BY <3>1
    <3>3. QED BY <3>2 DEF t
  <2>4. ASSUME pc = "write" PROVE Append(log[0], cur) \in S
    <3>1. cur \in Chunk /\ cur.form = "line" /\ cur.size \in Sizes
      BY <2>4, <1>0 DEF LineInv, InFlight, Typed, CallOK
    <3> DEFINE s == log[0]
               t == Append(s, cur)
    <3>2. s \in Seq(Chunk) /\ \A k \in 1..Len(s) : s[k].form = "line" /\ s[k].size \in Sizes
      BY <1>0, <2>1
    <3>3. /\ t \in Seq(Chunk) /\ Len(t) = Len(s) + 1 /\ t[Len(s) + 1] = cur
          /\ \A i \in 1..Len(s) : t[i] = s[i]
          /\ \A i \in 1..Len(t) : i \in 1..Len(s) \/ i = Len(s) + 1
      BY <3>1, <3>2, AppendElements
    <3> HIDE DEF s, t
    <3>4. t \in S
      BY <3>1, <3>2, <3>3
    <3>5. QED BY <3>4 DEF s, t
  <2> HIDE DEF S
  <2>5. \A f \in Files : log'[f] \in S
    BY <1>0, <2>1, <2>2, <2>3, <2>4, FilesIn
  <2>6. QED BY <2>5 DEF S
<1>2. (InFlight => cur.form = "line" /\ cur.size \in Sizes)'
  <2>1. ASSUME NEW s \in Sizes, LogBegin(s) PROVE cur'.form = "line" /\ cur'.size \in Sizes
    BY <2>1 DEF LogBegin
  <2>2. ASSUME InFlight, cur' = cur PROVE cur'.form = "line" /\ cur'.size \in Sizes
    BY <2>2 DEF LineInv
  <2>3. CASE Rename \/ Expire \/ Reopen
    BY <2>2, <2>3 DEF Rename, Expire, Reopen, InFlight
  <2>4. CASE Start \/ StartFails \/ Write \/ Close \/ Exit \/ Crash \/ PowerLoss
    BY <2>4 DEF Start, StartFails, Write, Close, Exit, Crash, PowerLoss, Down, InFlight
  <2>5. CASE UNCHANGED vars
    BY <2>2, <2>5 DEF vars, InFlight
  <2>6. QED BY <2>1, <2>3, <2>4, <2>5 DEF Next
<1>3. QED BY <1>0, <1>1, <1>2 DEF LineInv

\* The size of a file of one line is the line's.
LEMMA SizeOfOne ==
    ASSUME NEW c \in Chunk
    PROVE  Size(<<c>>) = c.size
<1>1. <<c>> = Append(<<>>, c) /\ <<>> \in Seq(Chunk)
  OBVIOUS
<1>2. c.size \in Nat
  BY DEF Chunk
<1>3. Size(Append(<<>>, c)) = Size(<<>>) + c.size
  BY <1>1, SizeAppend
<1>4. QED BY <1>1, <1>2, <1>3, SizeEmpty

\* The last chunk of a file of lines that fit the window is in the window.
LEMMA LastInWindow ==
    ASSUME LineInv, \A s \in Sizes : s <= Window, log[0] # <<>>
    PROVE  /\ Readable(log[0], Len(log[0])) /\ Len(log[0]) \in 1..Len(log[0])
           /\ Size(SubSeq(log[0], Len(log[0]), Len(log[0]))) <= Window
<1> DEFINE s == log[0]
           m == Len(s)
           t == SubSeq(s, m, m)
<1>1. 0 \in Files /\ s \in Seq(Chunk)
  BY KeepAssumption DEF LineInv, Typed, TypeOK, Files
<1>2. m \in 1..m /\ m \in Nat \ {0}
  BY <1>1, EmptySeq
<1>3. s[m] \in Chunk /\ s[m].size \in Sizes /\ s[m].form = "line"
  <2>1. s[m] \in Chunk
    BY <1>1, <1>2, ElementOfSeq
  <2>2. \A k \in 1..m : s[k].size \in Sizes /\ s[k].form = "line"
    BY <1>1 DEF LineInv
  <2>3. QED BY <1>2, <2>1, <2>2
<1>4. m = 1 \/ m - 1 \in 1..m
  <2> HIDE DEF m
  <2>1. QED BY <1>2
<1>5. Readable(s, m)
  BY <1>1, <1>2, <1>3, <1>4 DEF Readable, StartsLine, LineInv
<1>6. t = <<s[m]>>
  <2>1. \A i \in m..m : s[i] \in Chunk
    BY <1>2, <1>3
  <2>2. t \in Seq(Chunk) /\ Len(t) = m - m + 1 /\ \A i \in 1..(m - m + 1) : t[i] = s[m + i - 1]
    BY <1>2, <2>1, SubSeqProperties
  <2>3. Len(t) = 1 /\ t[1] = s[m]
    BY <1>2, <2>2
  <2> HIDE DEF t
  <2>4. <<s[m]>> \in Seq(Chunk) /\ Len(<<s[m]>>) = 1 /\ <<s[m]>>[1] = s[m]
    BY <1>3
  <2>5. QED BY <2>2, <2>3, <2>4, SeqEqual
<1>7. QED BY <1>2, <1>3, <1>5, <1>6, SizeOfOne

\* While no Write is cut short and every line fits the window, the premise of
\* BreaksAreLosses holds: there are no false alarms at all.
WindowFits == "torn" \notin Faults /\ \A s \in Sizes : s <= Window

\* A file of whole lines that fit in the window ends with a line within it.
LEMMA FitsMeansInWindow ==
    ASSUME WindowFits, LineInv
    PROVE  LastLineInWindow
<1> SUFFICES ASSUME NEW k \in 1..Len(log[0]),
                    \A j \in 1..Len(log[0]) : Readable(log[0], j) => j <= k
             PROVE  Size(SubSeq(log[0], k, Len(log[0]))) <= Window
  BY DEF LastLineInWindow
<1>1. 0 \in Files /\ log[0] \in Seq(Chunk) /\ log[0] # <<>>
  BY KeepAssumption DEF LineInv, Typed, TypeOK, Files
<1>2. /\ Readable(log[0], Len(log[0])) /\ Len(log[0]) \in 1..Len(log[0])
      /\ Size(SubSeq(log[0], Len(log[0]), Len(log[0]))) <= Window
  BY <1>1, LastInWindow DEF WindowFits
<1>3. k = Len(log[0])
  BY <1>1, <1>2
<1>4. QED BY <1>2, <1>3

\* No false alarm while Writes are whole and every line fits the window that a
\* restart reads: where two neighbouring lines do not link, whatever has crashed
\* or failed, an event between them is missing.
THEOREM NoFalseAlarm == ASSUME WindowFits PROVE Spec => []BreakMeansLoss
<1>1. LineInv => LastLineInWindow
  BY FitsMeansInWindow
<1>2. LineInv /\ [Next]_vars => LineInv'
  BY NextLine DEF WindowFits
<1>3. QED
  BY InitLine, <1>1, <1>2, BreaksAreLosses, PTL DEF Spec

-----------------------------------------------------------------------------
(* The size limit. *)

\* Two files agree on a prefix when they agree on its elements.
LEMMA SamePrefix ==
    ASSUME NEW s \in Seq(Chunk), NEW t \in Seq(Chunk), NEW m \in Nat,
           m <= Len(s), m <= Len(t), \A i \in 1..m : s[i] = t[i]
    PROVE  SubSeq(s, 1, m) = SubSeq(t, 1, m)
<1>1. m \in 0..Len(s) /\ m \in 0..Len(t)
  OBVIOUS
<1>2. QED BY <1>1, PrefixElements, SeqEqual

\* Each line of s began below the limit.
Bounded(s) == \A k \in 1..Len(s) : Size(SubSeq(s, 1, k - 1)) < MaxSize

\* A cut file keeps the lines that began below the limit.
LEMMA PrefixBounded ==
    ASSUME NEW s \in Seq(Chunk), NEW k \in 0..Len(s), Bounded(s)
    PROVE  Bounded(SubSeq(s, 1, k))
<1> DEFINE t == SubSeq(s, 1, k)
<1>1. t \in Seq(Chunk) /\ Len(t) = k /\ \A i \in 1..k : i \in 1..Len(s) /\ t[i] = s[i]
  BY PrefixElements
<1> HIDE DEF t
<1>2. ASSUME NEW i \in 1..k PROVE SubSeq(t, 1, i - 1) = SubSeq(s, 1, i - 1)
  <2>1. i - 1 \in Nat /\ i - 1 <= Len(s) /\ i - 1 <= Len(t) /\ \A h \in 1..(i - 1) : h \in 1..k
    BY <1>1
  <2>2. QED BY <1>1, <2>1, SamePrefix
<1>3. Bounded(t)
  BY <1>1, <1>2 DEF Bounded
<1>4. QED BY <1>3 DEF t

\* A line written below the limit begins below it.
LEMMA AppendBounded ==
    ASSUME NEW s \in Seq(Chunk), NEW c \in Chunk, Bounded(s), Size(s) < MaxSize
    PROVE  Bounded(Append(s, c))
<1> DEFINE t == Append(s, c)
<1>1. /\ t \in Seq(Chunk) /\ Len(t) = Len(s) + 1 /\ Len(s) \in Nat
      /\ \A i \in 1..Len(s) : t[i] = s[i]
  BY AppendElements
<1> HIDE DEF t
<1>2. ASSUME NEW i \in 1..(Len(s) + 1) PROVE SubSeq(t, 1, i - 1) = SubSeq(s, 1, i - 1)
  <2>1. /\ i - 1 \in Nat /\ i - 1 <= Len(s) /\ i - 1 <= Len(t)
        /\ \A h \in 1..(i - 1) : h \in 1..Len(s)
    BY <1>1
  <2>2. QED BY <1>1, <2>1, SamePrefix
<1>3. SubSeq(s, 1, Len(s)) = s
  BY SubSeqFull
<1>4. ASSUME NEW i \in 1..Len(t) PROVE Size(SubSeq(t, 1, i - 1)) < MaxSize
  <2>1. CASE i \in 1..Len(s)
    BY <1>1, <1>2, <2>1 DEF Bounded
  <2>2. CASE i = Len(s) + 1
    <3>1. SubSeq(t, 1, i - 1) = SubSeq(s, 1, i - 1) /\ i - 1 = Len(s)
      BY <1>1, <1>2, <2>2
    <3>2. QED BY <1>3, <3>1
  <2>3. QED BY <1>1, <2>1, <2>2
<1>5. Bounded(t)
  BY <1>4 DEF Bounded
<1>6. QED BY <1>5 DEF t

\* What is about to be written finds audit.log below the limit.
SizeInv ==
    /\ Typed
    /\ \A f \in Files : Bounded(log[f])
    /\ pc \in {"expire", "reopen"} => log[0] = <<>>
    /\ pc = "write" /\ open => Size(log[0]) < MaxSize

\* The files are empty at the start.
LEMMA InitSize == Init => SizeInv
<1> SUFFICES ASSUME Init PROVE SizeInv
  OBVIOUS
<1>1. \A f \in Files : log[f] = <<>>
  BY DEF Init
<1>2. QED BY <1>1, InitTyped DEF SizeInv, Bounded, Init

\* Every step keeps SizeInv while no rename fails: a rotation leaves audit.log
\* empty before it is opened again.
LEMMA NextSize ==
    ASSUME MaxSize > 0, "dir" \notin Faults
    PROVE  SizeInv /\ [Next]_vars => SizeInv'
<1> SUFFICES ASSUME SizeInv, [Next]_vars PROVE SizeInv'
  OBVIOUS
<1>0. /\ Typed /\ Typed' /\ 0 \in Files /\ log[0] \in Seq(Chunk)
      /\ log \in [Files -> Seq(Chunk)]
  BY NextTyped, KeepAssumption DEF SizeInv, Typed, TypeOK, Files
<1>1. \A f \in Files : Bounded(log'[f])
  <2> DEFINE S == {s \in Seq(Chunk) : Bounded(s)}
  <2>1. \A f \in Files : log[f] \in S
    BY <1>0 DEF SizeInv
  <2>2. <<>> \in S
    BY DEF Bounded
  <2>3. ASSUME NEW s \in S, NEW k \in 0..Len(s) PROVE SubSeq(s, 1, k) \in S
    BY PrefixElements, PrefixBounded
  <2>4. ASSUME pc = "write", open, NEW c \in {cur} \cup Parts PROVE Append(log[0], c) \in S
    <3>1. c \in Chunk
      BY <1>0, <2>4, PartsOfCur DEF InFlight
    <3>2. Bounded(log[0]) /\ Size(log[0]) < MaxSize
      BY <1>0, <2>4 DEF SizeInv
    <3>3. Append(log[0], c) \in Seq(Chunk)
      BY <1>0, <3>1, AppendElements
    <3>4. QED BY <1>0, <3>1, <3>2, <3>3, AppendBounded
  <2> HIDE DEF S
  <2>5. \A f \in Files : log'[f] \in S
    BY <1>0, <2>1, <2>2, <2>3, <2>4, FilesIn
  <2>6. QED BY <2>5 DEF S
<1>2. (pc \in {"expire", "reopen"} => log[0] = <<>>)'
      /\ (pc = "write" /\ open => Size(log[0]) < MaxSize)'
  <2>1. ASSUME NEW s \in Sizes, LogBegin(s)
        PROVE  /\ pc' \notin {"expire", "reopen"}
               /\ pc' = "write" /\ open' => Size(log'[0]) < MaxSize
    <3>1. Size(log[0]) \in Nat
      BY <1>0, SizeType
    <3>2. CASE open /\ Full
      BY <2>1, <3>2 DEF LogBegin
    <3>3. CASE ~(open /\ Full)
      BY <2>1, <3>1, <3>3, MaxSizeAssumption DEF LogBegin, Full
    <3>4. QED BY <3>2, <3>3
  <2>2. CASE Rename
    <3>1. ri \in 0..(Keep - 1) /\ pc' # "write" /\ log' = Shifted(ri)
          /\ (pc' # "rename" => ri = 0)
      BY <1>0, <2>2 DEF Rename, AfterRenames, Typed, CallOK
    <3>2. ASSUME ri = 0 PROVE log'[0] = <<>>
      <4>1. 1 \in Files
        BY KeepAssumption DEF Files
      <4>2. QED BY <1>0, <3>1, <3>2, <4>1 DEF Shifted
    <3>3. QED BY <3>1, <3>2
  <2>3. CASE Expire
    BY <1>0, <2>3 DEF Expire, SizeInv
  <2>4. CASE Reopen
    BY <2>4, SizeEmpty DEF Reopen, SizeInv
  <2>5. CASE Start \/ StartFails \/ Write \/ Close \/ Exit \/ Crash \/ PowerLoss
    BY <2>5 DEF Start, StartFails, Write, Close, Exit, Crash, PowerLoss, Down
  <2>6. CASE UNCHANGED vars
    BY <2>6 DEF vars, SizeInv
  <2>7. QED BY <2>1, <2>2, <2>3, <2>4, <2>5, <2>6 DEF Next
<1>3. QED BY <1>0, <1>1, <1>2 DEF SizeInv

\* While no rename fails, no file grows past the limit by more than the line that
\* crosses it, through crashes, cut Writes and failing reopenings.
THEOREM SizesBounded == ASSUME "dir" \notin Faults PROVE Spec => []SizeBounded
<1>1. CASE MaxSize > 0
  <2>1. SizeInv => SizeBounded
    BY DEF SizeInv, SizeBounded, Bounded
  <2>2. SizeInv /\ [Next]_vars => SizeInv'
    BY <1>1, NextSize
  <2>3. QED BY InitSize, <2>1, <2>2, PTL DEF Spec
<1>2. CASE ~(MaxSize > 0)
  <2>1. SizeBounded
    BY <1>2 DEF SizeBounded
  <2>2. QED BY <2>1, PTL
<1>3. QED BY <1>1, <1>2

-----------------------------------------------------------------------------
(* VerifyLog, line by line. *)

Report == [TotalEvents : Nat, ValidEvents : Nat, BrokenChain : Nat,
           FirstBreak : Nat, InvalidHash : Nat, prevHash : Nat]

\* a is what VerifyLog has found in f, under the key k, after each chunk.
Reports(f, k, a) ==
    a = [i \in 0..Len(f) |-> IF i = 0 THEN EmptyReport ELSE VerifyLine(f, k, a[i - 1], i)]

\* VerifyLog goes through the file chunk by chunk.
LEMMA VerifyLogIs ==
    ASSUME NEW f \in Seq(Chunk), NEW k
    PROVE  \E a : Reports(f, k, a) /\ VerifyLog(f, k) = a[Len(f)]
<1> DEFINE Step(a, i) == IF i = 0 THEN EmptyReport ELSE VerifyLine(f, k, a[i - 1], i)
           Upto(m, a) == a = [i \in 0..m |-> Step(a, i)]
           T == {m \in Nat : \E a : Upto(m, a)}
<1>0. Len(f) \in Nat
  OBVIOUS
<1>1. 0 \in T
  <2> DEFINE a == [i \in 0..0 |-> EmptyReport]
  <2>1. Upto(0, a)
    OBVIOUS
  <2> HIDE DEF Upto, a
  <2>2. QED BY <2>1
<1>2. ASSUME NEW m \in Nat, m \in T PROVE m + 1 \in T
  <2> HIDE DEF Upto
  <2>1. PICK a : Upto(m, a)
    BY <1>2
  <2> DEFINE b == [i \in 0..(m + 1) |-> IF i = m + 1 THEN Step(a, i) ELSE a[i]]
  <2>2. Upto(m + 1, b)
    <3> USE DEF Upto
    <3> HIDE DEF Step
    <3>1. \A i \in 0..m : a[i] = Step(a, i) /\ b[i] = a[i]
      <4>1. \A i \in 0..m : a[i] = Step(a, i)
        <5> HIDE DEF b
        <5>1. QED BY <2>1
      <4>2. \A i \in 0..m : b[i] = a[i]
        OBVIOUS
      <4>3. QED BY <4>1, <4>2
    <3>2. ASSUME NEW i \in 0..(m + 1) PROVE b[i] = Step(b, i)
      <4>1. CASE i = 0
        <5> HIDE DEF b
        <5>1. 0 \in 0..m
          OBVIOUS
        <5>2. b[0] = Step(a, 0)
          BY <3>1, <5>1
        <5>3. QED BY <4>1, <5>2 DEF Step
      <4>2. CASE i # 0
        <5>1. i - 1 \in 0..m /\ b[i - 1] = a[i - 1]
          BY <3>1, <4>2
        <5> HIDE DEF b
        <5>2. Step(b, i) = Step(a, i)
          BY <4>2, <5>1 DEF Step
        <5>3. b[i] = Step(a, i)
          <6>1. CASE i = m + 1
            BY <6>1 DEF b
          <6>2. CASE i # m + 1
            <7>1. i \in 0..m
              BY <6>2
            <7>2. QED BY <3>1, <7>1
          <6>3. QED BY <6>1, <6>2
        <5>4. QED BY <5>2, <5>3
      <4>3. QED BY <4>1, <4>2
    <3>3. b = [i \in 0..(m + 1) |-> b[i]]
      OBVIOUS
    <3> HIDE DEF b
    <3>4. QED BY <3>2, <3>3
  <2> HIDE DEF b
  <2>3. QED BY <2>2
<1>3. PICK a : Upto(Len(f), a)
  <2> HIDE DEF Upto
  <2>1. T \subseteq Nat
    OBVIOUS
  <2>2. Len(f) \in T
    <3> HIDE DEF T
    <3>1. QED BY <1>0, <1>1, <1>2, NatInduct
  <2>3. QED BY <2>2
<1> DEFINE w == CHOOSE w : Upto(Len(f), w)
<1>4. Upto(Len(f), w)
  <2> HIDE DEF Upto
  <2>1. QED BY <1>3
<1>5. VerifyLog(f, k) = w[Len(f)]
  BY DEF VerifyLog
<1> HIDE DEF w
<1>6. Reports(f, k, w)
  BY <1>4 DEF Reports
<1>7. QED BY <1>5, <1>6

\* VerifyLog begins with a report that has counted nothing.
LEMMA EmptyReportIs ==
    EmptyReport \in Report /\ EmptyReport.InvalidHash = 0
    /\ EmptyReport.BrokenChain = 0 /\ EmptyReport.prevHash = 0
BY DEF EmptyReport, Report

\* In a file of whole lines every chunk is an event: VerifyLog counts a break
\* where it does not link and a bad hash where its key is another one.
LEMMA VerifyLineIs ==
    ASSUME NEW f \in Seq(Chunk), NEW k, NEW i \in 1..Len(f), NEW r \in Report,
           \A j \in 1..Len(f) : f[j].form = "line"
    PROVE  /\ VerifyLine(f, k, r, i) \in Report
           /\ VerifyLine(f, k, r, i).prevHash = f[i].id
           /\ VerifyLine(f, k, r, i).BrokenChain =
                 IF f[i].prev = r.prevHash THEN r.BrokenChain ELSE r.BrokenChain + 1
           /\ VerifyLine(f, k, r, i).InvalidHash =
                 IF f[i].key = k THEN r.InvalidHash ELSE r.InvalidHash + 1
<1> DEFINE c  == f[i]
           r1 == [r EXCEPT !.TotalEvents = @ + 1]
           v  == VerifyEvent(r1, c, k)
<1>1. StartsLine(f, i) /\ Readable(f, i)
  <2>1. i = 1 \/ i - 1 \in 1..Len(f)
    OBVIOUS
  <2>2. QED BY <2>1 DEF StartsLine, Readable
<1>2. VerifyLine(f, k, r, i) = v
  BY <1>1 DEF VerifyLine
<1>3. c.id \in Nat
  <2>1. c \in Chunk
    BY ElementOfSeq
  <2>2. QED BY <2>1 DEF Chunk
<1> HIDE DEF c
<1>4. PICK total \in Nat, valid \in Nat, broken \in Nat, first \in Nat, bad \in Nat, h \in Nat :
         r1 = [TotalEvents |-> total, ValidEvents |-> valid, BrokenChain |-> broken,
               FirstBreak |-> first, InvalidHash |-> bad, prevHash |-> h]
         /\ r.BrokenChain = broken /\ r.InvalidHash = bad /\ r.prevHash = h
  <2>1. r1 = [TotalEvents |-> r.TotalEvents + 1, ValidEvents |-> r.ValidEvents,
              BrokenChain |-> r.BrokenChain, FirstBreak |-> r.FirstBreak,
              InvalidHash |-> r.InvalidHash, prevHash |-> r.prevHash]
    BY DEF Report
  <2>2. /\ r.TotalEvents + 1 \in Nat /\ r.ValidEvents \in Nat /\ r.BrokenChain \in Nat
        /\ r.FirstBreak \in Nat /\ r.InvalidHash \in Nat /\ r.prevHash \in Nat
    BY DEF Report
  <2> HIDE DEF r1
  <2>3. QED BY <2>1, <2>2
<1> HIDE DEF r1
<1> DEFINE broken1 == IF c.prev = h THEN broken ELSE broken + 1
           valid1  == IF c.key = k THEN valid + 1 ELSE valid
           bad1    == IF c.key = k THEN bad ELSE bad + 1
           first1  == IF first # 0 \/ (c.prev = h /\ c.key = k) THEN first ELSE total
<1>5. v = [TotalEvents |-> total, ValidEvents |-> valid1, BrokenChain |-> broken1,
           FirstBreak |-> first1, InvalidHash |-> bad1, prevHash |-> c.id]
  <2>1. /\ r1.TotalEvents = total /\ r1.ValidEvents = valid /\ r1.BrokenChain = broken
        /\ r1.FirstBreak = first /\ r1.InvalidHash = bad /\ r1.prevHash = h
    BY <1>4
  <2>2. v = [r1 EXCEPT !.BrokenChain = broken1, !.ValidEvents = valid1, !.InvalidHash = bad1,
                       !.FirstBreak = first1, !.prevHash = c.id]
    BY <2>1 DEF VerifyEvent
  <2> HIDE DEF v, broken1, valid1, bad1, first1
  <2>3. QED BY <1>4, <2>2
<1>6. broken1 \in Nat /\ valid1 \in Nat /\ bad1 \in Nat /\ first1 \in Nat
  OBVIOUS
<1> HIDE DEF v
<1>7. v \in Report
  <2> HIDE DEF broken1, valid1, bad1, first1
  <2>1. QED BY <1>3, <1>5, <1>6 DEF Report
<1>8. v.prevHash = c.id /\ v.BrokenChain = broken1 /\ v.InvalidHash = bad1
  <2> HIDE DEF broken1, valid1, bad1, first1
  <2>1. QED BY <1>5
<1>9. QED BY <1>2, <1>4, <1>7, <1>8 DEF c

-----------------------------------------------------------------------------
(* The key. *)

\* Everything that is written is hashed under the key that is on disk, and a key
\* is only generated while there is nothing to verify.
HashInv ==
    /\ LineInv
    /\ keyFile = 0 => pc = "down" /\ \A f \in Files : log[f] = <<>>
    /\ \A f \in Files : \A k \in 1..Len(log[f]) : log[f][k].key = keyFile
    /\ pc # "down" /\ open => key = keyFile
    /\ pc \in {"rename", "expire", "reopen"} => key = keyFile /\ cur.key = keyFile
    /\ pc = "write" /\ open => cur.key = keyFile

\* The key is neither lost nor unreadable, and no line is cut.
KeySafe == Faults \cap {"keyread", "torn"} = {}

\* Nothing has been hashed at the start.
LEMMA InitHash == Init => HashInv
<1> SUFFICES ASSUME Init PROVE HashInv
  OBVIOUS
<1>1. \A f \in Files : log[f] = <<>>
  BY DEF Init
<1>2. QED BY <1>1, InitLine DEF HashInv, Init

\* Every step keeps HashInv.
LEMMA NextHash == ASSUME KeySafe PROVE HashInv /\ [Next]_vars => HashInv'
<1> SUFFICES ASSUME HashInv, [Next]_vars PROVE HashInv'
  OBVIOUS
<1>a. LineInv /\ "torn" \notin Faults /\ "keyread" \notin Faults
  BY DEF HashInv, KeySafe
<1>b. LineInv' /\ Typed
  BY <1>a, NextLine DEF LineInv
<1>0. /\ 0 \in Files /\ log[0] \in Seq(Chunk) /\ log \in [Files -> Seq(Chunk)]
      /\ keyFile \in Nat /\ boot \in Nat
  BY <1>b, KeepAssumption DEF Typed, TypeOK, Files
<1>1. ASSUME keyFile' = keyFile, keyFile = 0 => pc' = "down" /\ log' = log
      PROVE  /\ keyFile' = 0 => pc' = "down" /\ \A f \in Files : log'[f] = <<>>
             /\ \A f \in Files : \A k \in 1..Len(log'[f]) : log'[f][k].key = keyFile'
  <2> DEFINE S == {s \in Seq(Chunk) : \A k \in 1..Len(s) : s[k].key = keyFile}
  <2>1. \A f \in Files : log[f] \in S
    BY <1>0 DEF HashInv
  <2>2. <<>> \in S
    OBVIOUS
  <2>3. ASSUME NEW s \in S, NEW k \in 0..Len(s) PROVE SubSeq(s, 1, k) \in S
    <3> DEFINE t == SubSeq(s, 1, k)
    <3>1. t \in Seq(Chunk) /\ Len(t) = k /\ \A i \in 1..k : i \in 1..Len(s) /\ t[i] = s[i]
      BY PrefixElements
    <3> HIDE DEF t
    <3>2. t \in S
      BY <3>1
    <3>3. QED BY <3>2 DEF t
  <2>4. ASSUME pc = "write", open PROVE Append(log[0], cur) \in S
    <3>1. cur \in Chunk /\ cur.key = keyFile
      BY <1>b, <2>4 DEF HashInv, Typed, CallOK, InFlight
    <3> DEFINE s == log[0]
               t == Append(s, cur)
    <3>2. s \in Seq(Chunk) /\ \A k \in 1..Len(s) : s[k].key = keyFile
      BY <1>0, <2>1
    <3>3. /\ t \in Seq(Chunk) /\ Len(t) = Len(s) + 1 /\ t[Len(s) + 1] = cur
          /\ \A i \in 1..Len(s) : t[i] = s[i]
          /\ \A i \in 1..Len(t) : i \in 1..Len(s) \/ i = Len(s) + 1
      BY <3>1, <3>2, AppendElements
    <3> HIDE DEF s, t
    <3>4. t \in S
      BY <3>1, <3>2, <3>3
    <3>5. QED BY <3>4 DEF s, t
  <2> HIDE DEF S
  <2>5. \A f \in Files : log'[f] \in S
    BY <1>a, <1>b, <2>1, <2>2, <2>3, <2>4, FilesIn
  <2>6. \A f \in Files : \A k \in 1..Len(log'[f]) : log'[f][k].key = keyFile
    BY <2>5 DEF S
  <2>7. keyFile = 0 => pc' = "down" /\ \A f \in Files : log'[f] = <<>>
    BY <1>1 DEF HashInv
  <2>8. QED BY <1>1, <2>6, <2>7
<1> DEFINE Key == /\ pc # "down" /\ open => key = keyFile
                  /\ pc \in {"rename", "expire", "reopen"} => key = keyFile /\ cur.key = keyFile
                  /\ pc = "write" /\ open => cur.key = keyFile
<1>2. ASSUME keyFile' = keyFile, keyFile = 0 => pc' = "down" /\ log' = log, Key'
      PROVE  HashInv'
  BY <1>b, <1>1, <1>2 DEF HashInv
<1>3. pc # "down" => keyFile # 0
  BY DEF HashInv
<1>c. CASE Start
  <2>1. log' = log /\ pc' = "idle" /\ key' = keyFile' /\ keyFile' # 0
        /\ (keyFile # 0 => keyFile' = keyFile)
    BY <1>a, <1>0, <1>c DEF Start
  <2>2. \A f \in Files : \A k \in 1..Len(log'[f]) : log'[f][k].key = keyFile'
    <3>1. CASE keyFile # 0
      BY <2>1, <3>1 DEF HashInv
    <3>2. CASE keyFile = 0
      BY <2>1, <3>2 DEF HashInv
    <3>3. QED BY <3>1, <3>2
  <2>3. QED BY <1>b, <2>1, <2>2 DEF HashInv
<1>d. CASE StartFails
  <2>1. keyFile' = 0 /\ keyFile = 0 /\ log' = log /\ pc' = "down" /\ pc = "down"
    BY <1>a, <1>d DEF StartFails
  <2>2. QED BY <1>2, <2>1
<1>e. ASSUME NEW s \in Sizes, LogBegin(s) PROVE HashInv'
  <2>1. keyFile' = keyFile /\ key' = key /\ cur'.key = key /\ pc = "idle"
        /\ pc' \in {"rename", "write"} /\ (pc' = "rename" => open)
    BY <1>e DEF LogBegin
  <2>2. open => key = keyFile
    BY <2>1 DEF HashInv
  <2>3. Key'
    <3>1. open' => open
      BY <1>e DEF LogBegin
    <3>2. QED BY <2>1, <2>2, <3>1
  <2>4. QED BY <1>2, <1>3, <2>1, <2>3
<1>f. CASE Rename
  <2>1. /\ pc = "rename" /\ pc' \in {"rename", "expire", "reopen"}
        /\ keyFile' = keyFile /\ key' = key /\ cur' = cur
    BY <1>f DEF Rename, AfterRenames
  <2>2. key = keyFile /\ cur.key = keyFile
    BY <2>1 DEF HashInv
  <2>3. QED BY <1>2, <1>3, <2>1, <2>2
<1>g. CASE Expire
  <2>1. /\ pc = "expire" /\ pc' \in {"rename", "expire", "reopen"}
        /\ keyFile' = keyFile /\ key' = key /\ cur' = cur
    BY <1>g DEF Expire
  <2>2. key = keyFile /\ cur.key = keyFile
    BY <2>1 DEF HashInv
  <2>3. QED BY <1>2, <1>3, <2>1, <2>2
<1>h. CASE Reopen
  <2>1. /\ pc = "reopen" /\ pc' = "write"
        /\ keyFile' = keyFile /\ key' = key /\ cur' = cur
    BY <1>h DEF Reopen
  <2>2. key = keyFile /\ cur.key = keyFile
    BY <2>1 DEF HashInv
  <2>3. QED BY <1>2, <1>3, <2>1, <2>2
<1>i. CASE Write
  <2>1. pc = "write" /\ pc' = "idle" /\ keyFile' = keyFile /\ key' = key /\ open' = open
    BY <1>i DEF Write
  <2>2. open => key = keyFile
    BY <2>1 DEF HashInv
  <2>3. QED BY <1>2, <1>3, <2>1, <2>2
<1>j. CASE Close
  BY <1>2, <1>3, <1>j DEF Close
<1>k. CASE Exit \/ Crash \/ PowerLoss
  <2>1. pc # "down" /\ pc' = "down" /\ keyFile' = keyFile
    BY <1>k DEF Exit, Crash, PowerLoss, Down
  <2>2. QED BY <1>2, <1>3, <2>1
<1>l. CASE UNCHANGED vars
  BY <1>2, <1>3, <1>l DEF vars, HashInv
<1>m. QED
  BY <1>c, <1>d, <1>e, <1>f, <1>g, <1>h, <1>i, <1>j, <1>k, <1>l DEF Next

\* A file of whole lines hashed under k verifies under k.
LEMMA VerifiesClean ==
    ASSUME NEW f \in Seq(Chunk), NEW k,
           \A i \in 1..Len(f) : f[i].form = "line" /\ f[i].key = k
    PROVE  VerifyLog(f, k).InvalidHash = 0
<1>1. PICK a : Reports(f, k, a) /\ VerifyLog(f, k) = a[Len(f)]
  BY VerifyLogIs
<1>0. Len(f) \in Nat
  OBVIOUS
<1> DEFINE T == {i \in Nat : i <= Len(f) => a[i] \in Report /\ a[i].InvalidHash = 0}
<1>2. 0 \in T
  <2>1. a[0] = EmptyReport
    BY <1>0, <1>1 DEF Reports
  <2>2. QED BY <2>1, EmptyReportIs
<1>3. ASSUME NEW i \in Nat, i \in T PROVE i + 1 \in T
  <2> SUFFICES ASSUME i + 1 <= Len(f)
               PROVE  a[i + 1] \in Report /\ a[i + 1].InvalidHash = 0
    OBVIOUS
  <2>1. a[i] \in Report /\ a[i].InvalidHash = 0 /\ i + 1 \in 1..Len(f)
    BY <1>0, <1>3
  <2>2. a[i + 1] = VerifyLine(f, k, a[i], i + 1)
    BY <1>0, <1>1 DEF Reports
  <2>3. QED BY <2>1, <2>2, VerifyLineIs
<1>4. Len(f) \in T
  <2> HIDE DEF T
  <2>1. QED BY <1>0, <1>2, <1>3, NatInduct
<1>5. QED BY <1>0, <1>1, <1>4

\* Whatever else fails, and however the process or the machine stops, VerifyLog
\* finds no bad hash: no line is ever hashed under a key that Close has wiped or
\* that a start has replaced.
THEOREM HashesStayValid == ASSUME KeySafe PROVE Spec => []HashesVerify
<1>1. HashInv => HashesVerify
  <2> SUFFICES ASSUME HashInv, NEW f \in Files
               PROVE  VerifyLog(log[f], keyFile).InvalidHash = 0
    BY DEF HashesVerify
  <2>1. log[f] \in Seq(Chunk)
    BY DEF HashInv, LineInv, Typed, TypeOK
  <2>2. \A i \in 1..Len(log[f]) : log[f][i].form = "line" /\ log[f][i].key = keyFile
    BY DEF HashInv, LineInv
  <2>3. QED BY <2>1, <2>2, VerifiesClean
<1>2. HashInv /\ [Next]_vars => HashInv'
  BY NextHash
<1>3. QED
  BY InitHash, <1>1, <1>2, PTL DEF Spec

-----------------------------------------------------------------------------
(* The tip of the chain. *)

\* The chain's last event is on disk while no Write fails: the file ends with it.
TipIs(s, e) == e = IF s = <<>> THEN 0 ELSE Last(s).id

TipInv ==
    /\ LineInv
    /\ pc = "idle" /\ open => TipIs(log[0], prev)
    /\ InFlight => prev = n

WritesSafe == WindowFits /\ "write" \notin Faults

\* The logger is down at the start.
LEMMA InitTip == Init => TipInv
BY InitLine DEF Init, TipInv, InFlight

\* Every step keeps TipInv, whatever stops the process and whatever a rotation
\* leaves undone.
LEMMA NextTip == ASSUME WritesSafe PROVE TipInv /\ [Next]_vars => TipInv'
<1> SUFFICES ASSUME TipInv, [Next]_vars PROVE TipInv'
  OBVIOUS
<1>a. LineInv /\ WindowFits /\ "torn" \notin Faults /\ "write" \notin Faults
  BY DEF TipInv, WritesSafe, WindowFits
<1>b. LineInv' /\ Typed
  BY <1>a, NextLine DEF LineInv
<1>0. /\ 0 \in Files /\ log[0] \in Seq(Chunk) /\ log \in [Files -> Seq(Chunk)]
  BY <1>b, KeepAssumption DEF Typed, TypeOK, Files
<1>1. SUFFICES (pc = "idle" /\ open => TipIs(log[0], prev))' /\ (InFlight => prev = n)'
  BY <1>b DEF TipInv
<1>c. CASE Start
  <2>1. log' = log /\ prev' = ReadLastHash(log[0]) /\ pc' = "idle"
    BY <1>c DEF Start
  <2>2. CASE log[0] = <<>>
    <3>1. Len(log[0]) = 0
      BY <2>2
    <3>2. prev' = 0
      BY <1>0, <2>1, <3>1, ReadLastHashRange
    <3>3. QED BY <2>1, <2>2, <3>2 DEF TipIs, InFlight
  <2>3. CASE log[0] # <<>>
    <3>1. Readable(log[0], Len(log[0])) /\ Len(log[0]) \in 1..Len(log[0])
      BY <1>a, <2>3, LastInWindow DEF WindowFits
    <3>2. PICK k \in 1..Len(log[0]) : Len(log[0]) <= k /\ prev' = log[0][k].id
      BY <1>a, <1>b, <2>1, <3>1, FitsMeansInWindow, ReadLastHashIs
    <3>3. k = Len(log[0])
      BY <1>0, <3>2
    <3>4. QED BY <2>1, <2>3, <3>2, <3>3 DEF TipIs, InFlight, Last
  <2>4. QED BY <2>2, <2>3
<1>d. CASE StartFails
  BY <1>d DEF StartFails, InFlight
<1>e. ASSUME NEW s \in Sizes, LogBegin(s) PROVE InFlight' /\ pc' # "idle" /\ prev' = n'
  BY <1>e DEF LogBegin, InFlight
<1>f. CASE Rename \/ Expire \/ Reopen
  BY <1>f DEF Rename, AfterRenames, Expire, Reopen, TipInv, InFlight
<1>g. CASE Write
  <2>1. /\ pc = "write" /\ pc' = "idle" /\ open' = open /\ prev' = n /\ cur \in Chunk /\ cur.id = n
        /\ (open => log' = Appended(cur))
    BY <1>a, <1>b, <1>g DEF Write, TipInv, InFlight, Typed, CallOK
  <2>2. ASSUME open PROVE TipIs(log'[0], prev')
    <3> DEFINE t == Append(log[0], cur)
    <3>1. log'[0] = t
      BY <1>0, <2>1, <2>2 DEF Appended
    <3>2. t # <<>> /\ t[Len(t)] = cur
      BY <1>0, <2>1, AppendProperties
    <3> HIDE DEF t
    <3>3. QED BY <2>1, <3>1, <3>2 DEF TipIs, Last
  <2>3. QED BY <2>1, <2>2 DEF InFlight
<1>h. CASE Close \/ Exit \/ Crash \/ PowerLoss
  BY <1>h DEF Close, Exit, Crash, PowerLoss, Down, InFlight
<1>i. CASE UNCHANGED vars
  BY <1>i DEF vars, TipInv, InFlight
<1>j. QED
  BY <1>c, <1>d, <1>e, <1>f, <1>g, <1>h, <1>i DEF Next

\* Between two calls the memory agrees with the disk, over restarts, crashes and
\* rotations that fail half way.
THEOREM TipOnDisk == ASSUME WritesSafe PROVE Spec => []ChainTipOnDisk
<1>1. TipInv => ChainTipOnDisk
  BY DEF TipInv, TipIs, ChainTipOnDisk
<1>2. TipInv /\ [Next]_vars => TipInv'
  BY NextTip
<1>3. QED
  BY InitTip, <1>1, <1>2, PTL DEF Spec

-----------------------------------------------------------------------------
(* Retention. *)

\* In a rotation the files in use are contiguous but for the one the next rename
\* goes to, which is free; before the first rename there is no such hole.
Hole == IF pc = "rename" /\ ri # Keep - 1 THEN ri + 1 ELSE 0

Packed(L, h) == \A f, g \in 1..Keep : g < f /\ L[f] # <<>> /\ g # h => L[g] # <<>>

AllEmpty(L) == \A f \in Files : L[f] = <<>>

HeadStored(L) == \E f \in Files : \E k \in 1..Len(L[f]) : L[f][k].prev = 0

AllUsed(L, h) == \A f \in 1..Keep : f # h => L[f] # <<>>

\* The head of the chain is stored until every rotated file is in use.
Retained(L, h) == AllEmpty(L) \/ HeadStored(L) \/ AllUsed(L, h)

RetainInv ==
    /\ TipInv
    /\ Packed(log, Hole) /\ (Hole # 0 => log[Hole] = <<>>)
    /\ Retained(log, Hole)
    /\ \A f \in 1..Keep : log[f] # <<>> => Size(log[f]) >= MaxSize
    /\ pc = "rename" => Size(log[0]) >= MaxSize
    /\ pc # "expire"
    /\ pc = "reopen" => ~AllEmpty(log)
    /\ pc = "write" /\ open /\ AllEmpty(log) => cur.prev = 0

\* Nothing stops the process inside a rotation or fails there, no Write fails,
\* and nothing is removed by age.
Undisturbed == WritesSafe /\ Faults \cap {"crash", "power", "dir"} = {} /\ ~MaxAge

\* The rename of file r leaves the files in use contiguous but for r.
LEMMA ShiftPacked ==
    ASSUME NEW L \in [Files -> Seq(Chunk)], NEW r \in 0..(Keep - 1),
           NEW h, h = IF r = Keep - 1 THEN 0 ELSE r + 1,
           Packed(L, h), L[0] # <<>>
    PROVE  /\ Packed([L EXCEPT ![r + 1] = L[r], ![r] = <<>>], r)
           /\ L[r] = <<>> => Packed(L, r)
<1> DEFINE M == [L EXCEPT ![r + 1] = L[r], ![r] = <<>>]
<1>0. /\ r \in Files /\ r + 1 \in Files /\ r # r + 1 /\ r + 1 # 0
      /\ \A g \in 1..Keep : g \in Files /\ g \in Nat
      /\ r \in Nat /\ Keep \in Nat
  BY KeepAssumption DEF Files
<1>1. /\ M[r + 1] = L[r] /\ M[r] = <<>>
      /\ \A g \in Files : g # r /\ g # r + 1 => M[g] = L[g]
  BY <1>0
<1> HIDE DEF M
<1>2. ASSUME NEW f \in 1..Keep, L[f] # <<>>, r < f PROVE L[r] # <<>>
  <2>1. CASE r = 0
    BY <2>1
  <2>2. CASE r # 0
    <3>1. r \in 1..Keep /\ r # h
      BY <1>0, <2>2
    <3>2. QED BY <1>2, <3>1 DEF Packed
  <2>3. QED BY <2>1, <2>2
<1>3. ASSUME NEW f \in 1..Keep, NEW g \in 1..Keep, g < f, M[f] # <<>>, g # r
      PROVE  M[g] # <<>>
  <2>1. CASE f = r + 1
    <3>1. g < r /\ r \in 1..Keep /\ L[r] # <<>> /\ g # h /\ g # r + 1
      BY <1>0, <1>1, <1>3, <2>1
    <3>2. QED BY <1>0, <1>1, <3>1 DEF Packed
  <2>2. CASE f # r + 1 /\ g = r + 1
    <3>1. L[f] # <<>> /\ r < f
      BY <1>0, <1>1, <1>3, <2>2
    <3>2. QED BY <1>1, <1>2, <2>2, <3>1
  <2>3. CASE f # r + 1 /\ g # r + 1
    <3>1. f # r
      BY <1>1, <1>3
    <3>2. M[f] = L[f] /\ M[g] = L[g]
      BY <1>0, <1>1, <1>3, <2>3, <3>1
    <3>3. g # h
      BY <1>0, <2>3
    <3>4. QED BY <1>3, <3>2, <3>3 DEF Packed
  <2>4. QED BY <2>1, <2>2, <2>3
<1>4. ASSUME L[r] = <<>>, NEW f \in 1..Keep, NEW g \in 1..Keep, g < f, L[f] # <<>>, g # r
      PROVE  L[g] # <<>>
  <2>1. CASE g # h
    BY <1>4, <2>1 DEF Packed
  <2>2. CASE g = h
    <3>1. g = r + 1 /\ r < f
      BY <1>0, <1>4, <2>2
    <3>2. QED BY <1>2, <1>4, <3>1
  <2>3. QED BY <2>1, <2>2
<1>5. QED BY <1>3, <1>4 DEF Packed, M

\* It loses the head of the chain only when every file is in use.
LEMMA ShiftRetained ==
    ASSUME NEW L \in [Files -> Seq(Chunk)], NEW r \in 0..(Keep - 1),
           NEW h, h = IF r = Keep - 1 THEN 0 ELSE r + 1,
           Packed(L, h), h # 0 => L[h] = <<>>, L[0] # <<>>, Retained(L, h)
    PROVE  /\ Retained([L EXCEPT ![r + 1] = L[r], ![r] = <<>>], r)
           /\ L[r] = <<>> => Retained(L, r)
<1> DEFINE M == [L EXCEPT ![r + 1] = L[r], ![r] = <<>>]
<1>0. /\ r \in Files /\ r + 1 \in Files /\ r # r + 1 /\ r + 1 # 0 /\ 0 \in Files
      /\ \A g \in 1..Keep : g \in Files /\ g \in Nat
      /\ r \in Nat /\ Keep \in Nat \ {0}
  BY KeepAssumption DEF Files
<1>1. /\ M[r + 1] = L[r] /\ M[r] = <<>>
      /\ \A g \in Files : g # r /\ g # r + 1 => M[g] = L[g]
  BY <1>0
<1> HIDE DEF M
<1>2. ASSUME AllUsed(L, h) PROVE L[r] # <<>> /\ AllUsed(M, r)
  <2>1. L[r] # <<>>
    <3>1. r = 0 \/ (r \in 1..Keep /\ r # h)
      BY <1>0
    <3>2. QED BY <1>2, <3>1 DEF AllUsed
  <2>2. ASSUME NEW f \in 1..Keep, f # r PROVE M[f] # <<>>
    <3>1. CASE f = r + 1
      BY <1>1, <2>1, <3>1
    <3>2. CASE f # r + 1
      <4>1. f # h
        BY <1>0, <3>2
      <4>2. QED BY <1>0, <1>1, <1>2, <2>2, <3>2, <4>1 DEF AllUsed
    <3>3. QED BY <3>1, <3>2
  <2>3. QED BY <2>1, <2>2 DEF AllUsed
<1>3. ASSUME HeadStored(L) PROVE HeadStored(M) \/ AllUsed(M, r)
  <2>0. PICK f \in Files : \E k \in 1..Len(L[f]) : L[f][k].prev = 0
    BY <1>3 DEF HeadStored
  <2>1. PICK k \in 1..Len(L[f]) : L[f][k].prev = 0
    BY <2>0
  <2>2. CASE f = r
    BY <1>0, <1>1, <2>1, <2>2 DEF HeadStored
  <2>3. CASE f # r /\ f # r + 1
    BY <1>0, <1>1, <2>1, <2>3 DEF HeadStored
  <2>4. CASE f = r + 1
    <3>1. L[r + 1] # <<>>
      BY <2>1, <2>4
    <3>2. r = Keep - 1 /\ h = 0 /\ f = Keep /\ Keep \in 1..Keep
      BY <1>0, <2>4, <3>1
    <3>3. ASSUME NEW g \in 1..Keep, g # h PROVE L[g] # <<>>
      <4>1. g = Keep \/ g < Keep
        BY <1>0
      <4>2. QED BY <2>4, <3>1, <3>2, <3>3, <4>1 DEF Packed
    <3>4. AllUsed(L, h)
      BY <3>3 DEF AllUsed
    <3>5. QED BY <1>2, <3>4
  <2>5. QED BY <2>2, <2>3, <2>4
<1>4. ~AllEmpty(L)
  BY <1>0 DEF AllEmpty
<1>5. Retained(M, r)
  BY <1>2, <1>3, <1>4 DEF Retained
<1>6. ASSUME L[r] = <<>> PROVE Retained(L, r)
  BY <1>2, <1>4, <1>6 DEF Retained
<1>7. QED BY <1>5, <1>6 DEF M

\* Nothing is stored at the start.
LEMMA InitRetain == Init => RetainInv
<1> SUFFICES ASSUME Init PROVE RetainInv
  OBVIOUS
<1>1. \A f \in Files : log[f] = <<>>
  BY DEF Init
<1>2. pc = "down" /\ Hole = 0 /\ \A f \in 1..Keep : f \in Files
  BY KeepAssumption DEF Init, Hole, Files
<1>3. QED
  BY <1>1, <1>2, InitTip DEF RetainInv, Packed, Retained, AllEmpty

\* Every step keeps RetainInv.
LEMMA NextRetain ==
    ASSUME Undisturbed, MaxSize > 0
    PROVE  RetainInv /\ [Next]_vars => RetainInv'
<1> SUFFICES ASSUME RetainInv, [Next]_vars PROVE RetainInv'
  OBVIOUS
<1>a. TipInv /\ WritesSafe /\ {"crash", "power", "dir", "torn", "write"} \cap Faults = {} /\ ~MaxAge
  BY DEF RetainInv, Undisturbed, WritesSafe, WindowFits
<1>b. TipInv' /\ LineInv /\ Typed
  BY <1>a, NextTip DEF TipInv, LineInv
<1>0. /\ 0 \in Files /\ log[0] \in Seq(Chunk) /\ log \in [Files -> Seq(Chunk)]
      /\ \A f \in 1..Keep : f \in Files /\ f # 0
      /\ Keep \in Nat \ {0}
  BY <1>b, KeepAssumption DEF Typed, TypeOK, Files
<1> DEFINE Stored == /\ Packed(log, Hole) /\ (Hole # 0 => log[Hole] = <<>>)
                     /\ Retained(log, Hole)
                     /\ \A f \in 1..Keep : log[f] # <<>> => Size(log[f]) >= MaxSize
           Call == /\ pc = "rename" => Size(log[0]) >= MaxSize
                   /\ pc # "expire"
                   /\ pc = "reopen" => ~AllEmpty(log)
                   /\ pc = "write" /\ open /\ AllEmpty(log) => cur.prev = 0
<1>1. Stored /\ Call
  BY DEF RetainInv
<1>2. ASSUME Stored', Call' PROVE RetainInv'
  BY <1>b, <1>2 DEF RetainInv
<1>3. ASSUME log' = log, Hole = 0, Hole' = 0, Call' PROVE RetainInv'
  <2>1. Stored'
    BY <1>1, <1>3
  <2>2. QED BY <1>2, <1>3, <2>1
<1>4. pc # "rename" => Hole = 0
  BY DEF Hole
<1>5. pc' # "rename" => Hole' = 0
  BY DEF Hole
<1>c. CASE Start \/ StartFails \/ Close \/ Exit
  <2>1. log' = log /\ pc # "rename" /\ pc' \in {"down", "idle"}
    BY <1>c DEF Start, StartFails, Close, Exit, Down
  <2>2. QED BY <1>3, <1>4, <1>5, <2>1
<1>d. ASSUME NEW s \in Sizes, LogBegin(s) PROVE RetainInv'
  <2>1. log' = log /\ pc = "idle" /\ cur'.prev = prev
    BY <1>d DEF LogBegin
  <2>2. CASE open /\ Full
    <3>1. pc' = "rename" /\ ri' = Keep - 1 /\ Size(log[0]) >= MaxSize
      BY <1>d, <2>2 DEF LogBegin, Full, OldestShift
    <3>2. Hole' = 0
      BY <3>1 DEF Hole
    <3>3. QED BY <1>3, <1>4, <2>1, <3>1, <3>2
  <2>3. CASE ~(open /\ Full)
    <3>1. pc' = "write" /\ open' = open
      BY <1>d, <2>3 DEF LogBegin
    <3>2. ASSUME open, AllEmpty(log) PROVE prev = 0
      <4>1. TipIs(log[0], prev) /\ log[0] = <<>>
        BY <1>0, <1>a, <2>1, <3>2 DEF TipInv, AllEmpty
      <4>2. QED BY <4>1 DEF TipIs
    <3>3. AllEmpty(log)' <=> AllEmpty(log)
      BY <2>1 DEF AllEmpty
    <3>4. Call'
      BY <2>1, <3>1, <3>2, <3>3
    <3>5. QED BY <1>3, <1>4, <1>5, <2>1, <3>1, <3>4
  <2>4. QED BY <2>2, <2>3
<1>e. CASE Rename
  <2>1. pc = "rename" /\ ri \in 0..(Keep - 1) /\ log' = Shifted(ri)
    BY <1>a, <1>b, <1>e DEF Rename, Typed, CallOK
  <2>2. Size(log[0]) >= MaxSize /\ log[0] # <<>>
    <3>1. Size(log[0]) >= MaxSize
      BY <1>1, <2>1
    <3>2. QED BY <3>1, SizeEmpty, MaxSizeAssumption
  <2>3. Hole = IF ri = Keep - 1 THEN 0 ELSE ri + 1
    BY <2>1 DEF Hole
  <2>4. /\ Hole' = ri
        /\ ri > 0 => pc' = "rename"
        /\ ri = 0 => pc' = "reopen"
    BY <1>a, <1>e, <2>1, KeepAssumption DEF Rename, AfterRenames, Hole
  <2> DEFINE M == [log EXCEPT ![ri + 1] = log[ri], ![ri] = <<>>]
  <2>5. /\ Packed(M, ri) /\ Retained(M, ri)
        /\ log[ri] = <<>> => Packed(log, ri) /\ Retained(log, ri)
    <3>1. /\ Packed(log, Hole) /\ Retained(log, Hole)
          /\ Hole # 0 => log[Hole] = <<>>
      BY <1>1
    <3> HIDE DEF M
    <3>2. Packed(M, ri) /\ (log[ri] = <<>> => Packed(log, ri))
      BY <1>0, <2>1, <2>2, <2>3, <3>1, ShiftPacked DEF M
    <3>3. Retained(M, ri) /\ (log[ri] = <<>> => Retained(log, ri))
      BY <1>0, <2>1, <2>2, <2>3, <3>1, ShiftRetained DEF M
    <3>4. QED BY <3>2, <3>3
  <2>6. log' = M \/ (log' = log /\ log[ri] = <<>>)
    BY <2>1 DEF Shifted
  <2>7. /\ ri \in Files /\ ri + 1 \in Files /\ ri # ri + 1 /\ ri + 1 # 0
        /\ M[ri + 1] = log[ri] /\ M[ri] = <<>>
        /\ \A g \in Files : g # ri /\ g # ri + 1 => M[g] = log[g]
    BY <1>0, <2>1, KeepAssumption DEF Files
  <2> HIDE DEF M
  <2>8. \A f \in Files : log[f] # <<>> => Size(log[f]) >= MaxSize
    <3>1. \A f \in Files : f = 0 \/ f \in 1..Keep
      BY DEF Files
    <3>2. QED BY <1>1, <2>2, <3>1
  <2>9. \A f \in 1..Keep : log'[f] # <<>> => Size(log'[f]) >= MaxSize
    BY <1>0, <2>6, <2>7, <2>8
  <2>10. log'[ri] = <<>>
    BY <2>6, <2>7
  <2>11. Stored'
    BY <2>4, <2>5, <2>6, <2>9, <2>10
  <2>12. CASE ri > 0
    <3>1. log'[0] = log[0]
      BY <1>0, <2>6, <2>7, <2>12
    <3>2. QED BY <1>2, <2>2, <2>4, <2>11, <2>12, <3>1
  <2>13. CASE ri = 0
    <3>1. 1 \in Files /\ log'[1] # <<>>
      BY <2>2, <2>6, <2>7, <2>13
    <3>2. ~AllEmpty(log')
      BY <3>1 DEF AllEmpty
    <3>3. ~(AllEmpty(log)')
      BY <3>2 DEF AllEmpty
    <3>4. QED BY <1>2, <2>4, <2>11, <2>13, <3>3
  <2>14. QED BY <2>1, <2>12, <2>13
<1>f. CASE Expire
  BY <1>1, <1>f DEF Expire
<1>g. CASE Reopen
  <2>1. log' = log /\ pc = "reopen" /\ pc' = "write" /\ ~AllEmpty(log)
    BY <1>1, <1>g DEF Reopen
  <2>2. ~(AllEmpty(log)')
    BY <2>1 DEF AllEmpty
  <2>3. QED BY <1>3, <1>4, <1>5, <2>1, <2>2
<1>h. CASE Write
  <2>1. pc = "write" /\ pc' = "idle" /\ cur \in Chunk /\ Hole = 0 /\ Hole' = 0
    BY <1>4, <1>5, <1>b, <1>h DEF Write, Typed, CallOK, InFlight
  <2>2. CASE ~open
    <3>1. log' = log
      BY <1>a, <1>h, <2>2 DEF Write
    <3>2. QED BY <1>3, <2>1, <3>1
  <2>3. CASE open
    <3>1. log' = Appended(cur)
      BY <1>a, <1>h, <2>3 DEF Write
    <3> DEFINE t == Append(log[0], cur)
    <3>2. /\ log'[0] = t /\ \A f \in Files : f # 0 => log'[f] = log[f]
      BY <1>0, <3>1 DEF Appended
    <3>3. /\ Len(t) = Len(log[0]) + 1 /\ t[Len(log[0]) + 1] = cur /\ Len(log[0]) \in Nat
          /\ \A i \in 1..Len(log[0]) : t[i] = log[0][i]
      BY <1>0, <2>1, AppendElements
    <3> HIDE DEF t
    <3>4. \A f \in 1..Keep : log'[f] = log[f]
      BY <1>0, <3>2
    <3>5. Packed(log', 0) /\ (AllUsed(log, 0) => AllUsed(log', 0))
      BY <1>1, <2>1, <3>4 DEF Packed, AllUsed
    <3>6. HeadStored(log) => HeadStored(log')
      <4> SUFFICES ASSUME HeadStored(log) PROVE HeadStored(log')
        OBVIOUS
      <4>0. PICK f \in Files : \E k \in 1..Len(log[f]) : log[f][k].prev = 0
        BY DEF HeadStored
      <4>1. PICK k \in 1..Len(log[f]) : log[f][k].prev = 0
        BY <4>0
      <4>2. k \in 1..Len(log'[f]) /\ log'[f][k].prev = 0
        <5>1. CASE f = 0
          BY <3>2, <3>3, <4>1, <5>1
        <5>2. CASE f # 0
          BY <3>2, <4>1, <5>2
        <5>3. QED BY <5>1, <5>2
      <4>3. QED BY <4>2 DEF HeadStored
    <3>7. AllEmpty(log) => HeadStored(log')
      <4> SUFFICES ASSUME AllEmpty(log) PROVE HeadStored(log')
        OBVIOUS
      <4>1. cur.prev = 0
        BY <1>1, <2>1, <2>3
      <4>2. Len(log[0]) + 1 \in 1..Len(log'[0]) /\ log'[0][Len(log[0]) + 1].prev = 0
        BY <3>2, <3>3, <4>1
      <4>3. QED BY <1>0, <4>2 DEF HeadStored
    <3>8. Retained(log', 0)
      BY <1>1, <2>1, <3>5, <3>6, <3>7 DEF Retained
    <3>9. Stored'
      BY <1>1, <2>1, <3>4, <3>5, <3>8
    <3>10. QED BY <1>2, <2>1, <3>9
  <2>4. QED BY <2>2, <2>3
<1>i. CASE Crash \/ PowerLoss
  BY <1>a, <1>i DEF Crash, PowerLoss
<1>j. CASE UNCHANGED vars
  <2>1. Hole' = Hole /\ Stored' /\ Call'
    BY <1>1, <1>j DEF vars, Hole, AllEmpty
  <2>2. QED BY <1>2, <2>1
<1>k. QED
  BY <1>c, <1>d, <1>e, <1>f, <1>g, <1>h, <1>i, <1>j DEF Next

\* Rotation discards nothing before all Keep files are in use, for any number
\* of files and any limit, over Close, exits, restarts, a lost key and a failing
\* reopening.
THEOREM FilesRetained == ASSUME Undisturbed PROVE Spec => []RetainsKeepFiles
<1>1. CASE MaxSize > 0
  <2>1. RetainInv => RetainsKeepFiles
    <3> SUFFICES ASSUME RetainInv, pc = "idle",
                        UNION {ToSet(log[f]) : f \in Files} # {},
                        \A c \in UNION {ToSet(log[f]) : f \in Files} : c.prev # 0
                 PROVE  \A f \in 1..Keep : Size(log[f]) >= MaxSize
      BY DEF RetainsKeepFiles
    <3>1. log \in [Files -> Seq(Chunk)]
      BY DEF RetainInv, TipInv, LineInv, Typed, TypeOK
    <3>2. \A f \in Files : ToSet(log[f]) = {log[f][k] : k \in 1..Len(log[f])}
      <4>1. \A f \in Files : log[f] \in Seq(Chunk)
        BY <3>1
      <4>2. \A f \in Files : DOMAIN log[f] = 1..Len(log[f])
        BY <4>1, LenProperties
      <4>3. QED BY <4>2, Zenon DEF ToSet
    <3>3. ~AllEmpty(log)
      BY <3>2 DEF AllEmpty
    <3>4. ~HeadStored(log)
      BY <3>2 DEF HeadStored
    <3>5. Hole = 0
      BY DEF Hole
    <3>6. AllUsed(log, 0)
      BY <3>3, <3>4, <3>5 DEF RetainInv, Retained
    <3>7. QED BY <3>6 DEF AllUsed, RetainInv
  <2>2. RetainInv /\ [Next]_vars => RetainInv'
    BY <1>1, NextRetain
  <2>3. QED BY InitRetain, <2>1, <2>2, PTL DEF Spec
<1>2. CASE ~(MaxSize > 0)
  <2>1. RetainsKeepFiles
    BY <1>2 DEF RetainsKeepFiles
  <2>2. QED BY <2>1, PTL
<1>3. QED BY <1>1, <1>2

-----------------------------------------------------------------------------
(* Deletion shows. *)

\* Every event of s links to the one before it.
Linked(s) == \A k \in 2..Len(s) : s[k].prev = s[k - 1].id

\* An event with link e may be appended to s.
Follows(s, e) == s # <<>> => e = Last(s).id

\* The call in flight links to the end of audit.log, if it is going to be written.
LinkInv ==
    /\ TipInv
    /\ OrderInv
    /\ \A f \in Files : Linked(log[f])
    /\ pc \in {"rename", "expire", "reopen"} \/ (pc = "write" /\ open)
          => Follows(log[0], cur.prev)

\* The files are empty and no call is in flight at the start.
LEMMA InitLink == Init => LinkInv
<1> SUFFICES ASSUME Init PROVE LinkInv
  OBVIOUS
<1>1. \A f \in Files : log[f] = <<>>
  BY DEF Init
<1>2. QED BY <1>1, InitTip, InitOrder DEF LinkInv, Linked, Init

\* A prefix of a linked file is linked.
LEMMA PrefixLinked ==
    ASSUME NEW s \in Seq(Chunk), NEW k \in 0..Len(s), Linked(s)
    PROVE  Linked(SubSeq(s, 1, k))
<1> DEFINE t == SubSeq(s, 1, k)
<1>1. Len(t) = k /\ \A i \in 1..k : i \in 1..Len(s) /\ t[i] = s[i]
  BY PrefixElements
<1> HIDE DEF t
<1>2. \A i \in 2..k : i \in 2..Len(s) /\ t[i] = s[i] /\ t[i - 1] = s[i - 1]
  BY <1>1
<1>3. Linked(t)
  BY <1>1, <1>2 DEF Linked
<1>4. QED BY <1>3 DEF t

\* So is a linked file with an event that follows its last one.
LEMMA AppendLinked ==
    ASSUME NEW s \in Seq(Chunk), NEW c \in Chunk, Linked(s), Follows(s, c.prev)
    PROVE  Linked(Append(s, c))
<1> DEFINE t == Append(s, c)
<1>1. /\ Len(t) = Len(s) + 1 /\ t[Len(s) + 1] = c /\ Len(s) \in Nat
      /\ \A i \in 1..Len(s) : t[i] = s[i]
  BY AppendElements
<1> HIDE DEF t
<1>2. ASSUME NEW i \in 2..Len(t) PROVE t[i].prev = t[i - 1].id
  <2>1. CASE i \in 2..Len(s)
    <3>1. t[i] = s[i] /\ t[i - 1] = s[i - 1]
      BY <1>1, <2>1
    <3>2. QED BY <2>1, <3>1 DEF Linked
  <2>2. CASE i = Len(s) + 1
    <3>1. s # <<>> /\ i - 1 = Len(s) /\ t[i - 1] = s[Len(s)] /\ t[i] = c
      BY <1>1, <1>2, <2>2
    <3>2. QED BY <3>1 DEF Follows, Last
  <2>3. QED BY <1>1, <1>2, <2>1, <2>2
<1>3. Linked(t)
  BY <1>2 DEF Linked
<1>4. QED BY <1>3 DEF t

\* Every step keeps LinkInv.
LEMMA NextLink == ASSUME WritesSafe PROVE LinkInv /\ [Next]_vars => LinkInv'
<1> SUFFICES ASSUME LinkInv, [Next]_vars PROVE LinkInv'
  OBVIOUS
<1>a. TipInv /\ OrderInv /\ "torn" \notin Faults
  BY DEF LinkInv, WritesSafe, WindowFits
<1>b. TipInv' /\ OrderInv' /\ Typed
  BY <1>a, NextTip, NextOrder DEF OrderInv
<1>0. /\ 0 \in Files /\ log[0] \in Seq(Chunk) /\ log \in [Files -> Seq(Chunk)]
  BY <1>b, KeepAssumption DEF Typed, TypeOK, Files
<1>1. \A f \in Files : Linked(log'[f])
  <2> DEFINE S == {s \in Seq(Chunk) : Linked(s)}
  <2>1. \A f \in Files : log[f] \in S
    BY <1>0 DEF LinkInv
  <2>2. <<>> \in S
    BY DEF Linked
  <2>3. ASSUME NEW s \in S, NEW k \in 0..Len(s) PROVE SubSeq(s, 1, k) \in S
    BY PrefixElements, PrefixLinked
  <2>4. ASSUME pc = "write", open PROVE Append(log[0], cur) \in S
    <3>1. cur \in Chunk /\ Follows(log[0], cur.prev) /\ Linked(log[0])
      BY <1>b, <1>0, <2>4 DEF LinkInv, Typed, CallOK, InFlight
    <3>2. Append(log[0], cur) \in Seq(Chunk)
      BY <1>0, <3>1, AppendElements
    <3>3. QED BY <1>0, <3>1, <3>2, AppendLinked
  <2> HIDE DEF S
  <2>5. \A f \in Files : log'[f] \in S
    BY <1>a, <1>b, <2>1, <2>2, <2>3, <2>4, FilesIn
  <2>6. QED BY <2>5 DEF S
<1> DEFINE Due == pc' \in {"rename", "expire", "reopen"} \/ (pc' = "write" /\ open')
           Linking == Due => Follows(log'[0], cur'.prev)
<1>2. ASSUME Linking PROVE LinkInv'
  <2>1. (pc \in {"rename", "expire", "reopen"} \/ (pc = "write" /\ open)
           => Follows(log[0], cur.prev))'
    BY <1>2 DEF Follows
  <2>2. QED BY <1>b, <1>1, <2>1 DEF LinkInv
<1>3. \A e : Follows(<<>>, e)
  BY DEF Follows
<1>c. ASSUME NEW s \in Sizes, LogBegin(s) PROVE Linking
  <2>1. log' = log /\ cur'.prev = prev /\ pc = "idle"
        /\ pc' \in {"rename", "write"} /\ (pc' = "rename" => open) /\ (open' => open)
    BY <1>c DEF LogBegin
  <2>2. open => Follows(log[0], prev)
    BY <1>a, <2>1 DEF TipInv, TipIs, Follows
  <2>3. QED BY <2>1, <2>2
<1>d. ASSUME pc \in {"rename", "expire", "reopen"}, cur' = cur,
             log'[0] = log[0] \/ log'[0] = <<>>
      PROVE  Linking
  <2>1. Follows(log[0], cur.prev)
    BY <1>d DEF LinkInv
  <2>2. Follows(log'[0], cur.prev)
    BY <1>3, <1>d, <2>1
  <2>3. QED BY <1>d, <2>2 DEF Follows
<1>e. ASSUME Rename PROVE Linking
  <2>1. pc = "rename" /\ cur' = cur /\ ri \in 0..(Keep - 1)
    BY <1>b, <1>e DEF Rename, Typed, CallOK
  <2>2. ri \in Files /\ ri + 1 \in Files /\ ri + 1 # 0
    BY <2>1, KeepAssumption DEF Files
  <2>3. log'[0] = log[0] \/ log'[0] = <<>>
    BY <1>0, <1>e, <2>2 DEF Rename, Shifted
  <2>4. QED BY <1>d, <2>1, <2>3
<1>f. ASSUME Expire PROVE Linking
  <2>1. pc = "expire" /\ cur' = cur /\ (log'[0] = log[0] \/ log'[0] = <<>>)
    BY <1>0, <1>f DEF Expire
  <2>2. QED BY <1>d, <2>1
<1>g. ASSUME Reopen PROVE Linking
  <2>1. pc = "reopen" /\ cur' = cur /\ log'[0] = log[0]
    BY <1>g DEF Reopen
  <2>2. QED BY <1>d, <2>1
<1>h. ASSUME Start \/ StartFails \/ Write \/ Close \/ Exit \/ Crash \/ PowerLoss
      PROVE  Linking
  <2>1. ~Due
    BY <1>h DEF Start, StartFails, Write, Close, Exit, Crash, PowerLoss, Down
  <2> HIDE DEF Due
  <2>2. QED BY <2>1
<1>i. ASSUME UNCHANGED vars PROVE Linking
  <2>1. log' = log /\ cur' = cur /\ pc' = pc /\ open' = open
    BY <1>i DEF vars
  <2>2. QED BY <2>1 DEF LinkInv
<1> HIDE DEF Linking
<1>j. Linking
  BY <1>c, <1>e, <1>f, <1>g, <1>h, <1>i DEF Next
<1>k. QED BY <1>2, <1>j

\* What VerifyLog counts in the lines that are left of a linked file.
LEMMA PickBreaks ==
    ASSUME NEW s \in Seq(Chunk), NEW k, NEW p \in Picks(s), Linked(s), Increasing(s),
           \A i \in 1..Len(s) : s[i].form = "line"
    PROVE  LET g == [i \in DOMAIN p |-> s[p[i]]]
               gaps == {i \in 2..Len(p) : p[i] # p[i - 1] + 1}
               head == IF g # <<>> /\ g[1].prev # 0 THEN 1 ELSE 0
           IN  VerifyLog(g, k).BrokenChain = head + Cardinality(gaps)
<1> DEFINE m == Len(p)
           g == [i \in DOMAIN p |-> s[p[i]]]
           Gaps(i) == {j \in 2..i : p[j] # p[j - 1] + 1}
           head == IF g # <<>> /\ g[1].prev # 0 THEN 1 ELSE 0
<1>1. /\ m \in Nat /\ DOMAIN p = 1..m /\ \A i \in 1..m : p[i] \in 1..Len(s)
      /\ \A i \in 2..m : p[i - 1] < p[i]
  <2>1. PICK q \in 0..Len(s) : p \in [1..q -> 1..Len(s)]
    BY DEF Picks
  <2>2. q \in Nat /\ p \in Seq(1..Len(s)) /\ Len(p) = q
    BY <2>1
  <2>3. QED BY <2>1, <2>2 DEF Picks
<1>2. g \in Seq(Chunk) /\ Len(g) = m /\ \A i \in 1..m : g[i] = s[p[i]]
  <2>1. \A i \in 1..m : s[p[i]] \in Chunk
    BY <1>1, ElementOfSeq
  <2>2. g \in [1..m -> Chunk] /\ \A i \in 1..m : g[i] = s[p[i]]
    BY <1>1, <2>1
  <2> HIDE DEF g, m
  <2>3. QED BY <1>1, <2>2
<1>3. \A i \in 1..m : g[i].form = "line"
  BY <1>1, <1>2
<1> HIDE DEF g, m
<1>4. PICK a : Reports(g, k, a) /\ VerifyLog(g, k) = a[Len(g)]
  BY <1>2, VerifyLogIs
<1>5. a[0] = EmptyReport /\ \A i \in 1..m : a[i] = VerifyLine(g, k, a[i - 1], i)
  BY <1>1, <1>2, <1>4 DEF Reports
<1>6. \A i \in Nat : IsFiniteSet(Gaps(i)) /\ Cardinality(Gaps(i)) \in Nat
  <2> SUFFICES ASSUME NEW i \in Nat PROVE IsFiniteSet(Gaps(i)) /\ Cardinality(Gaps(i)) \in Nat
    OBVIOUS
  <2>1. IsFiniteSet(2..i) /\ Gaps(i) \in SUBSET (2..i)
    BY FS_Interval
  <2> HIDE DEF Gaps
  <2>2. IsFiniteSet(Gaps(i))
    BY <2>1, FS_Subset
  <2>3. QED BY <2>2, FS_CardinalityType
<1> DEFINE After(i) == /\ a[i] \in Report
                       /\ a[i].prevHash = IF i = 0 THEN 0 ELSE g[i].id
                       /\ a[i].BrokenChain = (IF i = 0 THEN 0 ELSE head) + Cardinality(Gaps(i))
           T == {i \in Nat : i <= m => After(i)}
<1>7. 0 \in T
  <2>1. Gaps(0) = {}
    OBVIOUS
  <2>2. Cardinality(Gaps(0)) = 0
    BY <2>1, FS_EmptySet
  <2> HIDE DEF Gaps
  <2>3. QED BY <1>5, <2>2, EmptyReportIs
<1>8. ASSUME NEW i \in Nat, i \in T PROVE i + 1 \in T
  <2> HIDE DEF After
  <2> SUFFICES ASSUME i + 1 <= m PROVE After(i + 1)
    OBVIOUS
  <2>0. After(i)
    BY <1>1, <1>8
  <2>1. /\ a[i] \in Report /\ i + 1 \in 1..m
        /\ a[i].prevHash = IF i = 0 THEN 0 ELSE g[i].id
        /\ a[i].BrokenChain = (IF i = 0 THEN 0 ELSE head) + Cardinality(Gaps(i))
    BY <1>1, <2>0 DEF After
  <2>2. a[i + 1] = VerifyLine(g, k, a[i], i + 1)
    BY <1>5, <2>1
  <2>3. /\ a[i + 1] \in Report
        /\ a[i + 1].prevHash = g[i + 1].id
        /\ a[i + 1].BrokenChain = IF g[i + 1].prev = a[i].prevHash
                                  THEN a[i].BrokenChain ELSE a[i].BrokenChain + 1
    BY <1>2, <1>3, <2>1, <2>2, VerifyLineIs
  <2>4. CASE i = 0
    <3>1. Gaps(0) = {} /\ Gaps(1) = {}
      OBVIOUS
    <3>2. Cardinality(Gaps(0)) = 0 /\ Cardinality(Gaps(1)) = 0
      BY <3>1, FS_EmptySet
    <3> HIDE DEF Gaps
    <3>3. g # <<>>
      BY <1>1, <1>2, <2>1
    <3>4. a[1].BrokenChain = head
      BY <2>1, <2>3, <2>4, <3>2, <3>3
    <3>5. head \in Nat
      OBVIOUS
    <3> HIDE DEF head
    <3>6. QED BY <2>3, <2>4, <3>2, <3>4, <3>5 DEF After
  <2>5. CASE i # 0
    <3>1. /\ i \in 1..m /\ i + 1 \in 2..m /\ p[i] < p[i + 1]
          /\ p[i] \in 1..Len(s) /\ p[i + 1] \in 1..Len(s)
      BY <1>1, <2>1, <2>5
    <3> DEFINE x == p[i]
               y == p[i + 1]
    <3>2. x < y /\ x \in 1..Len(s) /\ y \in 2..Len(s) /\ y - 1 \in 1..Len(s) /\ x <= y - 1
      BY <3>1
    <3>3. g[i].id = s[x].id /\ g[i + 1].prev = s[y - 1].id
      <4>1. g[i] = s[x] /\ g[i + 1] = s[y]
        BY <1>2, <3>1, <2>1
      <4> HIDE DEF x, y
      <4>2. s[y].prev = s[y - 1].id
        BY <3>2 DEF Linked
      <4>3. QED BY <4>1, <4>2
    <3>4. s[x].id = s[y - 1].id <=> y = x + 1
      <4> HIDE DEF x, y
      <4>1. s[x].id \in Nat /\ s[y - 1].id \in Nat
        <5>1. s[x] \in Chunk /\ s[y - 1] \in Chunk
          BY <3>2, ElementOfSeq
        <5>2. QED BY <5>1 DEF Chunk
      <4>2. CASE x = y - 1
        BY <3>2, <4>2
      <4>3. CASE x < y - 1
        <5>1. s[x].id < s[y - 1].id
          BY <3>2, <4>3 DEF Increasing
        <5>2. QED BY <3>2, <4>1, <4>3, <5>1
      <4>4. QED BY <3>2, <4>2, <4>3
    <3>5. g[i + 1].prev = a[i].prevHash <=> y = x + 1
      BY <2>1, <2>5, <3>3, <3>4
    <3>6. Cardinality(Gaps(i + 1)) = IF y = x + 1 THEN Cardinality(Gaps(i))
                                     ELSE Cardinality(Gaps(i)) + 1
      <4>1. \A j \in 2..(i + 1) : j \in 2..i \/ j = i + 1
        OBVIOUS
      <4>2. i + 1 \notin Gaps(i)
        OBVIOUS
      <4>3. CASE y = x + 1
        <5>1. Gaps(i + 1) = Gaps(i)
          BY <3>1, <4>1, <4>3
        <5>2. QED BY <4>3, <5>1
      <4>4. CASE y # x + 1
        <5>1. Gaps(i + 1) = Gaps(i) \cup {i + 1}
          BY <3>1, <4>1, <4>4
        <5> HIDE DEF Gaps
        <5>2. Cardinality(Gaps(i) \cup {i + 1}) = Cardinality(Gaps(i)) + 1
          BY <1>6, <4>2, FS_AddElement
        <5>3. QED BY <4>4, <5>1, <5>2
      <4>5. QED BY <4>3, <4>4
    <3>7. head \in Nat /\ Cardinality(Gaps(i)) \in Nat
      BY <1>6
    <3> HIDE DEF Gaps, head, x, y
    <3>8. QED BY <2>1, <2>3, <2>5, <3>5, <3>6, <3>7 DEF After
  <2>6. QED BY <2>4, <2>5
<1>9. After(m)
  <2> HIDE DEF T, After
  <2>1. m \in T
    BY <1>1, <1>7, <1>8, NatInduct
  <2>2. QED BY <1>1, <2>1 DEF T
<1>10. a[m].BrokenChain = head + Cardinality(Gaps(m))
  <2>1. CASE m # 0
    BY <1>9, <2>1
  <2>2. CASE m = 0
    <3>1. g = <<>>
      BY <1>2, <2>2
    <3>2. head = 0
      BY <3>1
    <3> HIDE DEF head, Gaps
    <3>3. QED BY <1>9, <2>2, <3>2
  <2>3. QED BY <2>1, <2>2
<1>11. QED BY <1>2, <1>4, <1>10 DEF g, m

\* Whichever lines are taken out of a file, VerifyLog counts the places between two
\* kept lines: nothing but deletion can break the chain inside a file while no Write
\* is lost.  The break it counts at the head means either deletion or a rotation
\* before the file, over which Log carries the chain (audit.go:146).
THEOREM GapsCounted == ASSUME WritesSafe PROVE Spec => []VerifyCountsGaps
<1>1. LinkInv => VerifyCountsGaps
  <2> SUFFICES ASSUME LinkInv, NEW f \in Files, NEW left \in Picks(log[f])
               PROVE  LET g == [i \in DOMAIN left |-> log[f][left[i]]]
                          gaps == {i \in 2..Len(left) : left[i] # left[i - 1] + 1}
                          head == IF g # <<>> /\ g[1].prev # 0 THEN 1 ELSE 0
                      IN  VerifyLog(g, keyFile).BrokenChain = head + Cardinality(gaps)
    BY DEF VerifyCountsGaps
  <2>1. log[f] \in Seq(Chunk) /\ \A i \in 1..Len(log[f]) : log[f][i].form = "line"
    BY DEF LinkInv, TipInv, LineInv, Typed, TypeOK
  <2>2. Linked(log[f]) /\ Increasing(log[f])
    BY DEF LinkInv, OrderInv, Ordered
  <2>3. QED BY <2>1, <2>2, PickBreaks
<1>2. LinkInv /\ [Next]_vars => LinkInv'
  BY NextLink
<1>3. QED
  BY InitLink, <1>1, <1>2, PTL DEF Spec

=============================================================================
