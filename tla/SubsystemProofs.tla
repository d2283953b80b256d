--------------------------- MODULE SubsystemProofs ---------------------------
(***************************************************************************)
(* Proofs about two subsystems that the machine service calls: the         *)
(* machine configuration (MachineConfig) and the journal's stream          *)
(* (JournalStream).  They share neither state nor constants: each theorem  *)
(* is about one of them, for every value of its constants.                 *)
(***************************************************************************)
EXTENDS MachineConfig, JournalStream, SequenceTheorems, TLAPS

-----------------------------------------------------------------------------
(* The shape of a call. *)

\* What is so of the call c wherever it is: it has only files of its section yet
\* to write and opens none but those of a section it has found valid, and it asks
\* for a reboot only once the kernel arguments are written.
Shape(c) ==
    /\ c.pc = "idle" => c = Idle
    /\ c.pc # "idle" => c.cfg \in Configs
    /\ c.todo \subseteq Named(c.cfg, c.pc)
    /\ c.file # "" => c.file \in c.todo /\ c.pc # "args"
    /\ c.pc = "args" => c.todo = Named(c.cfg, "args")
    /\ c.file # "" \/ c.todo # Named(c.cfg, c.pc) => ~Invalid(c)
    /\ c.reboot => c.pc \in {"kargs", "dns", "answer"} /\ (c.pc = "kargs" => c.todo = {})

\* The call that runs alone is the only one.
Alone ==
    solo # "" => call[solo] # Idle /\ \A q \in Reqs \ {solo} : call[q] = Idle

Base ==
    /\ TypeOK
    /\ \A r \in Reqs : Shape(call[r])
    /\ Alone

-----------------------------------------------------------------------------
(* How far a call has got. *)

\* The files of the sections before the one at pc.
Before(pc) ==
    CASE pc = "network" -> {"hostname"}
      [] pc \in {"args", "kargs"} -> {"hostname"} \cup Ifaces
      [] pc = "dns" -> {"hostname", "kargs"} \cup Ifaces
      [] pc = "answer" -> Files
      [] OTHER -> {}

\* The files that c has written whole.
Written(c) ==
    {f \in Before(c.pc) : c.cfg[f] # "none"}
    \cup (IF c.pc = "args" THEN {} ELSE Named(c.cfg, c.pc) \ c.todo)

\* A call that has run alone has written what its configuration says of the
\* sections before it, and has opened no other file but the one in hand.
Progress(c, dsk, opened) ==
    /\ \A f \in Before(c.pc) : c.cfg[f] # "bad"
    /\ c.pc = "kargs" => c.cfg["kargs"] # "bad"
    /\ \A f \in Written(c) : dsk[f] = c.cfg[f] \/ (f = "dns" /\ c.warned)
    /\ c.pc # "answer" => ~c.warned /\ opened = Written(c) \cup ({c.file} \ {""})
    /\ c.file # "" => dsk[c.file] = "empty"

\* An outcome stands only while nobody writes.
Settled ==
    /\ solo # "" => Progress(call[solo], disk, touched)
    /\ outcome.how # "" => Quiet
    /\ AppliedIsThere
    /\ RejectedPrefix

-----------------------------------------------------------------------------
(* Reboots. *)

\* c is on its way to write the kernel arguments.
Pending(c) == c.pc = "kargs" /\ c.todo # {}

\* c will ask for a reboot unless it fails.
WillAsk(c) == c.reboot \/ (Pending(c) /\ c.existing # c.cfg["kargs"])

\* While no call is to ask for a reboot, whoever writes the kernel arguments
\* writes those the node was booted with.
Unchanged ==
    /\ \A r \in Reqs : Pending(call[r]) => call[r].cfg["kargs"] = booted
    /\ \/ disk["kargs"] = booted
       \/ disk["kargs"] = "empty" /\ \E r \in Reqs : call[r].file = "kargs"

Asked ==
    smooth /\ ~told /\ booted # "garbled" =>
        (\E r \in Reqs : WillAsk(call[r])) \/ Unchanged

-----------------------------------------------------------------------------
(* Lemmas. *)

\* The files of each section.
LEMMA SectionFiles ==
    /\ FilesOf("hostname") = {"hostname"} /\ FilesOf("network") = Ifaces
    /\ FilesOf("args") = {"kargs"} /\ FilesOf("kargs") = {"kargs"}
    /\ FilesOf("dns") = {"dns"} /\ FilesOf("answer") = {} /\ FilesOf("idle") = {}
BY DEF FilesOf

\* The sections, in their order.
LEMMA TheSections ==
    /\ Sections = {"hostname", "network", "args", "kargs", "dns"}
    /\ Order[1] = "hostname" /\ Order[2] = "network" /\ Order[3] = "args"
    /\ Order[4] = "kargs" /\ Order[5] = "dns" /\ Order[6] = "answer"
<1>1. /\ Order[1] = "hostname" /\ Order[2] = "network" /\ Order[3] = "args"
      /\ Order[4] = "kargs" /\ Order[5] = "dns" /\ Order[6] = "answer"
  BY DEF Order
<1>2. 1 .. 5 = {1, 2, 3, 4, 5}
  OBVIOUS
<1>3. QED BY <1>1, <1>2 DEF Sections

\* The section after each.
NextOf(pc) ==
    CASE pc = "hostname" -> "network"
      [] pc = "network" -> "args"
      [] pc = "args" -> "kargs"
      [] pc = "kargs" -> "dns"
      [] OTHER -> "answer"

\* Onward takes a call to the section after its own.
LEMMA OnwardIs ==
    ASSUME NEW c \in Call, c.pc \in Sections
    PROVE  /\ Onward(c) = [c EXCEPT !.pc = NextOf(c.pc), !.todo = Named(c.cfg, NextOf(c.pc))]
           /\ NextOf(c.pc) \in Sections \cup {"answer"} /\ NextOf(c.pc) # "hostname"
<1> DEFINE at == CHOOSE n \in 1 .. 5 : Order[n] = c.pc
<1>1. \E n \in 1 .. 5 : Order[n] = c.pc
  BY DEF Sections
<1>2. at \in 1 .. 5 /\ Order[at] = c.pc
  BY <1>1
<1> HIDE DEF at
<1>3. at \in {1, 2, 3, 4, 5}
  BY <1>2
<1>4. Order[at + 1] = NextOf(c.pc)
  BY <1>2, <1>3, TheSections DEF NextOf
<1>5. NextOf(c.pc) \in Sections \cup {"answer"} /\ NextOf(c.pc) # "hostname"
  BY TheSections DEF NextOf
<1>6. QED BY <1>4, <1>5 DEF Onward, at

\* The files a configuration speaks of are files.
LEMMA NamedAreFiles ==
    \A c \in Configs \cup {NoConfig} : \A pc : Named(c, pc) \subseteq Files
BY DEF Named, FilesOf, Files

\* A call on its way to the next section has the shape of a call.
LEMMA OnwardShape ==
    ASSUME NEW c \in Call, Shape(c), c.pc \in Sections,
           NEW d \in Call, d.pc = c.pc, d.cfg = c.cfg, d.reboot = c.reboot, d.file = ""
    PROVE  Onward(d) \in Call /\ Shape(Onward(d))
<1> DEFINE p == NextOf(d.pc)
           e == Onward(d)
<1>1. e = [d EXCEPT !.pc = p, !.todo = Named(d.cfg, p)] /\ p \in Sections \cup {"answer"}
  BY OnwardIs
<1>2. Named(d.cfg, p) \subseteq Files /\ d.cfg \in Configs
  BY NamedAreFiles, TheSections DEF Call, Shape
<1>3. e \in Call
  BY <1>1, <1>2 DEF Call
<1>4. /\ e.pc = p /\ e.cfg = d.cfg /\ e.todo = Named(d.cfg, p) /\ e.file = ""
      /\ e.reboot = c.reboot
  BY <1>1 DEF Call
<1>5. p # "idle" /\ (c.reboot => p \in {"dns", "answer"})
  BY <1>1, TheSections DEF NextOf, Shape
<1> HIDE DEF e, p
<1>6. Shape(e)
  BY <1>2, <1>4, <1>5 DEF Shape
<1>7. QED BY <1>3, <1>6 DEF e

-----------------------------------------------------------------------------
(* Every step keeps the types and the shapes. *)

\* The contents of files are told apart.
LEMMA Distinct ==
    /\ \A v \in Values : v \notin {"none", "bad", "absent", "empty", "garbled", "other"}
    /\ \A c \in Configs \cup {NoConfig}, f \in Files : c[f] \in {"none", "bad"} \cup Values
<1>1. \A c \in Configs : c \in Configurations
  BY ConfigsAssumption
<1>2. \A f \in Files : NoConfig[f] = "none"
  BY DEF NoConfig
<1>3. QED BY <1>1, <1>2, ValuesAssumption DEF Configurations

\* There is no call at the start.
LEMMA IdleShape ==
    /\ Idle \in Call /\ Shape(Idle)
    /\ Idle.pc = "idle" /\ Idle.file = "" /\ ~Idle.reboot /\ ~Idle.warned
<1>1. Idle \in Call
  BY DEF Idle, Call
<1>2. Named(NoConfig, "idle") = {}
  BY SectionFiles DEF Named
<1>3. QED BY <1>1, <1>2 DEF Idle, Shape

\* No call has arrived.
LEMMA InitBase == Init => Base
<1> SUFFICES ASSUME Init PROVE Base
  OBVIOUS
<1>1. TypeOK
  BY IdleShape DEF Init, TypeOK, Contents, NoOutcome
<1>2. QED BY <1>1, IdleShape DEF Init, Base, Alone

\* What a call that has not ended is at.
LEMMA Live ==
    ASSUME Base, NEW r \in Reqs
    PROVE  /\ call[r] \in Call /\ Shape(call[r])
           /\ call[r] # Idle <=> call[r].pc # "idle"
           /\ call[r].pc # "idle" => call[r].cfg \in Configs
           /\ call[r].file # "" => call[r].pc \in Sections \ {"args"} /\ call[r].file \in Files
<1>1. call[r] \in Call /\ Shape(call[r])
  BY DEF Base, TypeOK
<1>2. call[r] # Idle <=> call[r].pc # "idle"
  BY <1>1, IdleShape DEF Shape
<1>3. call[r].file # "" => call[r].pc \in Sections /\ call[r].file \in Files
  BY <1>1, SectionFiles DEF Shape, Call, Named
<1>4. QED BY <1>1, <1>2, <1>3 DEF Shape

\* A step of a call that goes on.
LEMMA StepBase ==
    ASSUME Base, NEW r \in Reqs, call[r].pc # "idle",
           NEW d \in Call, Shape(d), d.pc # "idle", call' = [call EXCEPT ![r] = d],
           disk' \in [Files -> Contents], UNCHANGED <<booted, told, smooth, solo, outcome>>,
           touched' \subseteq Files
    PROVE  Base'
<1>1. call' \in [Reqs -> Call] /\ call'[r] = d /\ \A q \in Reqs \ {r} : call'[q] = call[q]
  BY DEF Base, TypeOK
<1>2. TypeOK'
  BY <1>1 DEF Base, TypeOK
<1>3. \A q \in Reqs : Shape(call'[q])
  BY <1>1 DEF Base
<1>4. d # Idle /\ call[r] # Idle
  BY IdleShape
<1>5. Alone'
  BY <1>1, <1>4 DEF Base, TypeOK, Alone
<1>6. QED BY <1>2, <1>3, <1>5 DEF Base, Shape, Invalid, Bad

\* The step in which a call ends.
LEMMA EndBase ==
    ASSUME Base, NEW r \in Reqs, call[r].pc # "idle",
           NEW how \in {"applied", "rejected", "error"}, Ends(r, how),
           disk' \in [Files -> Contents], told' \in BOOLEAN
    PROVE  Base'
<1>1. /\ call' = [call EXCEPT ![r] = Idle] /\ solo' = "" /\ touched' = touched
      /\ booted' = booted /\ smooth' = (smooth /\ how = "applied")
      /\ outcome' = IF solo = r THEN [how |-> how, cfg |-> call[r].cfg, warned |-> call[r].warned]
                    ELSE NoOutcome
  BY DEF Ends
<1>2. call' \in [Reqs -> Call] /\ \A q \in Reqs : Shape(call'[q])
  BY <1>1, IdleShape DEF Base, TypeOK
<1>3. outcome' \in Outcome \cup {NoOutcome}
  <2>1. call[r].cfg \in Configs /\ call[r].warned \in BOOLEAN
    BY Live DEF Call
  <2>2. [how |-> how, cfg |-> call[r].cfg, warned |-> call[r].warned] \in Outcome
    BY <2>1 DEF Outcome
  <2>3. QED BY <1>1, <2>2
<1>4. smooth' \in BOOLEAN
  BY <1>1 DEF Base, TypeOK
<1>5. TypeOK'
  BY <1>1, <1>2, <1>3, <1>4 DEF Base, TypeOK
<1>6. Alone'
  BY <1>1 DEF Alone
<1>7. QED BY <1>2, <1>5, <1>6 DEF Base, Shape, Invalid, Bad

\* What is read back is none of a configuration's "bad".
LEMMA ParsedType ==
    ASSUME NEW content \in Contents PROVE Parsed(content) \subseteq Values \cup {"none", "other"}
BY DEF Parsed, Contents

\* A step takes the call of r to d, and the call goes on.
Moves(r, d) ==
    /\ call[r].pc # "idle" /\ d.pc # "idle"
    /\ d \in Call /\ Shape(d)
    /\ call' = [call EXCEPT ![r] = d]

\* A call that has read the kernel arguments goes on to write its own, whatever it read.
LEMMA ReadKargsMoves ==
    ASSUME Base, NEW r \in Reqs, ReadKargs(r)
    PROVE  \E v \in Parsed(disk["kargs"]) \cup {"none"} :
              LET d == [call[r] EXCEPT !.existing = v, !.pc = "kargs",
                                       !.todo = Named(call[r].cfg, "kargs")]
              IN  Moves(r, d)
<1> DEFINE c == call[r]
<1>1. PICK v \in Parsed(disk["kargs"]) \cup {"none"} :
          call' = [call EXCEPT ![r] = Onward([@ EXCEPT !.existing = v])]
  BY DEF ReadKargs
<1>2. c \in Call /\ Shape(c) /\ c.pc = "args" /\ c.file = "" /\ c.pc \in Sections
  BY Live, TheSections DEF ReadKargs, Checked
<1>3. v \in Values \cup {"none", "other"}
  BY ParsedType, SectionFiles DEF Base, TypeOK, Files
<1> DEFINE b == [c EXCEPT !.existing = v]
<1>4. b \in Call /\ b.pc = c.pc /\ b.cfg = c.cfg /\ b.reboot = c.reboot /\ b.file = ""
  BY <1>2, <1>3 DEF Call
<1>5. Onward(b) \in Call /\ Shape(Onward(b))
  BY <1>2, <1>4, OnwardShape
<1>6. Onward(b) = [b EXCEPT !.pc = "kargs", !.todo = Named(b.cfg, "kargs")]
  BY <1>2, <1>4, OnwardIs DEF NextOf
<1>7. Onward(b) = [c EXCEPT !.existing = v, !.pc = "kargs", !.todo = Named(c.cfg, "kargs")]
  BY <1>2, <1>6 DEF Call
<1>8. Onward(b).pc = "kargs"
  BY <1>4, <1>6 DEF Call
<1>9. call' = [call EXCEPT ![r] = Onward(b)]
  BY <1>1
<1> HIDE DEF b
<1>10. Moves(r, Onward(b))
  BY <1>2, <1>5, <1>8, <1>9 DEF Moves
<1>11. QED BY <1>7, <1>10

\* A call passes to the next section with nothing of its section left to write, and
\* having found it valid.
LEMMA PassMoves ==
    ASSUME Base, NEW r \in Reqs, Pass(r)
    PROVE  /\ call[r].pc \in Sections /\ call[r].file = "" /\ ~Invalid(call[r])
           /\ call[r].todo = {}
           /\ Moves(r, [call[r] EXCEPT !.pc = NextOf(@),
                                       !.todo = Named(call[r].cfg, NextOf(call[r].pc))])
<1> DEFINE c == call[r]
<1>1. c \in Call /\ Shape(c) /\ c.pc \in Sections /\ c.file = "" /\ ~Invalid(c) /\ c.todo = {}
  BY Live DEF Pass, Checked, Writes
<1>2. call' = [call EXCEPT ![r] = Onward(c)]
  BY DEF Pass
<1>3. Onward(c) \in Call /\ Shape(Onward(c))
  BY <1>1, OnwardShape
<1>4. /\ Onward(c) = [c EXCEPT !.pc = NextOf(c.pc), !.todo = Named(c.cfg, NextOf(c.pc))]
      /\ NextOf(c.pc) \in Sections \cup {"answer"}
  BY <1>1, OnwardIs
<1>5. Onward(c).pc # "idle" /\ c.pc # "idle"
  BY <1>1, <1>4, TheSections DEF Call
<1>6. QED BY <1>1, <1>2, <1>3, <1>4, <1>5 DEF Moves

\* A call opens a file of its section that it has found valid and has yet to write.
LEMMA OpenMoves ==
    ASSUME Base, NEW r \in Reqs, NEW f \in Files, Open(r, f)
    PROVE  /\ call[r].pc \in Sections \ {"args"} /\ call[r].file = "" /\ ~Invalid(call[r])
           /\ f \in call[r].todo /\ f # "" /\ call[r].cfg[f] \in Values
           /\ Moves(r, [call[r] EXCEPT !.file = f])
<1> DEFINE c == call[r]
           d == [c EXCEPT !.file = f]
<1>1. /\ c \in Call /\ Shape(c) /\ c.pc \in Sections /\ c.file = "" /\ ~Invalid(c)
      /\ f \in Writes(c) /\ c.cfg[f] \in Values
      /\ call' = [call EXCEPT ![r] = d]
  BY Live DEF Open, Checked
<1>2. c.pc # "args" /\ f \in c.todo
  BY <1>1 DEF Writes
<1>3. f # ""
  BY IfacesAssumption DEF Files
<1>4. /\ d \in Call /\ d.pc = c.pc /\ d.cfg = c.cfg /\ d.todo = c.todo /\ d.file = f
      /\ d.reboot = c.reboot
  BY <1>1 DEF Call
<1>5. c.pc # "idle"
  BY <1>1, TheSections
<1> HIDE DEF c, d
<1>6. Shape(d)
  BY <1>1, <1>2, <1>3, <1>4, <1>5 DEF Shape, Invalid, Bad
<1>7. Moves(r, d)
  BY <1>1, <1>4, <1>5, <1>6 DEF Moves, c
<1>8. QED BY <1>1, <1>2, <1>3, <1>7 DEF c, d

\* A call that fills its file has no other file open, and one less to write.
LEMMA FillMoves ==
    ASSUME Base, NEW r \in Reqs, Fill(r)
    PROVE  LET c == call[r] IN
           /\ c.file # "" /\ c.file \in c.todo /\ c.file \in Files /\ ~Invalid(c)
           /\ c.pc \in Sections \ {"args"} /\ c.cfg[c.file] \in Values
           /\ Moves(r, [c EXCEPT !.file = "", !.todo = @ \ {c.file}, !.existing = "none",
                                 !.reboot = IF c.file = "kargs" THEN Differs(c) ELSE @])
<1> DEFINE c == call[r]
           again == IF c.file = "kargs" THEN Differs(c) ELSE c.reboot
           d == [c EXCEPT !.file = "", !.todo = @ \ {c.file}, !.existing = "none",
                          !.reboot = IF c.file = "kargs" THEN Differs(c) ELSE @]
<1>1. /\ c \in Call /\ Shape(c) /\ c.pc \in Sections \ {"args"} /\ c.file # "" /\ c.file \in Files
      /\ c.cfg \in Configs
  <2>1. c.file # ""
    BY DEF Fill
  <2>2. QED BY <2>1, Live, TheSections
<1>2. /\ c.file \in c.todo /\ c.todo \subseteq Named(c.cfg, c.pc) /\ ~Invalid(c)
  BY <1>1 DEF Shape
<1>3. c.cfg[c.file] \in Values
  <2>1. c.file \in FilesOf(c.pc) /\ c.cfg[c.file] # "none" /\ c.cfg[c.file] # "bad"
    BY <1>2 DEF Named, Invalid, Bad
  <2>2. QED BY <1>1, <2>1, Distinct
<1>4. call' = [call EXCEPT ![r] = d]
  BY DEF Fill
<1>5. again \in BOOLEAN
  BY <1>1 DEF Differs, Call
<1>6. /\ d \in Call /\ d.pc = c.pc /\ d.cfg = c.cfg /\ d.todo = c.todo \ {c.file}
      /\ d.file = "" /\ d.reboot = again
  BY <1>1, <1>5 DEF Call
<1>7. again => d.pc \in {"kargs", "dns", "answer"} /\ (d.pc = "kargs" => d.todo = {})
  <2>1. CASE c.file = "kargs"
    <3>1. c.pc = "kargs"
      BY <1>1, <1>2, <2>1, SectionFiles, TheSections, IfacesAssumption DEF Named
    <3>2. c.todo \subseteq {"kargs"}
      BY <1>2, <3>1, SectionFiles DEF Named
    <3>3. QED BY <1>6, <2>1, <3>1, <3>2
  <2>2. CASE c.file # "kargs"
    BY <1>1, <1>2, <1>6, <2>2 DEF Shape
  <2>3. QED BY <2>1, <2>2
<1>8. c.pc # "idle"
  BY <1>1, TheSections
<1> HIDE DEF c, d, again
<1>9. Shape(d)
  BY <1>1, <1>2, <1>6, <1>7, <1>8 DEF Shape, Invalid, Bad
<1>10. Moves(r, d)
  BY <1>4, <1>6, <1>8, <1>9 DEF Moves, c
<1>11. QED BY <1>1, <1>2, <1>3, <1>10 DEF c, d

\* A call whose name servers cannot be written goes on to its answer, warned.
LEMMA WarnMoves ==
    ASSUME Base, NEW r \in Reqs, WriteFails(r), call[r].pc = "dns"
    PROVE  /\ Moves(r, [call[r] EXCEPT !.warned = TRUE, !.file = "", !.pc = "answer",
                                       !.todo = Named(call[r].cfg, "answer")])
           /\ UNCHANGED <<booted, smooth, ghost>>
<1> DEFINE c == call[r]
           b == [c EXCEPT !.warned = TRUE, !.file = ""]
<1>1. c \in Call /\ Shape(c) /\ c.pc \in Sections
  BY Live, TheSections
<1>2. call' = [call EXCEPT ![r] = Onward(b)] /\ UNCHANGED <<booted, smooth, ghost>>
  BY DEF WriteFails
<1>3. b \in Call /\ b.pc = c.pc /\ b.cfg = c.cfg /\ b.reboot = c.reboot /\ b.file = ""
  BY <1>1, IfacesAssumption DEF Call
<1>4. Onward(b) \in Call /\ Shape(Onward(b))
  BY <1>1, <1>3, OnwardShape
<1>5. Onward(b) = [b EXCEPT !.pc = "answer", !.todo = Named(b.cfg, "answer")]
  BY <1>1, <1>3, OnwardIs DEF NextOf
<1>6. Onward(b) = [c EXCEPT !.warned = TRUE, !.file = "", !.pc = "answer",
                            !.todo = Named(c.cfg, "answer")]
  BY <1>1, <1>5 DEF Call
<1>7. Onward(b).pc = "answer"
  BY <1>3, <1>5 DEF Call
<1> HIDE DEF b
<1>8. Moves(r, Onward(b))
  BY <1>2, <1>4, <1>7 DEF Moves
<1>9. QED BY <1>2, <1>6, <1>8

\* A call arrives with its first section to do and nothing done.
LEMMA ArriveMoves ==
    ASSUME Base, NEW r \in Reqs, NEW c \in Configs, Arrive(r, c)
    PROVE  LET d == [call[r] EXCEPT !.cfg = c, !.pc = "hostname", !.todo = Named(c, "hostname")]
           IN  /\ call' = [call EXCEPT ![r] = d] /\ d \in Call /\ Shape(d)
               /\ d.pc = "hostname" /\ d.cfg = c /\ d.todo = Named(c, "hostname")
               /\ d.file = "" /\ ~d.reboot /\ ~d.warned
<1> DEFINE d == [call[r] EXCEPT !.cfg = c, !.pc = "hostname", !.todo = Named(c, "hostname")]
<1>1. call[r] \in Call /\ call[r] = Idle /\ call' = [call EXCEPT ![r] = d]
  BY Live DEF Arrive, Base, TypeOK
<1>2. call[r].file = "" /\ ~call[r].reboot /\ ~call[r].warned
  BY <1>1, IdleShape
<1>3. Named(c, "hostname") \in SUBSET Files
  BY NamedAreFiles
<1>4. /\ d \in Call /\ d.pc = "hostname" /\ d.cfg = c /\ d.todo = Named(c, "hostname")
      /\ d.file = "" /\ ~d.reboot /\ ~d.warned
  BY <1>1, <1>2, <1>3, TheSections DEF Call
<1> HIDE DEF d
<1>5. Shape(d)
  BY <1>4 DEF Shape
<1>6. QED BY <1>1, <1>4, <1>5 DEF d

\* Each action moves one call, and keeps it in shape, or ends it.
LEMMA NextBase == Base /\ [Next]_vars => Base'
<1> SUFFICES ASSUME Base, [Next]_vars PROVE Base'
  OBVIOUS
<1>t. /\ disk \in [Files -> Contents] /\ touched \subseteq Files
      /\ told \in BOOLEAN /\ smooth \in BOOLEAN /\ call \in [Reqs -> Call]
  BY DEF Base, TypeOK
<1>v. Values \cup {"empty", "garbled"} \subseteq Contents
  BY DEF Contents
<1>a. ASSUME NEW r \in Reqs, NEW c \in Configs, Arrive(r, c) PROVE Base'
  <2> DEFINE d == [call[r] EXCEPT !.cfg = c, !.pc = "hostname", !.todo = Named(c, "hostname")]
  <2>1. /\ call' = [call EXCEPT ![r] = d] /\ d \in Call /\ Shape(d) /\ d.pc = "hostname"
    BY <1>a, ArriveMoves
  <2> HIDE DEF d
  <2>2. /\ solo' = (IF Quiet THEN r ELSE "") /\ touched' = {} /\ outcome' = NoOutcome
        /\ disk' = disk /\ booted' = booted /\ told' = told /\ smooth' = smooth
    BY <1>a DEF Arrive, node
  <2>3. call' \in [Reqs -> Call] /\ \A q \in Reqs : Shape(call'[q])
    BY <1>t, <2>1 DEF Base
  <2>4. TypeOK'
    BY <2>2, <2>3 DEF Base, TypeOK
  <2>5. d # Idle
    BY <2>1, IdleShape
  <2>6. Alone'
    BY <1>t, <2>1, <2>2, <2>5 DEF Alone, Quiet
  <2>7. QED BY <2>3, <2>4, <2>6 DEF Base, Shape, Invalid, Bad
<1>b. ASSUME NEW r \in Reqs, Reject(r) PROVE Base'
  <2>1. Ends(r, "rejected") /\ disk' = disk /\ told' = told /\ Invalid(call[r])
    BY <1>b DEF Reject
  <2>2. call[r].pc # "idle"
    BY <2>1, SectionFiles DEF Invalid, Bad, Named
  <2>3. QED BY <1>t, <2>1, <2>2, EndBase
<1>c. ASSUME NEW r \in Reqs, ReadKargs(r) PROVE Base'
  <2>1. PICK d : Moves(r, d)
    BY <1>c, ReadKargsMoves
  <2>2. UNCHANGED <<node, ghost>>
    BY <1>c DEF ReadKargs
  <2>3. QED BY <1>t, <2>1, <2>2, StepBase DEF Moves, node, ghost
<1>d. ASSUME NEW r \in Reqs, Pass(r) PROVE Base'
  <2>1. PICK d : Moves(r, d)
    BY <1>d, PassMoves
  <2>2. UNCHANGED <<node, ghost>>
    BY <1>d DEF Pass
  <2>3. QED BY <1>t, <2>1, <2>2, StepBase DEF Moves, node, ghost
<1>e. ASSUME NEW r \in Reqs, NEW f \in Files, Open(r, f) PROVE Base'
  <2>1. PICK d : Moves(r, d)
    BY <1>e, OpenMoves
  <2>2. disk' \in [Files -> Contents] /\ touched' \subseteq Files
        /\ UNCHANGED <<booted, told, smooth, solo, outcome>>
    BY <1>e, <1>t, <1>v DEF Open
  <2>3. QED BY <2>1, <2>2, StepBase DEF Moves
<1>f. ASSUME NEW r \in Reqs, Fill(r) PROVE Base'
  <2>1. call[r].cfg[call[r].file] \in Values /\ \E d : Moves(r, d)
    BY <1>f, FillMoves
  <2>2. PICK d : Moves(r, d)
    BY <2>1
  <2>3. disk' \in [Files -> Contents]
    BY <1>f, <1>t, <1>v, <2>1 DEF Fill
  <2>4. UNCHANGED <<booted, told, smooth, ghost>>
    BY <1>f DEF Fill
  <2>5. QED BY <1>t, <2>2, <2>3, <2>4, StepBase DEF Moves, ghost
<1>g. ASSUME NEW r \in Reqs, WriteFails(r), call[r].pc # "idle",
             disk' \in [Files -> Contents], told' = told
      PROVE  Base'
  <2>1. CASE call[r].pc = "dns"
    <3>1. (\E d : Moves(r, d)) /\ UNCHANGED <<booted, smooth, ghost>>
      BY <1>g, <2>1, WarnMoves
    <3>2. PICK d : Moves(r, d)
      BY <3>1
    <3>3. QED BY <1>g, <1>t, <3>1, <3>2, StepBase DEF Moves, ghost
  <2>2. CASE call[r].pc # "dns"
    BY <1>g, <1>t, <2>2, EndBase DEF WriteFails
  <2>3. QED BY <2>1, <2>2
<1>h. ASSUME NEW r \in Reqs, OpenFails(r) PROVE Base'
  BY <1>g, <1>h, <1>t, TheSections DEF OpenFails, Checked
<1>i. ASSUME NEW r \in Reqs, FillFails(r) PROVE Base'
  <2>1. WriteFails(r) /\ told' = told /\ call[r].file # ""
    BY <1>i DEF FillFails
  <2>2. call[r].pc # "idle" /\ call[r].file \in Files
    BY <2>1, Live, TheSections
  <2>3. disk' \in [Files -> Contents]
    BY <1>i, <1>t, <1>v, <2>2 DEF FillFails
  <2>4. QED BY <1>g, <2>1, <2>2, <2>3
<1>j. ASSUME NEW r \in Reqs, Answer(r) PROVE Base'
  <2>1. Ends(r, "applied") /\ disk' = disk /\ call[r].pc # "idle"
        /\ told' = (told \/ call[r].reboot)
    BY <1>j DEF Answer
  <2>2. told' \in BOOLEAN
    BY <2>1
  <2>3. QED BY <1>t, <2>1, <2>2, EndBase
<1>k. ASSUME Lose, booted' \in Contents, told' \in BOOLEAN, smooth' \in BOOLEAN PROVE Base'
  <2>1. /\ call' = [r \in Reqs |-> Idle] /\ solo' = "" /\ touched' = {}
        /\ outcome' = NoOutcome /\ disk' = disk
    BY <1>k DEF Lose
  <2>2. TypeOK'
    BY <1>k, <1>t, <2>1, IdleShape DEF TypeOK
  <2>3. QED BY <2>1, <2>2, IdleShape DEF Base, Alone, Shape, Invalid, Bad
<1>l. ASSUME Crash \/ Reboot PROVE Base'
  <2>1. Lose /\ booted' \in Contents /\ told' \in BOOLEAN /\ smooth' \in BOOLEAN
    BY <1>l DEF Crash, Reboot, Base, TypeOK, Files
  <2>2. QED BY <1>k, <2>1
<1>m. CASE UNCHANGED vars
  BY <1>m DEF vars, node, ghost, Base, TypeOK, Alone, Shape, Invalid, Bad
<1>n. QED
  BY <1>a, <1>b, <1>c, <1>d, <1>e, <1>f, <1>h, <1>i, <1>j, <1>l, <1>m DEF Next

\* Every state of the calls and of the files they write is well typed, for any
\* configurations, any number of calls and any faults (machineconfig/config.go Apply).
THEOREM ConfigTypes == Spec => []TypeOK
<1>1. Base => TypeOK
  BY DEF Base
<1>2. QED BY InitBase, NextBase, <1>1, PTL DEF Spec

-----------------------------------------------------------------------------
(* Every step keeps Settled. *)

\* The sections share no file, but for the two of the kernel arguments.
LEMMA BeforeIs ==
    ASSUME NEW pc \in Sections
    PROVE  /\ Before(NextOf(pc)) = Before(pc) \cup (IF pc = "args" THEN {} ELSE FilesOf(pc))
           /\ FilesOf(pc) \cap Before(pc) = {}
BY TheSections, SectionFiles, IfacesAssumption DEF Before, NextOf, Files

\* A call that passes a section has written no more and no less by that.
LEMMA OnwardProgress ==
    ASSUME NEW c \in Call, NEW t, c.pc \in Sections, c.file = "", ~Invalid(c),
           Progress(c, disk, t), c.todo = {} \/ c.pc = "args",
           NEW d \in Call, d.pc = NextOf(c.pc), d.cfg = c.cfg, d.file = "",
           d.todo = Named(d.cfg, d.pc), d.warned = c.warned
    PROVE  Progress(d, disk, t)
<1>1. Before(d.pc) = Before(c.pc) \cup (IF c.pc = "args" THEN {} ELSE FilesOf(c.pc))
  BY BeforeIs
<1>2. \A f \in FilesOf(c.pc) : c.cfg[f] # "bad"
  BY DEF Invalid, Bad, Named
<1>3. Written(d) = Written(c)
  BY <1>1 DEF Written, Named
<1>4. \A f \in Before(d.pc) : d.cfg[f] # "bad"
  BY <1>1, <1>2 DEF Progress
<1>5. d.pc = "kargs" => d.cfg["kargs"] # "bad"
  BY <1>2, TheSections, SectionFiles DEF NextOf
<1>6. c.pc # "answer"
  BY TheSections
<1>7. QED BY <1>3, <1>4, <1>5, <1>6 DEF Progress

\* A step of a call that goes on keeps Settled if it keeps its progress.
LEMMA StepSettled ==
    ASSUME Base, Settled, NEW r \in Reqs, NEW d, Moves(r, d),
           solo' = solo, outcome' = outcome,
           solo = r => Progress(d, disk', touched')
    PROVE  Settled'
<1>1. call \in [Reqs -> Call] /\ solo \in Reqs \cup {""} /\ call'[r] = d
  BY DEF Base, TypeOK, Moves
<1>2. call[r] # Idle
  BY IdleShape DEF Moves
<1>3. outcome.how = ""
  BY <1>2 DEF Settled, Quiet
<1>4. solo # "" => solo = r
  BY <1>1, <1>2 DEF Base, Alone
<1>5. AppliedIsThere' /\ RejectedPrefix'
  BY <1>3 DEF AppliedIsThere, RejectedPrefix
<1>6. solo' # "" => Progress(call'[solo'], disk', touched')
  BY <1>1, <1>4
<1>7. QED BY <1>3, <1>5, <1>6 DEF Settled

\* The step in which a call ends keeps Settled if what it leaves agrees with its outcome.
LEMMA EndSettled ==
    ASSUME Base, NEW r \in Reqs, NEW how \in {"applied", "rejected", "error"}, Ends(r, how),
           solo = r /\ how = "applied" =>
               \A f \in Files : \/ call[r].cfg[f] \in {"none", disk'[f]}
                                \/ f = "dns" /\ call[r].warned,
           solo = r /\ how = "rejected" =>
               \E n \in 1 .. 5 :
                   LET applied == UNION {Named(call[r].cfg, Order[m]) : m \in 1 .. n - 1} IN
                   /\ \E f \in FilesOf(Order[n]) : call[r].cfg[f] = "bad"
                   /\ touched = applied
                   /\ \A f \in applied : disk'[f] = call[r].cfg[f]
    PROVE  Settled'
<1>1. /\ call' = [call EXCEPT ![r] = Idle] /\ solo' = "" /\ touched' = touched
      /\ outcome' = IF solo = r THEN [how |-> how, cfg |-> call[r].cfg, warned |-> call[r].warned]
                    ELSE NoOutcome
  BY DEF Ends
<1>2. CASE solo = r
  <2>1. outcome'.how = how /\ outcome'.cfg = call[r].cfg /\ outcome'.warned = call[r].warned
    BY <1>1, <1>2
  <2>2. Quiet'
    <3>1. \A q \in Reqs \ {r} : call[q] = Idle
      BY <1>2, ReqsAssumption DEF Base, Alone
    <3>2. QED BY <1>1, <3>1 DEF Quiet, Base, TypeOK
  <2>3. AppliedIsThere'
    BY <1>2, <2>1 DEF AppliedIsThere
  <2>4. RejectedPrefix'
    <3> SUFFICES ASSUME how = "rejected" PROVE RejectedPrefix'
      BY <2>1 DEF RejectedPrefix
    <3> DEFINE applied(n) == UNION {Named(call[r].cfg, Order[m]) : m \in 1 .. n - 1}
               after(n) == UNION {Named(outcome'.cfg, Order[m]) : m \in 1 .. n - 1}
    <3>1. PICK n \in 1 .. 5 :
              /\ \E f \in FilesOf(Order[n]) : call[r].cfg[f] = "bad"
              /\ touched = applied(n)
              /\ \A f \in applied(n) : disk'[f] = call[r].cfg[f]
      BY <1>2
    <3>2. applied(n) = after(n)
      BY <2>1
    <3> HIDE DEF applied, after
    <3>3. /\ \E f \in FilesOf(Order[n]) : outcome'.cfg[f] = "bad"
          /\ touched' = after(n)
          /\ \A f \in after(n) : disk'[f] = outcome'.cfg[f]
      BY <1>1, <2>1, <3>1, <3>2
    <3>4. QED BY <3>3 DEF RejectedPrefix, after
  <2>5. QED BY <1>1, <2>2, <2>3, <2>4 DEF Settled
<1>3. CASE solo # r
  <2>1. outcome'.how = ""
    BY <1>1, <1>3 DEF NoOutcome
  <2>2. QED BY <1>1, <2>1 DEF Settled, AppliedIsThere, RejectedPrefix
<1>4. QED BY <1>2, <1>3

\* A call that is rejected alone has applied the sections before the one at fault.
LEMMA RejectedIs ==
    ASSUME Base, NEW r \in Reqs, Invalid(call[r]), Progress(call[r], disk, touched)
    PROVE  \E n \in 1 .. 5 :
               LET applied == UNION {Named(call[r].cfg, Order[m]) : m \in 1 .. n - 1} IN
               /\ \E f \in FilesOf(Order[n]) : call[r].cfg[f] = "bad"
               /\ touched = applied
               /\ \A f \in applied : disk[f] = call[r].cfg[f]
<1> DEFINE c == call[r]
           applied(n) == UNION {Named(c.cfg, Order[m]) : m \in 1 .. n - 1}
<1>1. c \in Call /\ Shape(c) /\ c.file = "" /\ c.todo = Named(c.cfg, c.pc)
  BY Live DEF Shape
<1>2. \E f \in FilesOf(c.pc) : c.cfg[f] = "bad"
  BY DEF Invalid, Bad, Named
<1>3. c.pc \in {"hostname", "network", "args", "dns"}
  <2>1. c.pc \in {"hostname", "network", "args", "kargs", "dns", "idle", "answer"}
    BY <1>1, TheSections DEF Call
  <2>2. c.pc # "kargs"
    BY <1>2, SectionFiles DEF Progress
  <2>3. QED BY <1>2, <2>1, <2>2, SectionFiles
<1>4. PICK n \in {1, 2, 3, 5} : Order[n] = c.pc
  BY <1>3, TheSections
<1>5. applied(n) = {f \in Before(c.pc) : c.cfg[f] # "none"}
  <2>1. CASE n = 1
    <3>1. 1 .. n - 1 = {} /\ c.pc = "hostname"
      BY <1>4, <2>1, TheSections
    <3>2. QED BY <3>1 DEF Before
  <2>2. CASE n = 2
    <3>1. 1 .. n - 1 = {1} /\ c.pc = "network"
      BY <1>4, <2>2, TheSections
    <3>2. applied(n) = Named(c.cfg, "hostname")
      BY <3>1, TheSections
    <3>3. QED BY <3>1, <3>2, SectionFiles DEF Before, Named
  <2>3. CASE n = 3
    <3>1. 1 .. n - 1 = {1, 2} /\ c.pc = "args"
      BY <1>4, <2>3, TheSections
    <3>2. applied(n) = Named(c.cfg, "hostname") \cup Named(c.cfg, "network")
      BY <3>1, TheSections
    <3>3. QED BY <3>1, <3>2, SectionFiles DEF Before, Named
  <2>4. CASE n = 5
    <3>1. 1 .. n - 1 = {1, 2, 3, 4} /\ c.pc = "dns"
      BY <1>4, <2>4, TheSections
    <3>2. applied(n) = Named(c.cfg, "hostname") \cup Named(c.cfg, "network")
                       \cup Named(c.cfg, "args") \cup Named(c.cfg, "kargs")
      BY <3>1, TheSections
    <3>3. QED BY <3>1, <3>2, SectionFiles DEF Before, Named
  <2>5. QED BY <2>1, <2>2, <2>3, <2>4
<1>6. applied(n) = Written(c)
  BY <1>1, <1>5 DEF Written
<1>7. touched = applied(n) /\ ~c.warned
  BY <1>1, <1>3, <1>6 DEF Progress
<1>8. \A f \in applied(n) : disk[f] = c.cfg[f]
  BY <1>6, <1>7 DEF Progress
<1> HIDE DEF applied
<1>9. n \in 1 .. 5 /\ \E f \in FilesOf(Order[n]) : c.cfg[f] = "bad"
  BY <1>2, <1>4
<1>10. QED BY <1>7, <1>8, <1>9 DEF applied

\* Nothing applied, nothing rejected.
LEMMA InitSettled == Init => Settled
<1> SUFFICES ASSUME Init PROVE Settled
  OBVIOUS
<1>1. outcome.how = "" /\ solo = ""
  BY DEF Init, NoOutcome
<1>2. QED BY <1>1 DEF Settled, AppliedIsThere, RejectedPrefix

\* A lone call keeps account of what it has written, and its outcome says the same.
LEMMA NextSettled == ASSUME Base, Settled, [Next]_vars PROVE Settled'
<1>t. \A r \in Reqs : solo = r => Progress(call[r], disk, touched)
  BY ReqsAssumption DEF Settled
<1>a. ASSUME NEW r \in Reqs, NEW c \in Configs, Arrive(r, c) PROVE Settled'
  <2> DEFINE d == [call[r] EXCEPT !.cfg = c, !.pc = "hostname", !.todo = Named(c, "hostname")]
  <2>1. /\ call' = [call EXCEPT ![r] = d] /\ d.pc = "hostname" /\ d.file = "" /\ ~d.warned
        /\ d.cfg = c /\ d.todo = Named(c, "hostname")
    BY <1>a, ArriveMoves
  <2> HIDE DEF d
  <2>2. solo' \in {r, ""} /\ touched' = {} /\ outcome' = NoOutcome
    BY <1>a DEF Arrive
  <2>3. Progress(d, disk', {})
    BY <2>1 DEF Progress, Written, Before
  <2>4. call'[r] = d
    BY <2>1 DEF Base, TypeOK
  <2>5. outcome'.how = ""
    BY <2>2 DEF NoOutcome
  <2>6. QED BY <2>2, <2>3, <2>4, <2>5 DEF Settled, AppliedIsThere, RejectedPrefix
<1>b. ASSUME NEW r \in Reqs, Reject(r) PROVE Settled'
  <2>1. Ends(r, "rejected") /\ disk' = disk /\ Invalid(call[r])
    BY <1>b DEF Reject
  <2>2. QED BY <1>t, <2>1, RejectedIs, EndSettled
<1>c. ASSUME NEW r \in Reqs, ReadKargs(r) PROVE Settled'
  <2> DEFINE c == call[r]
  <2>1. PICK v : Moves(r, [c EXCEPT !.existing = v, !.pc = "kargs", !.todo = Named(c.cfg, "kargs")])
    BY <1>c, ReadKargsMoves
  <2> DEFINE d == [c EXCEPT !.existing = v, !.pc = "kargs", !.todo = Named(c.cfg, "kargs")]
  <2>2. c \in Call /\ c.pc \in Sections /\ c.pc = "args" /\ c.file = "" /\ ~Invalid(c)
    BY <1>c, Live, TheSections DEF ReadKargs, Checked
  <2>3. /\ d.pc = NextOf(c.pc) /\ d.cfg = c.cfg /\ d.file = "" /\ d.warned = c.warned
        /\ d.todo = Named(d.cfg, d.pc)
    BY <2>2 DEF NextOf, Call
  <2>4. /\ disk' = disk /\ touched' = touched /\ solo' = solo /\ outcome' = outcome
    BY <1>c DEF ReadKargs, node, ghost
  <2>5. d \in Call /\ Moves(r, d)
    BY <2>1 DEF Moves
  <2> HIDE DEF d, c
  <2>6. solo = r => Progress(d, disk, touched)
    BY <1>t, <2>2, <2>3, <2>5, OnwardProgress DEF c
  <2>7. QED BY <2>4, <2>5, <2>6, StepSettled
<1>d. ASSUME NEW r \in Reqs, Pass(r) PROVE Settled'
  <2> DEFINE c == call[r]
             d == [c EXCEPT !.pc = NextOf(@), !.todo = Named(c.cfg, NextOf(c.pc))]
  <2>1. /\ c.pc \in Sections /\ c.file = "" /\ ~Invalid(c) /\ c.todo = {}
        /\ Moves(r, d) /\ c \in Call
    BY <1>d, PassMoves, Live
  <2>2. /\ d.pc = NextOf(c.pc) /\ d.cfg = c.cfg /\ d.file = "" /\ d.warned = c.warned
        /\ d.todo = Named(d.cfg, d.pc)
    BY <2>1 DEF Call
  <2>3. /\ disk' = disk /\ touched' = touched /\ solo' = solo /\ outcome' = outcome
    BY <1>d DEF Pass, node, ghost
  <2>4. d \in Call
    BY <2>1 DEF Moves
  <2> HIDE DEF d, c
  <2>5. solo = r => Progress(d, disk, touched)
    BY <1>t, <2>1, <2>2, <2>4, OnwardProgress DEF c
  <2>6. QED BY <2>1, <2>3, <2>5, StepSettled
<1>e. ASSUME NEW r \in Reqs, NEW f \in Files, Open(r, f) PROVE Settled'
  <2> DEFINE c == call[r]
             d == [c EXCEPT !.file = f]
  <2>1. /\ c.pc \in Sections \ {"args"} /\ c.file = "" /\ f \in c.todo /\ f # ""
        /\ Moves(r, d) /\ c \in Call /\ Shape(c)
    BY <1>e, OpenMoves, Live
  <2>2. /\ d.pc = c.pc /\ d.cfg = c.cfg /\ d.file = f /\ d.warned = c.warned /\ d.todo = c.todo
    BY <2>1 DEF Call
  <2>3. /\ disk' = [disk EXCEPT ![f] = "empty"] /\ disk \in [Files -> Contents]
        /\ touched' = (IF solo = r THEN touched \cup {f} ELSE touched)
        /\ solo' = solo /\ outcome' = outcome
    BY <1>e DEF Open, Base, TypeOK
  <2> HIDE DEF d
  <2>4. f \in FilesOf(c.pc) /\ f \notin Written(c) /\ Written(d) = Written(c)
    BY <2>1, <2>2, BeforeIs DEF Shape, Named, Written
  <2>5. ASSUME solo = r PROVE Progress(d, disk', touched')
    <3>1. Progress(c, disk, touched) /\ c.pc # "answer"
      BY <1>t, <2>1, <2>5, TheSections
    <3>2. \A g \in Written(c) : disk'[g] = disk[g]
      BY <2>3, <2>4
    <3>3. \A g \in Written(d) : disk'[g] = d.cfg[g] \/ (g = "dns" /\ d.warned)
      BY <2>2, <2>4, <3>1, <3>2 DEF Progress
    <3>4. ~d.warned /\ touched' = Written(d) \cup ({d.file} \ {""})
      BY <2>1, <2>2, <2>3, <2>4, <2>5, <3>1 DEF Progress
    <3>5. disk'[d.file] = "empty"
      BY <2>2, <2>3
    <3> HIDE DEF c
    <3>6. QED BY <2>2, <3>1, <3>3, <3>4, <3>5 DEF Progress
  <2>6. QED BY <2>1, <2>3, <2>5, StepSettled
<1>f. ASSUME NEW r \in Reqs, Fill(r) PROVE Settled'
  <2> DEFINE c == call[r]
             f == c.file
             d == [c EXCEPT !.file = "", !.todo = @ \ {c.file}, !.existing = "none",
                            !.reboot = IF c.file = "kargs" THEN Differs(c) ELSE @]
  <2>1. /\ f # "" /\ f \in c.todo /\ f \in Files /\ c.pc \in Sections \ {"args"}
        /\ Moves(r, d) /\ c \in Call /\ Shape(c)
    BY <1>f, FillMoves, Live
  <2>2. /\ d.pc = c.pc /\ d.cfg = c.cfg /\ d.file = "" /\ d.warned = c.warned
        /\ d.todo = c.todo \ {f}
    BY <2>1 DEF Call
  <2>3. /\ \/ disk' = [disk EXCEPT ![f] = c.cfg[f]]
           \/ disk[f] # "empty"
        /\ disk \in [Files -> Contents]
        /\ touched' = touched /\ solo' = solo /\ outcome' = outcome
    BY <1>f DEF Fill, ghost, Base, TypeOK
  <2> HIDE DEF d
  <2>4. f \in Named(c.cfg, c.pc) /\ Written(d) = Written(c) \cup {f}
    BY <2>1, <2>2 DEF Shape, Written
  <2>5. ASSUME solo = r PROVE Progress(d, disk', touched')
    <3>1. Progress(c, disk, touched) /\ c.pc # "answer"
      BY <1>t, <2>1, <2>5, TheSections
    <3>2. disk' = [disk EXCEPT ![f] = c.cfg[f]]
      BY <2>1, <2>3, <3>1 DEF Progress
    <3>3. \A g \in Written(d) : disk'[g] = d.cfg[g] \/ (g = "dns" /\ d.warned)
      <4> SUFFICES ASSUME NEW g \in Written(d) PROVE disk'[g] = d.cfg[g] \/ (g = "dns" /\ d.warned)
        OBVIOUS
      <4>1. CASE g = f
        BY <2>1, <2>2, <2>3, <3>2, <4>1
      <4>2. CASE g # f
        <5>1. g \in Written(c) /\ disk'[g] = disk[g]
          BY <2>3, <2>4, <3>2, <4>2
        <5>2. QED BY <2>2, <3>1, <5>1 DEF Progress
      <4>3. QED BY <4>1, <4>2
    <3>4. ~d.warned /\ touched' = Written(d) \cup ({d.file} \ {""})
      BY <2>1, <2>2, <2>3, <2>4, <3>1 DEF Progress
    <3> HIDE DEF c, f
    <3>5. QED BY <2>2, <3>1, <3>3, <3>4 DEF Progress
  <2>6. QED BY <2>1, <2>3, <2>5, StepSettled
<1>g. ASSUME NEW r \in Reqs, WriteFails(r), call[r].pc \in Sections, ~Invalid(call[r]),
             \A f \in Files : f = call[r].file \/ disk'[f] = disk[f]
      PROVE  Settled'
  <2> DEFINE c == call[r]
             d == [c EXCEPT !.warned = TRUE, !.file = "", !.pc = "answer",
                            !.todo = Named(c.cfg, "answer")]
  <2>1. CASE c.pc = "dns"
    <3>1. /\ Moves(r, d) /\ touched' = touched /\ solo' = solo /\ outcome' = outcome
      BY <1>g, <2>1, WarnMoves DEF ghost
    <3>2. c \in Call /\ Shape(c)
      BY Live
    <3>3. /\ d.pc = "answer" /\ d.cfg = c.cfg /\ d.file = "" /\ d.warned
          /\ d.todo = Named(c.cfg, "answer")
      BY <3>2 DEF Call
    <3> HIDE DEF d
    <3>4. c.file # "" => c.file = "dns"
      BY <2>1, <3>2, SectionFiles DEF Shape, Named
    <3>5. /\ Before("answer") = Before("dns") \cup {"dns"} /\ Before("answer") = Files
          /\ "dns" \notin Before("dns")
      BY IfacesAssumption DEF Before, Files
    <3>6. Written(d) \ {"dns"} \subseteq Written(c) \cap Before("dns") /\ Written(d) \subseteq Files
      BY <2>1, <3>3, <3>5, SectionFiles DEF Written, Named
    <3>7. ASSUME solo = r PROVE Progress(d, disk', touched')
      <4>1. Progress(c, disk, touched)
        BY <1>t, <3>7
      <4>2. \A g \in Files : d.cfg[g] # "bad"
        <5>1. c.cfg["dns"] # "bad"
          BY <1>g, <2>1, SectionFiles DEF Invalid, Bad, Named
        <5>2. QED BY <2>1, <3>3, <3>5, <4>1, <5>1 DEF Progress
      <4>3. \A g \in Written(d) : disk'[g] = d.cfg[g] \/ (g = "dns" /\ d.warned)
        <5> SUFFICES ASSUME NEW g \in Written(d), g # "dns" PROVE disk'[g] = d.cfg[g]
          BY <3>3
        <5>1. g \in Written(c) /\ g \in Files /\ disk'[g] = disk[g]
          <6>1. g # "" /\ g \in Written(c) /\ g \in Files
            BY <3>6, IfacesAssumption DEF Files
          <6>2. QED BY <1>g, <3>4, <6>1
        <5>2. QED BY <3>3, <4>1, <5>1 DEF Progress
      <4>4. QED BY <3>3, <3>5, <4>2, <4>3 DEF Progress
    <3>8. QED BY <3>1, <3>7, StepSettled
  <2>2. CASE c.pc # "dns"
    BY <1>g, <2>2, EndSettled DEF WriteFails
  <2>3. QED BY <2>1, <2>2
<1>h. ASSUME NEW r \in Reqs, OpenFails(r) PROVE Settled'
  BY <1>g, <1>h DEF OpenFails, Checked
<1>i. ASSUME NEW r \in Reqs, FillFails(r) PROVE Settled'
  <2>1. WriteFails(r) /\ call[r].file # "" /\ \E cut : disk' = [disk EXCEPT ![call[r].file] = cut]
    BY <1>i DEF FillFails
  <2>2. call[r].pc \in Sections /\ ~Invalid(call[r])
    BY <2>1, Live DEF Shape
  <2>3. \A f \in Files : f = call[r].file \/ disk'[f] = disk[f]
    BY <2>1 DEF Base, TypeOK
  <2>4. QED BY <1>g, <2>1, <2>2, <2>3
<1>j. ASSUME NEW r \in Reqs, Answer(r) PROVE Settled'
  <2> DEFINE c == call[r]
  <2>1. Ends(r, "applied") /\ disk' = disk /\ c.pc = "answer"
    BY <1>j DEF Answer
  <2>2. Before("answer") = Files
    BY DEF Before
  <2>3. solo = r => \A f \in Files : c.cfg[f] \in {"none", disk[f]} \/ (f = "dns" /\ c.warned)
    BY <1>t, <2>1, <2>2 DEF Progress, Written
  <2>4. QED BY <2>1, <2>3, EndSettled
<1>k. ASSUME Crash \/ Reboot PROVE Settled'
  <2>1. solo' = "" /\ outcome' = NoOutcome
    BY <1>k DEF Crash, Reboot, Lose
  <2>2. outcome'.how = ""
    BY <2>1 DEF NoOutcome
  <2>3. QED BY <2>1, <2>2 DEF Settled, AppliedIsThere, RejectedPrefix
<1>l. CASE UNCHANGED vars
  <2>1. UNCHANGED <<disk, call, solo, touched, outcome>>
    BY <1>l DEF vars, node, ghost
  <2>2. (solo # "" => Progress(call[solo], disk, touched))'
    BY <2>1 DEF Settled
  <2>3. (outcome.how # "" => Quiet)'
    BY <2>1 DEF Settled, Quiet
  <2>4. AppliedIsThere'
    BY <2>1 DEF Settled, AppliedIsThere
  <2>5. RejectedPrefix'
    <3>1. outcome' = outcome /\ disk' = disk /\ touched' = touched
      BY <2>1
    <3>2. RejectedPrefix
      BY DEF Settled
    <3> DEFINE Prefix(o, d, t, m) ==
                   LET applied == UNION {Named(o.cfg, Order[k]) : k \in 1 .. m - 1} IN
                   /\ \E f \in FilesOf(Order[m]) : o.cfg[f] = "bad"
                   /\ t = applied
                   /\ \A f \in applied : d[f] = o.cfg[f]
    <3>3. RejectedPrefix <=>
              (outcome.how = "rejected" => \E m \in 1 .. 5 : Prefix(outcome, disk, touched, m))
      BY Zenon DEF RejectedPrefix
    <3>4. RejectedPrefix' <=>
              (outcome'.how = "rejected" => \E m \in 1 .. 5 : Prefix(outcome', disk', touched', m))
      BY Zenon DEF RejectedPrefix
    <3> HIDE DEF Prefix
    <3>5. QED BY <3>1, <3>2, <3>3, <3>4
  <2>6. QED BY <2>2, <2>3, <2>4, <2>5 DEF Settled
<1>m. QED
  BY <1>a, <1>b, <1>c, <1>d, <1>e, <1>f, <1>h, <1>i, <1>j, <1>k, <1>l DEF Next

\* A call of ApplyConfig that ran alone and was answered without an error has put in the
\* files all its configuration says, the name servers excepted if it warned of them,
\* whatever earlier calls, failed writes and crashes left there (machineconfig/config.go
\* Apply).
THEOREM AppliedIsOnDisk == Spec => []AppliedIsThere
<1>1. Init => Base /\ Settled
  BY InitBase, InitSettled
<1>2. Base /\ Settled /\ [Next]_vars => (Base /\ Settled)'
  BY NextBase, NextSettled
<1>3. Settled => AppliedIsThere
  BY DEF Settled
<1>4. QED BY <1>1, <1>2, <1>3, PTL DEF Spec

\* A call that ran alone and was rejected for a section has written all that its
\* configuration says of the sections before it, and opened no other file
\* (machineconfig/config.go Apply, its order of sections).
THEOREM RejectedWhole == Spec => []RejectedPrefix
<1>1. Init => Base /\ Settled
  BY InitBase, InitSettled
<1>2. Base /\ Settled /\ [Next]_vars => (Base /\ Settled)'
  BY NextBase, NextSettled
<1>3. Settled => RejectedPrefix
  BY DEF Settled
<1>4. QED BY <1>1, <1>2, <1>3, PTL DEF Spec

-----------------------------------------------------------------------------
(* Every step keeps Asked. *)

\* The node runs with the arguments on its disk.
LEMMA InitAsked == Init => Asked
<1> SUFFICES ASSUME Init PROVE Asked
  OBVIOUS
<1>1. disk["kargs"] = booted
  BY DEF Init, Files
<1>2. \A r \in Reqs : ~Pending(call[r])
  BY IdleShape DEF Init, Pending
<1>3. QED BY <1>1, <1>2 DEF Asked, Unchanged

\* Only an open file of kernel arguments is written, and by a call that is pending.
LEMMA WriterPending ==
    ASSUME Base, NEW r \in Reqs
    PROVE  /\ call[r].file = "kargs" => Pending(call[r])
           /\ Pending(call[r]) => call[r].todo = {"kargs"} /\ ~call[r].reboot
           /\ call[r].file # "" /\ call[r].file # "kargs" => ~Pending(call[r])
<1>1. call[r] \in Call /\ Shape(call[r])
  BY Live
<1>2. call[r].file = "kargs" => call[r].pc = "kargs"
  BY <1>1, Live, TheSections, SectionFiles, IfacesAssumption DEF Shape, Named
<1>3. call[r].pc = "kargs" => call[r].todo \subseteq {"kargs"}
  BY <1>1, SectionFiles DEF Shape, Named
<1>4. QED BY <1>1, <1>2, <1>3 DEF Pending, Shape, Call

\* A step of r that leaves the kernel arguments and who waits to write them as they are.
LEMMA StepAsked ==
    ASSUME Base, Asked, NEW r \in Reqs, NEW d, call' = [call EXCEPT ![r] = d],
           booted' = booted, told => told', smooth' => smooth, disk'["kargs"] = disk["kargs"],
           ~told' /\ WillAsk(call[r]) => WillAsk(d),
           Pending(d) => Pending(call[r]) /\ d.cfg = call[r].cfg,
           call[r].file = "kargs" => d.file = "kargs"
    PROVE  Asked'
<1>1. \A q \in Reqs : call'[q] = IF q = r THEN d ELSE call[q]
  BY DEF Base, TypeOK
<1>2. SUFFICES ASSUME smooth', ~told', booted # "garbled", \A q \in Reqs : ~WillAsk(call'[q])
               PROVE  Unchanged'
  BY DEF Asked, WillAsk, Pending
<1>3. \A q \in Reqs : ~WillAsk(call[q])
  BY <1>1, <1>2
<1>4. Unchanged
  BY <1>2, <1>3 DEF Asked
<1>5. \A q \in Reqs : Pending(call'[q]) => call'[q].cfg["kargs"] = booted
  BY <1>1, <1>4 DEF Unchanged
<1>6. \/ disk'["kargs"] = booted
      \/ disk'["kargs"] = "empty" /\ \E q \in Reqs : call'[q].file = "kargs"
  BY <1>1, <1>4 DEF Unchanged
<1>7. QED BY <1>5, <1>6 DEF Unchanged, Pending

\* Arguments the node does not run with are those of a call that has told, or will.
LEMMA NextAsked == ASSUME Base, Asked, [Next]_vars PROVE Asked'
<1>t. /\ \A r \in Reqs : call[r] \in Call /\ Shape(call[r])
      /\ \A r \in Reqs : \A d : call' = [call EXCEPT ![r] = d]
             => \A q \in Reqs : call'[q] = IF q = r THEN d ELSE call[q]
      /\ disk \in [Files -> Contents] /\ "kargs" \in Files
  BY DEF Base, TypeOK, Files
<1>s. ASSUME ~smooth' PROVE Asked'
  BY <1>s DEF Asked
<1>a. ASSUME NEW r \in Reqs, NEW c \in Configs, Arrive(r, c) PROVE Asked'
  <2> DEFINE d == [call[r] EXCEPT !.cfg = c, !.pc = "hostname", !.todo = Named(c, "hostname")]
  <2>1. /\ call' = [call EXCEPT ![r] = d] /\ d.pc = "hostname"
    BY <1>a, ArriveMoves
  <2> HIDE DEF d
  <2>2. call[r] = Idle /\ disk' = disk /\ booted' = booted /\ told' = told /\ smooth' = smooth
    BY <1>a DEF Arrive, node
  <2>3. ~Pending(d) /\ ~WillAsk(call[r]) /\ call[r].file = ""
    BY <2>1, <2>2, IdleShape DEF Pending, WillAsk
  <2>4. QED BY <2>1, <2>2, <2>3, StepAsked
<1>b. ASSUME NEW r \in Reqs, Reject(r) PROVE Asked'
  BY <1>b, <1>s DEF Reject, Ends
<1>c. ASSUME NEW r \in Reqs, ReadKargs(r) PROVE Asked'
  <2> DEFINE c == call[r]
  <2>1. PICK v \in Parsed(disk["kargs"]) \cup {"none"} :
            Moves(r, [c EXCEPT !.existing = v, !.pc = "kargs", !.todo = Named(c.cfg, "kargs")])
    BY <1>c, ReadKargsMoves
  <2> DEFINE d == [c EXCEPT !.existing = v, !.pc = "kargs", !.todo = Named(c.cfg, "kargs")]
  <2>2. /\ c \in Call /\ Shape(c) /\ c.pc = "args" /\ c.file = "" /\ ~Invalid(c) /\ c.todo # {}
        /\ disk' = disk /\ booted' = booted /\ told' = told /\ smooth' = smooth
    BY <1>c, <1>t DEF ReadKargs, Checked, node
  <2>3. /\ d.pc = "kargs" /\ d.cfg = c.cfg /\ d.existing = v /\ d.todo = Named(c.cfg, "kargs")
        /\ d.reboot = c.reboot
    BY <2>2 DEF Call
  <2>4. c.cfg["kargs"] \in Values
    <3>1. c.cfg["kargs"] # "none" /\ c.cfg["kargs"] # "bad"
      BY <2>2, SectionFiles DEF Shape, Named, Invalid, Bad
    <3>2. c.cfg \in Configs
      BY <2>2 DEF Shape
    <3>3. QED BY <1>t, <3>1, <3>2, Distinct
  <2>5. Pending(d) /\ ~c.reboot /\ ~WillAsk(c)
    BY <2>2, <2>3, <2>4, SectionFiles, Distinct DEF Pending, WillAsk, Shape, Named
  <2>6. \A q \in Reqs : call'[q] = IF q = r THEN d ELSE call[q]
    BY <1>t, <2>1 DEF Moves
  <2> HIDE DEF d
  <2>7. SUFFICES ASSUME smooth, ~told, booted # "garbled", \A q \in Reqs : ~WillAsk(call'[q])
                 PROVE  Unchanged'
    BY <2>2 DEF Asked, WillAsk, Pending
  <2>8. Unchanged
    <3>1. \A q \in Reqs : ~WillAsk(call[q])
      BY <2>5, <2>6, <2>7
    <3>2. QED BY <2>7, <3>1 DEF Asked
  <2>9. v = c.cfg["kargs"] /\ v \in Values /\ v \in Parsed(disk["kargs"])
    BY <2>1, <2>3, <2>4, <2>5, <2>6, <2>7, Distinct DEF WillAsk
  <2>10. disk["kargs"] = booted /\ v = booted
    <3>1. disk["kargs"] # "empty"
      BY <2>9, Distinct DEF Parsed
    <3>2. disk["kargs"] = booted
      BY <2>8, <3>1 DEF Unchanged
    <3>3. v = booted
      BY <2>7, <2>9, <3>1, <3>2, Distinct DEF Parsed
    <3>4. QED BY <3>2, <3>3
  <2>11. \A q \in Reqs : Pending(call'[q]) => call'[q].cfg["kargs"] = booted
    BY <2>3, <2>6, <2>8, <2>9, <2>10 DEF Unchanged
  <2>12. QED BY <2>2, <2>10, <2>11 DEF Unchanged, Pending
<1>d. ASSUME NEW r \in Reqs, Pass(r) PROVE Asked'
  <2> DEFINE c == call[r]
             d == [c EXCEPT !.pc = NextOf(@), !.todo = Named(c.cfg, NextOf(c.pc))]
  <2>1. /\ c.pc \in Sections /\ c.todo = {} /\ Moves(r, d) /\ c \in Call /\ Shape(c) /\ c.file = ""
    BY <1>d, <1>t, PassMoves
  <2>2. /\ d.pc = NextOf(c.pc) /\ d.cfg = c.cfg /\ d.reboot = c.reboot
        /\ d.todo = Named(c.cfg, d.pc)
    BY <2>1 DEF Call
  <2>3. /\ disk' = disk /\ booted' = booted /\ told' = told /\ smooth' = smooth
    BY <1>d DEF Pass, node
  <2> HIDE DEF d
  <2>4. ~Pending(d)
    <3>1. d.pc = "kargs" => c.pc = "args"
      BY <2>1, <2>2, TheSections DEF NextOf
    <3>2. c.pc = "args" => Named(c.cfg, "args") = {} /\ Named(c.cfg, "kargs") = {}
      BY <2>1, SectionFiles DEF Shape, Named
    <3>3. QED BY <2>2, <3>1, <3>2 DEF Pending
  <2>5. WillAsk(c) => WillAsk(d)
    BY <2>1, <2>2 DEF WillAsk, Pending
  <2>6. call' = [call EXCEPT ![r] = d]
    BY <2>1 DEF Moves
  <2>7. QED BY <2>1, <2>3, <2>4, <2>5, <2>6, StepAsked
<1>e. ASSUME NEW r \in Reqs, NEW f \in Files, Open(r, f) PROVE Asked'
  <2> DEFINE c == call[r]
             d == [c EXCEPT !.file = f]
  <2>1. /\ Moves(r, d) /\ c \in Call /\ c.file = ""
    BY <1>e, <1>t, OpenMoves
  <2>2. /\ d.pc = c.pc /\ d.cfg = c.cfg /\ d.file = f /\ d.todo = c.todo
        /\ d.reboot = c.reboot /\ d.existing = c.existing
    BY <2>1 DEF Call
  <2>3. /\ disk' = [disk EXCEPT ![f] = "empty"]
        /\ booted' = booted /\ told' = told /\ smooth' = smooth
    BY <1>e DEF Open
  <2>4. \A q \in Reqs : call'[q] = IF q = r THEN d ELSE call[q]
    BY <1>t, <2>1 DEF Moves
  <2> HIDE DEF d
  <2>5. (WillAsk(d) <=> WillAsk(c)) /\ (Pending(d) <=> Pending(c))
    BY <2>2 DEF WillAsk, Pending
  <2>6. CASE f = "kargs"
    <3>1. SUFFICES ASSUME smooth, ~told, booted # "garbled", \A q \in Reqs : ~WillAsk(call'[q])
                   PROVE  Unchanged'
      BY <2>3 DEF Asked, WillAsk, Pending
    <3>2. Unchanged
      BY <2>4, <2>5, <3>1 DEF Asked
    <3>3. disk'["kargs"] = "empty" /\ call'[r].file = "kargs"
      BY <1>t, <2>2, <2>3, <2>4, <2>6
    <3>4. \A q \in Reqs : Pending(call'[q]) => call'[q].cfg["kargs"] = booted
      BY <2>2, <2>4, <2>5, <3>2 DEF Unchanged
    <3>5. QED BY <2>3, <3>3, <3>4 DEF Unchanged, Pending
  <2>7. CASE f # "kargs"
    <3>1. disk'["kargs"] = disk["kargs"] /\ call' = [call EXCEPT ![r] = d]
      BY <1>t, <2>1, <2>3, <2>7 DEF Moves
    <3>2. QED BY <2>1, <2>2, <2>3, <2>5, <3>1, StepAsked
  <2>8. QED BY <2>6, <2>7
<1>f. ASSUME NEW r \in Reqs, Fill(r) PROVE Asked'
  <2> DEFINE c == call[r]
             d == [c EXCEPT !.file = "", !.todo = @ \ {c.file}, !.existing = "none",
                            !.reboot = IF c.file = "kargs" THEN Differs(c) ELSE @]
  <2>1. Moves(r, d) /\ c \in Call /\ c.file \in Files /\ c.file # ""
    BY <1>f, <1>t, FillMoves
  <2>2. /\ d.pc = c.pc /\ d.cfg = c.cfg /\ d.todo = c.todo \ {c.file} /\ d.file = ""
        /\ d.reboot = IF c.file = "kargs" THEN Differs(c) ELSE c.reboot
    BY <2>1 DEF Call
  <2> HIDE DEF d
  <2>3. /\ \/ disk' = [disk EXCEPT ![c.file] = c.cfg[c.file]]
           \/ \E v : /\ disk[c.file] # "empty" /\ disk[c.file] # c.cfg[c.file]
                    /\ disk' = [disk EXCEPT ![c.file] = v]
        /\ booted' = booted /\ told' = told /\ smooth' = smooth
    BY <1>f DEF Fill
  <2>4. \A q \in Reqs : call'[q] = IF q = r THEN d ELSE call[q]
    BY <1>t, <2>1 DEF Moves
  <2>5. call' = [call EXCEPT ![r] = d]
    BY <2>1 DEF Moves
  <2> HIDE DEF d
  <2>6. CASE c.file = "kargs"
    <3>1. SUFFICES ASSUME smooth, ~told, booted # "garbled", \A q \in Reqs : ~WillAsk(call'[q])
                   PROVE  Unchanged'
      BY <2>3 DEF Asked, WillAsk, Pending
    <3>2. Pending(c) /\ c.todo = {"kargs"} /\ ~c.reboot
      BY <2>6, WriterPending
    <3>3. ~Pending(d)
      BY <2>2, <2>6, <3>2 DEF Pending
    <3>4. ~Differs(c)
      BY <2>2, <2>4, <2>6, <3>1 DEF WillAsk
    <3>5. ~WillAsk(c)
      BY <3>2, <3>4 DEF WillAsk, Differs
    <3>6. Unchanged
      BY <2>4, <3>1, <3>5 DEF Asked
    <3>7. c.cfg["kargs"] = booted /\ disk["kargs"] \in {booted, "empty"}
      BY <3>2, <3>6 DEF Unchanged
    <3>8. disk'["kargs"] = booted
      BY <1>t, <2>3, <2>6, <3>7
    <3>9. \A q \in Reqs : Pending(call'[q]) => call'[q].cfg["kargs"] = booted
      BY <2>4, <3>3, <3>6 DEF Unchanged
    <3>10. QED BY <2>3, <3>8, <3>9 DEF Unchanged, Pending
  <2>7. CASE c.file # "kargs"
    <3>1. disk'["kargs"] = disk["kargs"]
      BY <1>t, <2>3, <2>7
    <3>2. ~Pending(c)
      BY <2>1, <2>7, WriterPending
    <3>3. ~Pending(d) /\ (WillAsk(c) => WillAsk(d))
      BY <2>2, <2>7, <3>2 DEF Pending, WillAsk
    <3>4. QED BY <2>3, <2>5, <2>7, <3>1, <3>3, StepAsked
  <2>8. QED BY <2>6, <2>7
<1>g. ASSUME NEW r \in Reqs, WriteFails(r), call[r].pc \in Sections, told' = told,
             \A f \in Files : f = call[r].file \/ disk'[f] = disk[f]
      PROVE  Asked'
  <2> DEFINE c == call[r]
             d == [c EXCEPT !.warned = TRUE, !.file = "", !.pc = "answer",
                            !.todo = Named(c.cfg, "answer")]
  <2>1. CASE c.pc = "dns"
    <3>1. /\ Moves(r, d) /\ booted' = booted /\ smooth' = smooth
      BY <1>g, <2>1, WarnMoves
    <3>2. d.pc = "answer" /\ d.reboot = c.reboot /\ call' = [call EXCEPT ![r] = d]
      BY <1>t, <3>1 DEF Moves, Call
    <3> HIDE DEF d
    <3>3. ~Pending(c) /\ ~Pending(d) /\ (WillAsk(c) => WillAsk(d))
      BY <2>1, <3>2 DEF Pending, WillAsk
    <3>4. c.file # "kargs"
      BY <3>3, WriterPending
    <3>5. disk'["kargs"] = disk["kargs"]
      BY <1>g, <1>t, <3>4
    <3>6. QED BY <1>g, <3>1, <3>2, <3>3, <3>4, <3>5, StepAsked
  <2>2. CASE c.pc # "dns"
    BY <1>g, <1>s, <2>2 DEF WriteFails, Ends
  <2>3. QED BY <2>1, <2>2
<1>h. ASSUME NEW r \in Reqs, OpenFails(r) PROVE Asked'
  BY <1>g, <1>h DEF OpenFails, Checked
<1>i. ASSUME NEW r \in Reqs, FillFails(r) PROVE Asked'
  <2>1. /\ WriteFails(r) /\ call[r].file # "" /\ told' = told
        /\ \E cut : disk' = [disk EXCEPT ![call[r].file] = cut]
    BY <1>i DEF FillFails
  <2>2. call[r].pc \in Sections
    BY <2>1, Live
  <2>3. \A f \in Files : f = call[r].file \/ disk'[f] = disk[f]
    BY <1>t, <2>1
  <2>4. QED BY <1>g, <2>1, <2>2, <2>3
<1>j. ASSUME NEW r \in Reqs, Answer(r) PROVE Asked'
  <2>1. /\ call' = [call EXCEPT ![r] = Idle] /\ booted' = booted /\ disk' = disk
        /\ smooth' = (smooth /\ TRUE) /\ told' = (told \/ call[r].reboot)
        /\ call[r].pc = "answer"
    BY <1>j DEF Answer, Ends
  <2>2. ~Pending(Idle) /\ ~Pending(call[r])
    BY <2>1, IdleShape DEF Pending
  <2>3. call[r].file # "kargs"
    BY <2>2, WriterPending
  <2>4. ~told' => ~WillAsk(call[r])
    BY <2>1, <2>2 DEF WillAsk
  <2>5. QED BY <2>1, <2>2, <2>3, <2>4, StepAsked
<1>k. ASSUME Crash PROVE Asked'
  BY <1>k, <1>s DEF Crash
<1>l. ASSUME Reboot PROVE Asked'
  <2>1. disk'["kargs"] = booted' /\ \A r \in Reqs : call'[r] = Idle
    BY <1>l DEF Reboot, Lose
  <2>2. ~Pending(Idle)
    BY IdleShape DEF Pending
  <2>3. QED BY <2>1, <2>2 DEF Asked, Unchanged, Pending
<1>m. CASE UNCHANGED vars
  BY <1>m DEF vars, node, Asked, Unchanged, WillAsk, Pending
<1>n. QED
  BY <1>a, <1>b, <1>c, <1>d, <1>e, <1>f, <1>h, <1>i, <1>j, <1>k, <1>l, <1>m DEF Next

\* When all calls since the boot were answered without an error and the node does not run
\* with the kernel arguments on its disk, an answer has said that it must be rebooted,
\* however the calls ran into each other (machineconfig/config.go Apply,
\* result.RebootRequired; kargs.Read).
THEOREM NeededRebootTold == Spec => []RebootTold
<1>1. Init => Base /\ Asked
  BY InitBase, InitAsked
<1>2. Base /\ Asked /\ [Next]_vars => (Base /\ Asked)'
  BY NextBase, NextAsked
<1>3. Asked => RebootTold
  <2> SUFFICES ASSUME Asked, smooth, Quiet, ~told, booted # "garbled"
               PROVE  disk["kargs"] = booted
    BY DEF RebootTold
  <2>1. \A r \in Reqs : ~WillAsk(call[r]) /\ call[r].file # "kargs"
    BY IdleShape DEF Quiet, WillAsk, Pending
  <2>2. QED BY <2>1 DEF Asked, Unchanged
<1>4. QED BY <1>1, <1>2, <1>3, PTL DEF Spec

-----------------------------------------------------------------------------
(* A stream: type correctness. *)

Flags ==
    /\ kind \in [1..Lines -> Kinds] /\ follow \in BOOLEAN
    /\ gone \in BOOLEAN /\ closed \in BOOLEAN

\* The processes, and how far they have got.
Places ==
    /\ jc \in {"none", "run", "ok", "failed", "killed"}
    /\ rd \in {"start", "scan", "send", "wait", "error", "close", "done"}
    /\ hd \in {"recv", "send", "errc", "done"}
    /\ result \in {"", "success", "error", "sendError"}

Counts ==
    /\ read \in Nat /\ written \in Nat /\ hold \in Nat
    /\ read <= written /\ written <= Lines /\ written - read <= PipeCap
    /\ hold <= Lines

Queues ==
    /\ ch \in Seq(1..Lines) /\ Len(ch) <= ChanCap
    /\ err \in Seq({"error"}) /\ Len(err) <= 1
    /\ sent \in Seq(1..Lines)

\* Whoever has a line in hand has one.
InHand ==
    /\ rd = "send" => read # 0
    /\ hd = "send" \/ result = "sendError" => hold # 0

Streaming == Flags /\ Places /\ Counts /\ Queues /\ InHand

\* The bounds, as numbers.
LEMMA Bounds == Lines \in Nat /\ PipeCap \in Nat /\ ChanCap \in Nat
BY LinesAssumption, CapAssumption

\* Streaming is more than the types.
LEMMA StreamingTypes == Streaming => StreamTypeOK
<1> SUFFICES ASSUME Streaming PROVE StreamTypeOK
  OBVIOUS
<1>1. read \in 0..written /\ written \in 0..Lines /\ hold \in 0..Lines
  BY LinesAssumption DEF Streaming, Counts
<1>2. QED BY <1>1 DEF Streaming, Flags, Places, Counts, Queues, StreamTypeOK

\* A stream starts with nothing said and nothing running.
LEMMA InitStreaming == StreamInit => Streaming
<1> SUFFICES ASSUME StreamInit PROVE Streaming
  OBVIOUS
<1>1. Flags /\ Places /\ InHand
  BY DEF StreamInit, Flags, Places, InHand
<1>2. Counts
  <2>1. read = 0 /\ written = 0 /\ hold = 0
    BY DEF StreamInit
  <2>2. QED BY <2>1, Bounds DEF Counts
<1>3. Queues
  <2>1. ch = << >> /\ err = << >> /\ sent = << >>
    BY DEF StreamInit
  <2>2. QED BY <2>1, EmptySeq, Bounds DEF Queues
<1>4. QED BY <1>1, <1>2, <1>3 DEF Streaming

\* What each step keeps: the flags.
LEMMA NextFlags == Flags /\ [StreamNext]_streamVars => Flags'
BY DEF Flags, StreamNext, Reader, Leave, Write, Finish, Fail, Kill, Start, StartFails, Scan, ScanEnds,
       Put, GiveUp, Wait, Report, Close, Receive, Send, SendFails, EndOfEntries, TakeErr,
       streamVars, channels

\* The places.
LEMMA NextPlaces == Places /\ [StreamNext]_streamVars => Places'
<1> SUFFICES ASSUME Places, [StreamNext]_streamVars PROVE Places'
  OBVIOUS
<1> USE DEF Places, process, reader, handler
<1>1. CASE Leave \/ Write \/ Finish \/ Fail \/ Kill
  BY <1>1 DEF Leave, Write, Finish, Fail, Kill
<1>2. CASE Start \/ StartFails \/ ScanEnds \/ Put
  BY <1>2 DEF Start, StartFails, AfterStartFails, ScanEnds, Put
<1>3. CASE GiveUp \/ Wait \/ Report \/ Close
  BY <1>3 DEF GiveUp, Wait, Report, Close
<1>4. CASE Scan
  <2>1. AfterLine(kind[read + 1]) \in {"send", "scan", "wait"}
    BY DEF AfterLine
  <2>2. QED BY <1>4, <2>1 DEF Scan
<1>5. CASE Receive \/ Send \/ SendFails \/ EndOfEntries \/ TakeErr
  BY <1>5 DEF Receive, Send, SendFails, EndOfEntries, TakeErr
<1>6. CASE UNCHANGED streamVars
  BY <1>6 DEF streamVars
<1>7. QED BY <1>1, <1>2, <1>3, <1>4, <1>5, <1>6 DEF StreamNext, Reader

\* What the handler takes from the channel.
LEMMA Taken ==
    ASSUME Queues, ch # << >>
    PROVE  /\ Head(ch) \in 1..Lines /\ Tail(ch) \in Seq(1..Lines)
           /\ Len(Tail(ch)) <= ChanCap
<1>1. ch \in Seq(1..Lines) /\ Len(ch) <= ChanCap
  BY DEF Queues
<1>2. Head(ch) \in 1..Lines /\ Tail(ch) \in Seq(1..Lines) /\ Len(Tail(ch)) = Len(ch) - 1
  BY <1>1, HeadTailProperties
<1>3. Len(ch) \in Nat
  BY <1>1, LenProperties
<1>4. QED BY <1>1, <1>2, <1>3, Bounds

\* The counts, and the lines in hand.
LEMMA NextCounts == Streaming /\ [StreamNext]_streamVars => Counts' /\ InHand'
<1> SUFFICES ASSUME Streaming, [StreamNext]_streamVars PROVE Counts' /\ InHand'
  OBVIOUS
<1> USE LinesAssumption, CapAssumption DEF Streaming, Counts, InHand, process, reader, handler
<1>1. CASE Leave \/ Write \/ Finish \/ Fail \/ Kill
  BY <1>1 DEF Leave, Write, Finish, Fail, Kill
<1>2. CASE Start \/ StartFails \/ ScanEnds \/ Put
  BY <1>2 DEF Start, StartFails, AfterStartFails, ScanEnds, Put
<1>3. CASE GiveUp \/ Wait \/ Report \/ Close
  BY <1>3 DEF GiveUp, Wait, Report, Close
<1>4. CASE Scan
  BY <1>4 DEF Scan
<1>5. CASE Receive
  <2>1. hold' \in Nat /\ hold' # 0 /\ hold' <= Lines
    BY <1>5, Taken DEF Receive
  <2>2. QED BY <1>5, <2>1 DEF Receive
<1>6. CASE Send \/ SendFails \/ EndOfEntries \/ TakeErr
  BY <1>6 DEF Send, SendFails, EndOfEntries, TakeErr
<1>7. CASE UNCHANGED streamVars
  BY <1>7 DEF streamVars
<1>8. QED BY <1>1, <1>2, <1>3, <1>4, <1>5, <1>6, <1>7 DEF StreamNext, Reader

\* The pipe's and the channels' contents.
LEMMA NextQueues == Streaming /\ [StreamNext]_streamVars => Queues'
<1> SUFFICES ASSUME Streaming, [StreamNext]_streamVars PROVE Queues'
  OBVIOUS
<1> USE DEF Streaming
<1>1. ASSUME UNCHANGED <<channels, sent>> PROVE Queues'
  BY <1>1 DEF Queues, channels
<1>2. CASE Leave \/ Write \/ Finish \/ Fail \/ Kill
  BY <1>1, <1>2 DEF Leave, Write, Finish, Fail, Kill, handler
<1>3. CASE Start \/ StartFails \/ Scan \/ ScanEnds \/ GiveUp \/ Wait
  BY <1>1, <1>3 DEF Start, StartFails, Scan, ScanEnds, GiveUp, Wait, handler
<1>4. CASE SendFails \/ EndOfEntries \/ TakeErr
  BY <1>1, <1>4 DEF SendFails, EndOfEntries, TakeErr
<1>5. CASE Put
  <2>1. read \in 1..Lines
    BY <1>5, LinesAssumption DEF Put, Counts, InHand
  <2>2. Append(ch, read) \in Seq(1..Lines) /\ Len(Append(ch, read)) <= ChanCap
    BY <1>5, <2>1, CapAssumption DEF Put, Room, Queues
  <2>3. QED BY <1>5, <2>2 DEF Put, Queues, handler
<1>6. CASE Report
  <2>1. Append(err, "error") \in Seq({"error"}) /\ Len(Append(err, "error")) <= 1
    BY <1>6 DEF Report, ErrRoom, Queues
  <2>2. QED BY <1>6, <2>1 DEF Report, Queues, handler
<1>7. CASE Close
  BY <1>7 DEF Close, Queues, handler
<1>8. CASE Receive
  BY <1>8, Taken DEF Receive, Queues
<1>9. CASE Send
  <2>1. hold \in 1..Lines
    BY <1>9, LinesAssumption DEF Send, Counts, InHand
  <2>2. Append(sent, hold) \in Seq(1..Lines)
    BY <2>1 DEF Queues
  <2>3. QED BY <1>9, <2>2 DEF Send, Queues, channels
<1>10. CASE UNCHANGED streamVars
  BY <1>1, <1>10 DEF streamVars, handler
<1>11. QED
  BY <1>2, <1>3, <1>4, <1>5, <1>6, <1>7, <1>8, <1>9, <1>10 DEF StreamNext, Reader

\* Streaming is inductive.
LEMMA NextStreaming == Streaming /\ [StreamNext]_streamVars => Streaming'
BY NextFlags, NextPlaces, NextCounts, NextQueues DEF Streaming

\* Every state is well typed, and neither the pipe nor a channel holds more than it
\* can (reader.go).
THEOREM StreamTypes == StreamSpec => []StreamTypeOK
BY StreamingTypes, InitStreaming, NextStreaming, PTL DEF StreamSpec

-----------------------------------------------------------------------------
(* Between the pipe and the client of a stream. *)

\* The handler's line, as a sequence.
Hand == IF hd = "send" \/ result = "sendError" THEN <<hold>> ELSE << >>

Told == {Passed[i] : i \in DOMAIN Passed}

Ordered == \A i, j \in DOMAIN Passed : i < j => Passed[i] < Passed[j]

\* Told by the place of the goroutine.
Whole ==
    /\ rd = "send" => kind[read] = "entry" /\ Told = EntriesUpTo(read - 1)
    /\ rd \in {"start", "scan", "wait", "error"} => Told = EntriesUpTo(read)
    /\ rd \in {"close", "done"} =>
           Told = EntriesUpTo(read) \/ (Done /\ Told = EntriesUpTo(read - 1))

\* A result is set as the handler returns.
Returned == result # "" => hd = "done"

\* A sequence of one.
LEMMA Single == ASSUME NEW S, NEW x \in S PROVE <<x>> \in Seq(S)
OBVIOUS

\* Passed in its three parts.
LEMMA PassedParts ==
    ASSUME Streaming
    PROVE  /\ Hand \in Seq(1..Lines) /\ sent \o Hand \in Seq(1..Lines)
           /\ Passed = (sent \o Hand) \o ch /\ Passed \in Seq(1..Lines)
<1>1. sent \in Seq(1..Lines) /\ ch \in Seq(1..Lines)
  BY DEF Streaming, Queues
<1>2. Hand \in Seq(1..Lines)
  <2>1. CASE hd = "send" \/ result = "sendError"
    <3>1. hold \in 1..Lines
      BY <2>1, Bounds DEF Streaming, Counts, InHand
    <3>2. QED BY <2>1, <3>1, Single DEF Hand
  <2>2. CASE ~(hd = "send" \/ result = "sendError")
    BY <2>2, EmptySeq DEF Hand
  <2>3. QED BY <2>1, <2>2
<1>3. Passed = (sent \o Hand) \o ch
  BY DEF Passed, Hand
<1>4. QED BY <1>1, <1>2, <1>3, ConcatProperties

\* Appending to the second half is appending to the whole.
LEMMA ConcatAppend ==
    ASSUME NEW S, NEW s \in Seq(S), NEW c \in Seq(S), NEW x \in S
    PROVE  s \o Append(c, x) = Append(s \o c, x)
<1>1. <<x>> \in Seq(S)
  OBVIOUS
<1>2. s \o c \in Seq(S)
  BY ConcatProperties
<1>3. Append(c, x) = c \o <<x>> /\ Append(s \o c, x) = (s \o c) \o <<x>>
  BY <1>2, AppendIsConcat
<1>4. QED BY <1>1, <1>3, ConcatAssociative

\* Taking the head across changes nothing.
LEMMA HeadConcatTail ==
    ASSUME NEW S, NEW s \in Seq(S), NEW c \in Seq(S), c # << >>
    PROVE  (s \o <<Head(c)>>) \o Tail(c) = s \o c
<1>1. Head(c) \in S /\ Tail(c) \in Seq(S) /\ Len(Tail(c)) = Len(c) - 1
      /\ \A i \in 1..Len(Tail(c)) : Tail(c)[i] = c[i + 1]
  BY HeadTailProperties
<1>2. <<Head(c)>> \in Seq(S)
  BY <1>1
<1>3. <<Head(c)>> \o Tail(c) = c
  BY <1>1
<1>4. QED BY <1>1, <1>2, <1>3, ConcatAssociative

\* An entry the goroutine puts comes last; no other step touches what is passed.
LEMMA PassedSteps ==
    ASSUME Streaming, Returned, [StreamNext]_streamVars
    PROVE  IF Put THEN Passed' = Append(Passed, read) ELSE Passed' = Passed
<1> DEFINE S == 1..Lines
<1>1. sent \in Seq(S) /\ ch \in Seq(S) /\ Hand \in Seq(S) /\ sent \o Hand \in Seq(S)
      /\ Passed = (sent \o Hand) \o ch
  BY PassedParts DEF Streaming, Queues
<1>2. Passed' = (sent' \o Hand') \o ch'
  BY DEF Passed, Hand
<1>3. ASSUME UNCHANGED <<sent, Hand, ch>> PROVE Passed' = Passed
  BY <1>1, <1>2, <1>3
<1>4. CASE Put
  <2>1. read \in S
    BY <1>4, Bounds DEF Put, Streaming, Counts, InHand
  <2>2. sent' = sent /\ Hand' = Hand /\ ch' = Append(ch, read)
    BY <1>4 DEF Put, handler, Hand
  <2>3. QED BY <1>1, <1>2, <1>4, <2>1, <2>2, ConcatAppend
<1>5. CASE Receive
  <2>1. Hand = << >> /\ Hand' = <<Head(ch)>> /\ sent' = sent /\ ch' = Tail(ch) /\ ch # << >>
    BY <1>5 DEF Receive, Hand, Returned
  <2>2. sent \o Hand = sent
    BY <1>1, <2>1, ConcatEmptySeq
  <2>3. ~Put
    BY <1>5, <2>1, HeadTailProperties DEF Put, Receive, handler
  <2>4. QED BY <1>1, <1>2, <2>1, <2>2, <2>3, HeadConcatTail
<1>6. CASE Send
  <2>1. hold \in S /\ Hand = <<hold>> /\ Hand' = << >> /\ sent' = Append(sent, hold) /\ ch' = ch
    <3>1. hold \in S
      BY <1>6, Bounds DEF Send, Streaming, Counts, InHand
    <3>2. hd = "send" /\ hd' = "recv" /\ result = "" /\ result' = ""
      BY <1>6 DEF Send, Returned
    <3>3. Hand = <<hold>> /\ Hand' = << >>
      BY <3>2 DEF Hand
    <3>4. QED BY <1>6, <3>1, <3>3 DEF Send, channels
  <2>2. sent' = sent \o Hand /\ sent' \in Seq(S)
    BY <1>1, <2>1, AppendIsConcat, AppendProperties
  <2>3. sent' \o Hand' = sent'
    BY <2>1, <2>2, ConcatEmptySeq
  <2>4. ~Put
    BY <1>6 DEF Put, Send, handler
  <2>5. QED BY <1>1, <1>2, <2>1, <2>2, <2>3, <2>4
<1>7. CASE ~Put /\ ~Receive /\ ~Send
  <2>1. UNCHANGED <<sent, Hand, ch>>
    BY <1>7 DEF StreamNext, Reader, Leave, Write, Finish, Fail, Kill, Start, StartFails, Scan, ScanEnds,
       GiveUp, Wait, Report, Close, SendFails, EndOfEntries, TakeErr, streamVars, channels,
       handler, Hand, Returned
  <2>2. QED BY <1>3, <1>7, <2>1
<1>8. QED BY <1>4, <1>5, <1>6, <1>7

\* What a sequence holds once one more is appended.
LEMMA ToldAppend ==
    ASSUME NEW S, NEW s \in Seq(S), NEW x \in S
    PROVE  LET t == Append(s, x)
           IN  /\ {t[i] : i \in DOMAIN t} = {s[i] : i \in DOMAIN s} \cup {x}
               /\ DOMAIN t = DOMAIN s \cup {Len(s) + 1}
               /\ \A i \in DOMAIN s : t[i] = s[i] /\ i < Len(s) + 1
               /\ t[Len(s) + 1] = x
               /\ \A i \in DOMAIN s : i \in Int
<1> DEFINE t == Append(s, x)
<1>1. Len(s) \in Nat /\ DOMAIN s = 1..Len(s)
  BY LenProperties
<1>2. t \in Seq(S) /\ Len(t) = Len(s) + 1 /\ (\A i \in 1..Len(s) : t[i] = s[i]) /\ t[Len(s) + 1] = x
  BY AppendProperties
<1>3. DOMAIN t = 1..Len(t)
  BY <1>2, LenProperties
<1> HIDE DEF t
<1>4. QED BY <1>1, <1>2, <1>3 DEF t

\* A line put is later than all before it.
LEMMA NextOrdered ==
    ASSUME Streaming, Returned, Whole, Ordered, [StreamNext]_streamVars
    PROVE  Ordered'
<1>1. CASE ~Put
  BY <1>1, PassedSteps DEF Ordered
<1>2. CASE Put
  <2>1. Passed' = Append(Passed, read) /\ read \in 1..Lines /\ Passed \in Seq(1..Lines)
    BY <1>2, PassedSteps, PassedParts, Bounds DEF Put, Streaming, Counts, InHand
  <2>2. \A i \in DOMAIN Passed : Passed[i] < read
    <3>1. \A l \in EntriesUpTo(read - 1) : l < read
      BY <2>1 DEF EntriesUpTo
    <3>2. Told = EntriesUpTo(read - 1)
      BY <1>2 DEF Put, Whole
    <3>3. QED BY <3>1, <3>2 DEF Told
  <2>3. /\ DOMAIN Passed' = DOMAIN Passed \cup {Len(Passed) + 1}
        /\ \A i \in DOMAIN Passed : Passed'[i] = Passed[i] /\ i < Len(Passed) + 1
        /\ Passed'[Len(Passed) + 1] = read
        /\ \A i \in DOMAIN Passed : i \in Int
    BY <2>1, ToldAppend
  <2>4. Len(Passed) \in Nat
    BY <2>1, LenProperties
  <2>5. SUFFICES ASSUME NEW i \in DOMAIN Passed', NEW j \in DOMAIN Passed', i < j
                 PROVE  Passed'[i] < Passed'[j]
    BY DEF Ordered
  <2>6. i \in DOMAIN Passed
    BY <2>3, <2>4, <2>5
  <2>7. CASE j \in DOMAIN Passed
    BY <2>3, <2>5, <2>6, <2>7 DEF Ordered
  <2>8. CASE j = Len(Passed) + 1
    BY <2>2, <2>3, <2>6, <2>8
  <2>9. QED BY <2>3, <2>7, <2>8
<1>3. QED BY <1>1, <1>2

\* Nothing unsets a result.
LEMMA NextReturned == Returned /\ [StreamNext]_streamVars => Returned'
BY DEF Returned, StreamNext, Reader, Leave, Write, Finish, Fail, Kill, Start, StartFails, Scan, ScanEnds,
       Put, GiveUp, Wait, Report, Close, Receive, Send, SendFails, EndOfEntries, TakeErr,
       streamVars, handler

\* One line more is an entry more, or is not.
LEMMA OneMore ==
    ASSUME NEW n \in Nat
    PROVE  EntriesUpTo(n + 1) = EntriesUpTo(n) \cup {l \in {n + 1} : kind[l] = "entry"}
BY DEF EntriesUpTo

\* Told grows only where the goroutine goes from the channel back to the scanner.
LEMMA ToldSteps ==
    ASSUME Streaming, Returned, [StreamNext]_streamVars
    PROVE  /\ ~(rd = "send" /\ rd' = "scan") => Told' = Told
           /\ Put => Told' = Told \cup {read}
<1>1. ~Put => Told' = Told
  BY PassedSteps DEF Told
<1>2. Put => rd = "send" /\ rd' = "scan"
  BY DEF Put
<1>3. ASSUME Put PROVE Told' = Told \cup {read}
  <2>1. Passed' = Append(Passed, read) /\ read \in 1..Lines /\ Passed \in Seq(1..Lines)
    BY <1>3, PassedSteps, PassedParts, Bounds DEF Put, Streaming, Counts, InHand
  <2>2. {Append(Passed, read)[i] : i \in DOMAIN Append(Passed, read)}
            = {Passed[i] : i \in DOMAIN Passed} \cup {read}
    BY <2>1, ToldAppend
  <2>3. QED BY <2>1, <2>2 DEF Told
<1>4. QED BY <1>1, <1>2, <1>3

\* No entry is lost: the lines told are the entries up to the scanner's.
LEMMA NextWhole ==
    ASSUME Streaming, Returned, Whole, [StreamNext]_streamVars
    PROVE  Whole'
<1>1. ASSUME UNCHANGED <<kind, read, rd>>, Done => Done' PROVE Whole'
  <2>1. Told' = Told
    BY <1>1, ToldSteps
  <2>2. \A n : EntriesUpTo(n)' = EntriesUpTo(n)
    BY <1>1 DEF EntriesUpTo
  <2>3. QED BY <1>1, <2>1, <2>2 DEF Whole
<1>2. CASE Leave \/ Write \/ Finish \/ Fail \/ Kill
  BY <1>1, <1>2 DEF Leave, Write, Finish, Fail, Kill, reader, handler, Done
<1>3. CASE Receive \/ Send \/ SendFails \/ EndOfEntries \/ TakeErr
  BY <1>1, <1>3 DEF Receive, Send, SendFails, EndOfEntries, TakeErr, reader, Done
<1>4. CASE UNCHANGED streamVars
  BY <1>1, <1>4 DEF streamVars, reader, handler, Done
<1>5. ASSUME UNCHANGED <<kind, read>>,
             \/ rd \in {"start", "scan", "wait", "error"}
                /\ rd' \in {"scan", "wait", "error", "close", "done"}
             \/ rd = "close" /\ rd' = "done" /\ UNCHANGED <<gone, hd>>
      PROVE  Whole'
  <2>1. Told' = Told
    BY <1>5, ToldSteps
  <2>2. \A n : EntriesUpTo(n)' = EntriesUpTo(n)
    BY <1>5 DEF EntriesUpTo
  <2>3. QED BY <1>5, <2>1, <2>2 DEF Whole, Done
<1>6. CASE Start \/ StartFails \/ ScanEnds \/ Wait \/ Report \/ Close
  BY <1>5, <1>6 DEF Start, StartFails, AfterStartFails, ScanEnds, Wait, Report, Close, handler
<1>7. CASE Scan
  <2>1. read \in Nat /\ read' = read + 1 /\ kind' = kind
    BY <1>7 DEF Scan, Streaming, Counts
  <2>2. Told' = Told /\ Told = EntriesUpTo(read)
    BY <1>7, ToldSteps DEF Scan, Whole
  <2>3. \A n : EntriesUpTo(n)' = EntriesUpTo(n)
    BY <2>1 DEF EntriesUpTo
  <2>4. CASE kind[read + 1] = "entry"
    <3>1. rd' = "send"
      BY <1>7, <2>4 DEF Scan, AfterLine
    <3>2. read' - 1 = read /\ kind'[read'] = "entry"
      BY <2>1, <2>4
    <3>3. QED BY <2>2, <2>3, <3>1, <3>2 DEF Whole
  <2>5. CASE kind[read + 1] # "entry"
    <3>1. rd' \in {"scan", "wait"}
      BY <1>7, <2>5 DEF Scan, AfterLine
    <3>2. EntriesUpTo(read') = EntriesUpTo(read)
      BY <2>1, <2>5, OneMore
    <3>3. QED BY <2>2, <2>3, <3>1, <3>2 DEF Whole
  <2>6. QED BY <2>4, <2>5
<1>8. CASE Put
  <2>1. read \in Nat /\ read - 1 \in Nat /\ (read - 1) + 1 = read
    BY <1>8 DEF Put, Streaming, Counts, InHand
  <2>2. Told' = EntriesUpTo(read - 1) \cup {read} /\ kind[read] = "entry"
    BY <1>8, ToldSteps DEF Put, Whole
  <2>3. Told' = EntriesUpTo(read)
    BY <2>1, <2>2, OneMore
  <2>4. rd' = "scan" /\ read' = read /\ EntriesUpTo(read)' = EntriesUpTo(read)
    BY <1>8 DEF Put, EntriesUpTo
  <2>5. QED BY <2>3, <2>4 DEF Whole
<1>9. CASE GiveUp
  <2>1. rd = "send" /\ rd' = "close" /\ read' = read /\ kind' = kind /\ Done'
    BY <1>9 DEF GiveUp, DoneSeen, Done, handler
  <2>2. Told' = EntriesUpTo(read - 1)
    BY <2>1, ToldSteps DEF Whole
  <2>3. EntriesUpTo(read - 1)' = EntriesUpTo(read - 1)
    BY <2>1 DEF EntriesUpTo
  <2>4. QED BY <2>1, <2>2, <2>3 DEF Whole
<1>10. QED
  BY <1>2, <1>3, <1>4, <1>6, <1>7, <1>8, <1>9 DEF StreamNext, Reader

\* Nothing told, nothing lost.
LEMMA InitOrder == StreamInit => Returned /\ Whole /\ Ordered
<1> SUFFICES ASSUME StreamInit PROVE Returned /\ Whole /\ Ordered
  OBVIOUS
<1>1. Passed = << >>
  <2>1. << >> \in Seq({}) /\ << >> \o << >> = << >>
    BY EmptySeq, ConcatEmptySeq
  <2>2. Passed = (<< >> \o << >>) \o << >>
    BY DEF StreamInit, Passed
  <2>3. QED BY <2>1, <2>2
<1>2. Told = {} /\ Ordered
  BY <1>1 DEF Told, Ordered
<1>3. EntriesUpTo(0) = {}
  BY DEF EntriesUpTo
<1>4. QED BY <1>2, <1>3 DEF StreamInit, Returned, Whole

Between == Streaming /\ Returned /\ Whole /\ Ordered

\* Between is an invariant of a stream.
LEMMA BetweenInvariant == StreamSpec => []Between
<1>1. StreamInit => Between
  BY InitStreaming, InitOrder DEF Between
<1>2. Between /\ [StreamNext]_streamVars => Between'
  BY NextStreaming, NextReturned, NextWhole, NextOrdered DEF Between
<1>3. QED BY <1>1, <1>2, PTL DEF StreamSpec

\* Between journalctl's pipe and the client no entry is lost, doubled or overtaken,
\* unless the context has ended (reader.go Stream, diagnostics.go).
THEOREM OrderKept == StreamSpec => []InOrderNoLoss
<1>1. Between => InOrderNoLoss
  <2> SUFFICES ASSUME Between PROVE InOrderNoLoss
    OBVIOUS
  <2>1. rd \in {"start", "scan", "send", "wait", "error", "close", "done"}
    BY DEF Between, Streaming, Places
  <2>2. Told = EntriesUpTo(read) \/ ((rd = "send" \/ Done) /\ Told = EntriesUpTo(read - 1))
    BY <2>1 DEF Between, Whole
  <2>3. QED BY <2>2 DEF Between, Ordered, Told, InOrderNoLoss
<1>2. QED BY <1>1, BetweenInvariant, PTL

-----------------------------------------------------------------------------
(* A stream that ends with success. *)

NoLong == \A l \in 1..Lines : kind[l] # "long"

\* What each stage has behind it, as long as the client is there.
Ending ==
    /\ rd = "start" => jc = "none"
    /\ rd \in {"scan", "send", "wait"} => jc # "none"
    /\ jc = "ok" => written = Lines
    /\ rd = "wait" /\ NoLong => Exited /\ read = written
    /\ rd \in {"close", "done"} /\ err = << >> /\ ~Done =>
           jc = "ok" /\ (NoLong => read = Lines)
    /\ closed => rd = "done"
    /\ hd = "errc" => closed /\ ch = << >>
    /\ result = "success" /\ ~gone =>
           jc = "ok" /\ (NoLong => {sent[i] : i \in DOMAIN sent} = EntriesUpTo(Lines))

\* No stage has anything behind it.
LEMMA InitEnding == StreamInit => Ending
BY DEF StreamInit, Ending

\* A handler that waits for the error has sent what it was told.
LEMMA AllSent ==
    ASSUME Between, Ending, hd = "errc"
    PROVE  {sent[i] : i \in DOMAIN sent} = Told /\ rd = "done" /\ result = ""
<1>1. ch = << >> /\ rd = "done" /\ result = ""
  BY DEF Ending, Between, Returned
<1>2. Hand = << >>
  BY <1>1 DEF Hand
<1>3. sent \in Seq(1..Lines) /\ Passed = (sent \o << >>) \o << >>
  BY <1>1, <1>2, PassedParts DEF Between, Streaming, Queues
<1>4. Passed = sent
  BY <1>3, ConcatEmptySeq
<1>5. QED BY <1>1, <1>4 DEF Told

\* What each stage has behind it is kept by every step.
LEMMA NextEnding == Between /\ Ending /\ [StreamNext]_streamVars => Ending'
<1> SUFFICES ASSUME Between, Ending, [StreamNext]_streamVars PROVE Ending'
  OBVIOUS
<1> USE DEF Ending, Exited, NoLong, Done
<1>1. CASE Leave
  BY <1>1 DEF Leave, process, reader, channels, handler, EntriesUpTo
<1>2. CASE Write
  BY <1>2 DEF Write, Between, Streaming, Counts, reader, channels, handler, EntriesUpTo
<1>3. CASE Finish \/ Fail \/ Kill
  BY <1>3 DEF Finish, Fail, Kill, reader, channels, handler, EntriesUpTo
<1>4. CASE Start \/ StartFails
  BY <1>4 DEF Start, StartFails, AfterStartFails, process, channels, handler, EntriesUpTo
<1>5. CASE Scan
  <2>1. read + 1 \in 1..Lines /\ kind' = kind
    BY <1>5, Bounds DEF Scan, Between, Streaming, Counts
  <2>2. rd' = "wait" => ~NoLong
    BY <1>5, <2>1 DEF Scan, AfterLine, Between, Streaming, Flags, Kinds
  <2>3. rd' \in {"scan", "send", "wait"}
    BY <1>5 DEF Scan, AfterLine
  <2>4. QED
    BY <1>5, <2>2, <2>3 DEF Scan, process, channels, handler, EntriesUpTo
<1>6. CASE ScanEnds
  BY <1>6 DEF ScanEnds, process, channels, handler, EntriesUpTo
<1>7. CASE Put
  BY <1>7 DEF Put, process, handler, EntriesUpTo
<1>8. CASE GiveUp
  BY <1>8 DEF GiveUp, DoneSeen, process, channels, handler, EntriesUpTo
<1>9. CASE Wait
  BY <1>9 DEF Wait, process, channels, handler, EntriesUpTo
<1>10. CASE Report
  <2>1. err' # << >>
    BY <1>10, AppendProperties DEF Report, Between, Streaming, Queues
  <2>2. QED BY <1>10, <2>1 DEF Report, process, handler, EntriesUpTo
<1>11. CASE Close
  BY <1>11 DEF Close, process, handler, EntriesUpTo
<1>12. CASE Receive
  BY <1>12 DEF Receive, Between, Returned, process, reader, EntriesUpTo
<1>13. CASE Send
  BY <1>13 DEF Send, Between, Returned, process, reader, channels, EntriesUpTo
<1>14. CASE SendFails \/ EndOfEntries
  <2>1. CASE SendFails
    BY <2>1 DEF SendFails, process, reader, channels
  <2>2. CASE EndOfEntries
    <3>1. result = ""
      BY <2>2 DEF EndOfEntries, Between, Returned
    <3>2. QED BY <2>2, <3>1 DEF EndOfEntries, process, reader, channels
  <2>3. QED BY <1>14, <2>1, <2>2
<1>15. CASE TakeErr
  <2>1. rd = "done" /\ {sent[i] : i \in DOMAIN sent} = Told
    BY <1>15, AllSent DEF TakeErr
  <2>2. ASSUME result' = "success", ~gone'
        PROVE  jc = "ok" /\ (NoLong => {sent[i] : i \in DOMAIN sent} = EntriesUpTo(Lines))
    <3>1. err = << >> /\ ~Done
      BY <1>15, <2>2 DEF TakeErr
    <3>2. Told = EntriesUpTo(read)
      BY <2>1, <3>1 DEF Between, Whole
    <3>3. QED BY <2>1, <3>1, <3>2
  <2>3. QED
    BY <1>15, <2>1, <2>2 DEF TakeErr, process, reader, channels, EntriesUpTo
<1>16. CASE UNCHANGED streamVars
  BY <1>16 DEF streamVars, process, reader, channels, handler, EntriesUpTo
<1>17. QED
  BY <1>1, <1>2, <1>3, <1>4, <1>5, <1>6, <1>7, <1>8, <1>9, <1>10, <1>11, <1>12, <1>13,
     <1>14, <1>15, <1>16
  DEF StreamNext, Reader

\* A stream that ends with success for a client still there is a whole one, unless a
\* line was longer than the scanner's buffer (reader.go Stream, diagnostics.go).
THEOREM SuccessWhole == StreamSpec => []SuccessIsWhole
<1>1. Ending => SuccessIsWhole
  BY DEF Ending, NoLong, SuccessIsWhole
<1>2. QED BY <1>1, BetweenInvariant, InitEnding, NextEnding, PTL DEF StreamSpec

=============================================================================
