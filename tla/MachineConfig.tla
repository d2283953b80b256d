--------------------------- MODULE MachineConfig ---------------------------
(***************************************************************************)
(* ApplyConfig: internal/machineconfig/config.go with the managers it      *)
(* writes through, internal/system/network and internal/system/kargs.      *)
(*                                                                         *)
(* Apply goes through the sections of a configuration in a fixed order; it *)
(* checks a section and writes its files before it looks at the next one.  *)
(* Nothing keeps two calls apart, and a file is written in place: opened   *)
(* with O_TRUNC, then filled.                                              *)
(***************************************************************************)
EXTENDS Integers

CONSTANTS
    Reqs,       \* calls of ApplyConfig that may run at a time
    Ifaces,     \* names of network interfaces
    Values,     \* what a file may be made to say
    Escaped,    \* kernel arguments among them that %q writes with escapes
    Configs,    \* the configurations sent
    Faults      \* what may go wrong, a subset of FaultKinds

FaultKinds ==
    { "read",       \* the old kernel arguments cannot be read
      "write",      \* a file cannot be opened, or not be written whole
      "crash" }     \* the agent stops anywhere

\* The files, by section; the network has one for each interface.
Files == {"hostname", "kargs", "dns"} \cup Ifaces

\* What a configuration says of a file: nothing, something that is not valid,
\* or a value.
Configurations == [Files -> {"none", "bad"} \cup Values]

ASSUME ReqsAssumption == "" \notin Reqs
ASSUME IfacesAssumption == {"hostname", "kargs", "dns", ""} \cap Ifaces = {}
ASSUME ValuesAssumption ==
    {"none", "bad", "absent", "empty", "garbled", "other"} \cap Values = {}
ASSUME EscapedAssumption == Escaped \subseteq Values
ASSUME ConfigsAssumption == Configs \subseteq Configurations
ASSUME FaultsAssumption == Faults \subseteq FaultKinds

VARIABLES
    disk,       \* the files
    booted,     \* the file of kernel arguments the node was booted with
    told,       \* an answer since then has said that a reboot is required
    smooth,     \* no call since then has ended but with an answer
    call,       \* the calls, see Call
    solo,       \* the call that runs and has done so alone, or ""
    touched,    \* the files it has opened to write them
    outcome     \* how it ended, until another arrives

node == <<disk, booted, told, smooth>>
ghost == <<solo, touched, outcome>>
vars == <<node, call, ghost>>

NoConfig == [f \in Files |-> "none"]
Contents == Values \cup {"absent", "empty", "garbled"}

\* The order of Apply; "args" is where the kernel arguments are checked and the
\* old ones read, "kargs" where the new ones are written.
Order == <<"hostname", "network", "args", "kargs", "dns", "answer">>
Sections == {Order[n] : n \in 1 .. 5}

Call ==
    [ cfg : Configs \cup {NoConfig},
      pc : Sections \cup {"idle", "answer"},
      todo : SUBSET Files,                  \* the files of the section yet to be written
      file : Files \cup {""},               \* the one that is open
      existing : Values \cup {"none", "other"},    \* the kernel arguments it has read
      reboot : BOOLEAN,                     \* result.RebootRequired
      warned : BOOLEAN ]                    \* result.Warnings tells of the DNS section

Idle == [ cfg |-> NoConfig, pc |-> "idle", todo |-> {}, file |-> "",
          existing |-> "none", reboot |-> FALSE, warned |-> FALSE ]

Outcome == [how : {"applied", "rejected", "error"}, cfg : Configs, warned : BOOLEAN]
NoOutcome == [how |-> "", cfg |-> NoConfig, warned |-> FALSE]

TypeOK ==
    /\ disk \in [Files -> Contents]
    /\ booted \in Contents
    /\ told \in BOOLEAN /\ smooth \in BOOLEAN
    /\ call \in [Reqs -> Call]
    /\ solo \in Reqs \cup {""} /\ touched \subseteq Files
    /\ outcome \in Outcome \cup {NoOutcome}

-----------------------------------------------------------------------------
FilesOf(section) ==
    CASE section = "network" -> Ifaces
      [] section \in {"args", "kargs"} -> {"kargs"}
      [] section \in {"hostname", "dns"} -> {section}
      [] OTHER -> {}

\* The files of a section that the configuration c speaks of.
Named(c, section) == {f \in FilesOf(section) : c[f] # "none"}

\* The call c has come to a section with something wrong in it.
Bad(c) == {f \in Named(c.cfg, c.pc) : c.cfg[f] = "bad"}

\* A bug to catch: an entry is checked when its file is written.
Invalid_Late(c) == Bad(c) # {} /\ c.todo \subseteq Bad(c)

\* Apply refuses the section: it checks all of it before it writes a file.
Invalid(c) == Bad(c) # {}

Init ==
    /\ disk = [f \in Files |-> "absent"]
    /\ booted = "absent" /\ told = FALSE /\ smooth = TRUE
    /\ call = [r \in Reqs |-> Idle]
    /\ solo = "" /\ touched = {} /\ outcome = NoOutcome

Quiet == \A r \in Reqs : call[r] = Idle

Arrive(r, c) ==
    /\ call[r] = Idle
    /\ call' = [call EXCEPT ![r].cfg = c, ![r].pc = "hostname", ![r].todo = Named(c, "hostname")]
    /\ solo' = IF Quiet THEN r ELSE ""
    /\ touched' = {} /\ outcome' = NoOutcome
    /\ UNCHANGED node

\* The call c when it goes on to the next section.
Onward(c) ==
    LET next == Order[(CHOOSE n \in 1 .. 5 : Order[n] = c.pc) + 1]
    IN  [c EXCEPT !.pc = next, !.todo = Named(c.cfg, next)]

\* The call ends.
Ends(r, how) ==
    /\ call' = [call EXCEPT ![r] = Idle]
    /\ smooth' = (smooth /\ how = "applied")
    /\ solo' = ""
    /\ outcome' = IF solo = r THEN [how |-> how, cfg |-> call[r].cfg, warned |-> call[r].warned]
                  ELSE NoOutcome
    /\ UNCHANGED <<booted, touched>>

-----------------------------------------------------------------------------
Reject(r) ==
    /\ Invalid(call[r])
    /\ Ends(r, "rejected")
    /\ UNCHANGED <<disk, told>>

\* The section is valid, and no file of it is open.
Checked(c) == c.pc \in Sections /\ c.file = "" /\ ~Invalid(c)

\* A bug to catch: a file that is not there is not told from one without arguments.
Parsed_Unchecked(content) == {content}

\* What parseTOML makes of a file: escapes are not undone, and of one that two
\* calls wrote into each other, or that was cut off, it may make anything.
Parsed(content) ==
    CASE content \in {"absent", "empty"} -> {"none"}
      [] content = "garbled" -> Values \cup {"none", "other"}
      [] content \in Escaped -> {"other"}
      [] OTHER -> {content}

\* kargs.Read, before the arguments are written; its error is dropped.
ReadKargs(r) ==
    /\ Checked(call[r])
    /\ call[r].pc = "args" /\ call[r].todo # {}
    /\ \E v \in Parsed(disk["kargs"]) \cup {u \in {"none"} : "read" \in Faults} :
          call' = [call EXCEPT ![r] = Onward([@ EXCEPT !.existing = v])]
    /\ UNCHANGED <<node, ghost>>

\* A bug to catch: arguments that read back as they should are not written.
Writes_IfChanged(c) ==
    IF c.pc = "args" THEN {} ELSE {f \in c.todo : f = "kargs" => c.existing # c.cfg[f]}

\* The files a call may write next; the interfaces come in the order of the request.
Writes(c) == IF c.pc = "args" THEN {} ELSE c.todo

\* The section has nothing to write, or no more.
Pass(r) ==
    /\ Checked(call[r])
    /\ Writes(call[r]) = {} /\ (call[r].pc = "args" => call[r].todo = {})
    /\ call' = [call EXCEPT ![r] = Onward(@)]
    /\ UNCHANGED <<node, ghost>>

\* os.WriteFile opens the file, and cuts it off.
Open(r, f) ==
    /\ Checked(call[r])
    /\ f \in Writes(call[r]) /\ call[r].cfg[f] \in Values
    /\ call' = [call EXCEPT ![r].file = f]
    /\ disk' = [disk EXCEPT ![f] = "empty"]
    /\ touched' = IF solo = r THEN touched \cup {f} ELSE touched
    /\ UNCHANGED <<booted, told, smooth, solo, outcome>>

\* A bug to catch: the first arguments a node is given need no reboot.
Differs_NotFirst(c) == c.existing \notin {"none", c.cfg["kargs"]}

\* stringSliceEqual says no.
Differs(c) == c.existing # c.cfg["kargs"]

\* It writes from the start of the file: over what another call has put there
\* since, of which a longer rest stays.
Fill(r) ==
    LET c == call[r]  f == c.file  v == c.cfg[f] IN
    /\ f # ""
    /\ \/ disk' = [disk EXCEPT ![f] = v]
       \/ disk[f] \notin {"empty", v} /\ disk' = [disk EXCEPT ![f] = "garbled"]
    /\ call' = [call EXCEPT ![r].file = "", ![r].todo = @ \ {f}, ![r].existing = "none",
                            ![r].reboot = IF f = "kargs" THEN Differs(c) ELSE @]
    /\ UNCHANGED <<booted, told, smooth, ghost>>

\* An error of WriteFile is a warning in the DNS section, and ends Apply in the others.
WriteFails(r) ==
    IF call[r].pc = "dns"
    THEN /\ call' = [call EXCEPT ![r] = Onward([@ EXCEPT !.warned = TRUE, !.file = ""])]
         /\ UNCHANGED <<booted, smooth, ghost>>
    ELSE Ends(r, "error")

\* The file, or the directory it belongs in, cannot be had.
OpenFails(r) ==
    /\ "write" \in Faults
    /\ Checked(call[r])
    /\ Writes(call[r]) # {}
    /\ WriteFails(r)
    /\ UNCHANGED <<disk, told>>

FillFails(r) ==
    /\ "write" \in Faults
    /\ call[r].file # ""
    /\ \E cut \in {disk[call[r].file], "garbled"} : disk' = [disk EXCEPT ![call[r].file] = cut]
    /\ WriteFails(r)
    /\ UNCHANGED told

\* ApplyConfig answers with the result.
Answer(r) ==
    /\ call[r].pc = "answer"
    /\ Ends(r, "applied")
    /\ told' = (told \/ call[r].reboot)
    /\ UNCHANGED disk

-----------------------------------------------------------------------------
\* The calls that run are lost with the agent.
Lose ==
    /\ call' = [r \in Reqs |-> Idle]
    /\ solo' = "" /\ touched' = {} /\ outcome' = NoOutcome
    /\ UNCHANGED disk

\* The agent is killed and started again; the node goes on.
Crash ==
    /\ "crash" \in Faults
    /\ ~Quiet
    /\ Lose
    /\ smooth' = FALSE
    /\ UNCHANGED <<booted, told>>

\* The node is rebooted and takes up the kernel arguments on the disk.
Reboot ==
    /\ Lose
    /\ booted' = disk["kargs"] /\ told' = FALSE /\ smooth' = TRUE

Next ==
    \/ \E r \in Reqs :
        \/ \E c \in Configs : Arrive(r, c)
        \/ Reject(r) \/ ReadKargs(r) \/ Pass(r)
        \/ \E f \in Files : Open(r, f)
        \/ Fill(r) \/ OpenFails(r) \/ FillFails(r)
        \/ Answer(r)
    \/ Crash \/ Reboot

Spec == Init /\ [][Next]_vars

-----------------------------------------------------------------------------
(***************************************************************************)
(* What is checked.                                                        *)
(***************************************************************************)

\* Whatever earlier calls, failed writes and crashes left in the files, a call
\* that ran alone and was answered without an error has put there all that its
\* configuration says, the name servers excepted if it warned of them.
AppliedIsThere ==
    outcome.how = "applied" =>
        \A f \in Files :
            outcome.cfg[f] \in {"none", disk[f]} \/ (f = "dns" /\ outcome.warned)

\* A call that ran alone and was rejected for a section has applied all of the
\* sections before it and touched nothing of it or of those after: what an operator
\* has to undo can be told from the error.
RejectedPrefix ==
    outcome.how = "rejected" =>
        \E n \in 1 .. 5 :
            LET applied == UNION {Named(outcome.cfg, Order[m]) : m \in 1 .. n - 1} IN
            /\ \E f \in FilesOf(Order[n]) : outcome.cfg[f] = "bad"
            /\ touched = applied
            /\ \A f \in applied : disk[f] = outcome.cfg[f]

\* When all calls since the node was booted were answered without an error, however
\* they ran into each other, and the node is not running with the kernel arguments on
\* its disk, some answer has said that it must be rebooted. A node that booted with a
\* file two calls wrote into each other, or cut off, is left out: the reader may take
\* it for the arguments it was to hold.
RebootTold ==
    smooth /\ Quiet => told \/ disk["kargs"] = booted \/ booted = "garbled"

\* Violated. config_test.go asks that "changed kernel args should require reboot". A
\* call rejected for its name servers has written its kernel arguments by then, with
\* no answer that says so; the call that repeats it finds them there and says that
\* no reboot is required, while the node runs with the old ones.
ChangedArgsTold ==
    outcome.how = "applied" /\ outcome.cfg["kargs"] # "none" =>
        told \/ disk["kargs"] = booted
=============================================================================
