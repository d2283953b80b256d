---------------------------- MODULE JournalStream ----------------------------
(***************************************************************************)
(* One Logs or Dmesg stream: the Stream of                                 *)
(* internal/system/journal/reader.go, the handler LogsStream or            *)
(* DmesgStream of internal/api/v1alpha1/diagnostics.go that empties its    *)
(* channels, and the journalctl they run.                                  *)
(*                                                                         *)
(* Three processes share a pipe of the kernel, two Go channels and the     *)
(* context of the RPC, which is done when the client is gone or the        *)
(* handler has returned.  A line is its number; what it says is its kind.  *)
(***************************************************************************)
EXTENDS Integers, Sequences

CONSTANTS
    Lines,      \* bound: lines journalctl has to tell
    PipeCap,    \* lines the pipe holds
    ChanCap     \* the capacity of entries: 64 in the code

Kinds ==
    { "entry",  \* a journal entry
      "junk",   \* not JSON
      "long" }  \* longer than the scanner's buffer

ASSUME LinesAssumption == Lines \in Nat
ASSUME CapAssumption == PipeCap \in Nat \ {0} /\ ChanCap \in Nat \ {0}

VARIABLES
    kind,       \* what each line is
    follow,     \* the request's Follow
    jc,         \* journalctl
    written,    \* lines it has written
    read,       \* lines the scanner has taken from the pipe
    rd,         \* the goroutine of Stream
    ch,         \* the channel entries
    err,        \* the channel errc
    closed,     \* both are closed
    hd,         \* the handler
    sent,       \* the lines sent to the client
    hold,       \* the line it has in hand
    gone,       \* the client is gone, or its deadline has passed
    result      \* what the handler returned

process == <<jc, written>>
reader == <<read, rd>>
channels == <<ch, err, closed>>
handler == <<hd, sent, hold, result>>
streamVars == <<kind, follow, process, reader, channels, handler, gone>>

StreamTypeOK ==
    /\ kind \in [1..Lines -> Kinds] /\ follow \in BOOLEAN
    /\ jc \in {"none", "run", "ok", "failed", "killed"}
    /\ read \in 0..written /\ written \in 0..Lines /\ written - read <= PipeCap
    /\ rd \in {"start", "scan", "send", "wait", "error", "close", "done"}
    /\ ch \in Seq(1..Lines) /\ Len(ch) <= ChanCap
    /\ err \in Seq({"error"}) /\ Len(err) <= 1
    /\ closed \in BOOLEAN
    /\ hd \in {"recv", "send", "errc", "done"}
    /\ sent \in Seq(1..Lines) /\ hold \in 0..Lines
    /\ gone \in BOOLEAN
    /\ result \in {"", "success", "error", "sendError"}

-----------------------------------------------------------------------------
StreamInit ==
    /\ kind \in [1..Lines -> Kinds]
    /\ follow \in BOOLEAN
    /\ jc = "none" /\ written = 0
    /\ read = 0 /\ rd = "start"
    /\ ch = <<>> /\ err = <<>> /\ closed = FALSE
    /\ hd = "recv" /\ sent = <<>> /\ hold = 0 /\ result = ""
    /\ gone = FALSE

\* ctx.Done of the stream's context.
Done == gone \/ hd = "done"

Leave ==
    /\ ~gone
    /\ hd # "done"
    /\ gone' = TRUE
    /\ UNCHANGED <<kind, follow, process, reader, channels, handler>>

-----------------------------------------------------------------------------
(* journalctl. *)

\* It blocks while the pipe is full.
Write ==
    /\ jc = "run"
    /\ written < Lines
    /\ written - read < PipeCap
    /\ written' = written + 1
    /\ UNCHANGED <<kind, follow, jc, reader, channels, handler, gone>>

\* Without --follow it ends when it has told everything.
Finish ==
    /\ jc = "run"
    /\ ~follow
    /\ written = Lines
    /\ jc' = "ok"
    /\ UNCHANGED <<kind, follow, written, reader, channels, handler, gone>>

Fail ==
    /\ jc = "run"
    /\ jc' = "failed"
    /\ UNCHANGED <<kind, follow, written, reader, channels, handler, gone>>

\* CommandContext kills it once the context is done, whatever the reader does.
Kill ==
    /\ jc = "run"
    /\ Done
    /\ jc' = "killed"
    /\ UNCHANGED <<kind, follow, written, reader, channels, handler, gone>>

Exited == jc \in {"ok", "failed", "killed"}

-----------------------------------------------------------------------------
(* The goroutine of Stream. *)

\* cmd.Start looks at the context first.
Start ==
    /\ rd = "start"
    /\ ~Done
    /\ jc' = "run"
    /\ rd' = "scan"
    /\ UNCHANGED <<kind, follow, written, read, channels, handler, gone>>

\* A bug to catch: a journalctl that cannot be started is not reported.
AfterStartFails_Silent == "close"

AfterStartFails == "error"

StartFails ==
    /\ rd = "start"
    /\ rd' = AfterStartFails
    /\ UNCHANGED <<kind, follow, process, read, channels, handler, gone>>

\* A line that is not JSON is passed over; for a long one Scan returns FALSE as
\* at the end, and nobody asks scanner.Err.
AfterLine(k) ==
    CASE k = "entry" -> "send"
      [] k = "junk" -> "scan"
      [] OTHER -> "wait"

Scan ==
    /\ rd = "scan"
    /\ read < written
    /\ read' = read + 1
    /\ rd' = AfterLine(kind[read + 1])
    /\ UNCHANGED <<kind, follow, process, channels, handler, gone>>

\* The end of the pipe comes when journalctl is gone and what it wrote was read.
ScanEnds ==
    /\ rd = "scan"
    /\ read = written
    /\ Exited
    /\ rd' = "wait"
    /\ UNCHANGED <<kind, follow, process, read, channels, handler, gone>>

\* The first case of the select.
Room == Len(ch) < ChanCap

Put ==
    /\ rd = "send"
    /\ Room
    /\ ch' = Append(ch, read)
    /\ rd' = "scan"
    /\ UNCHANGED <<kind, follow, process, read, err, closed, handler, gone>>

\* A bug to catch: the select has a default case for a channel that is full.
DoneSeen_Default == Done \/ ~Room

\* A bug to catch: the select has no case for the context.
DoneSeen_Never == FALSE

\* The second one.
DoneSeen == Done

\* The goroutine leaves without cmd.Wait.
GiveUp ==
    /\ rd = "send"
    /\ DoneSeen
    /\ rd' = "close"
    /\ UNCHANGED <<kind, follow, process, read, channels, handler, gone>>

\* cmd.Wait, also after a long line while journalctl still writes: it returns when
\* journalctl is gone.
Wait ==
    /\ rd = "wait"
    /\ Exited
    /\ rd' = IF jc # "ok" /\ ~Done THEN "error" ELSE "close"
    /\ UNCHANGED <<kind, follow, process, read, channels, handler, gone>>

\* A bug to catch: errc has no buffer, and the handler is still at entries.
ErrRoom_Unbuffered == hd = "errc"

ErrRoom == Len(err) < 1

Report ==
    /\ rd = "error"
    /\ ErrRoom
    /\ err' = Append(err, "error")
    /\ rd' = "close"
    /\ UNCHANGED <<kind, follow, process, read, ch, closed, handler, gone>>

\* The deferred calls close errc, and then entries.
Close ==
    /\ rd = "close"
    /\ closed' = TRUE
    /\ rd' = "done"
    /\ UNCHANGED <<kind, follow, process, read, ch, err, handler, gone>>

Reader ==
    \/ Start \/ StartFails \/ Scan \/ ScanEnds \/ Put \/ GiveUp
    \/ Wait \/ Report \/ Close

-----------------------------------------------------------------------------
(* The handler. *)

Receive ==
    /\ hd = "recv"
    /\ ch # <<>>
    /\ hold' = Head(ch) /\ ch' = Tail(ch)
    /\ hd' = "send"
    /\ UNCHANGED <<kind, follow, process, reader, err, closed, sent, result, gone>>

\* send, which may wait for the client to read.
Send ==
    /\ hd = "send"
    /\ sent' = Append(sent, hold)
    /\ hd' = "recv"
    /\ UNCHANGED <<kind, follow, process, reader, channels, hold, result, gone>>

SendFails ==
    /\ hd = "send"
    /\ gone
    /\ result' = "sendError"
    /\ hd' = "done"
    /\ UNCHANGED <<kind, follow, process, reader, channels, sent, hold, gone>>

\* The range over entries ends when it is closed and empty.
EndOfEntries ==
    /\ hd = "recv"
    /\ ch = <<>> /\ closed
    /\ hd' = "errc"
    /\ UNCHANGED <<kind, follow, process, reader, channels, sent, hold, result, gone>>

\* A closed errc yields the error in its buffer, or nil.
TakeErr ==
    /\ hd = "errc"
    /\ result' = IF err # <<>> THEN "error" ELSE "success"
    /\ hd' = "done"
    /\ UNCHANGED <<kind, follow, process, reader, channels, sent, hold, gone>>

StreamNext ==
    \/ Leave
    \/ Write \/ Finish \/ Fail \/ Kill
    \/ Reader
    \/ Receive \/ Send \/ SendFails \/ EndOfEntries \/ TakeErr

StreamSpec == StreamInit /\ [][StreamNext]_streamVars

\* The goroutines keep running, and a kill is carried out.  Nothing makes a client
\* read, or journalctl write or end: send comes back for sure only when the client
\* is gone.
FairSpec ==
    /\ StreamSpec
    /\ WF_streamVars(Reader) /\ WF_streamVars(Kill)
    /\ WF_streamVars(Receive \/ EndOfEntries \/ TakeErr)
    /\ WF_streamVars(gone /\ (Send \/ SendFails))

-----------------------------------------------------------------------------
(* Properties. *)

\* What has been sent, is in the handler's hand, or waits in the channel.
Passed ==
    sent \o (IF hd = "send" \/ result = "sendError" THEN <<hold>> ELSE <<>>) \o ch

EntriesUpTo(n) == {l \in 1..n : kind[l] = "entry"}

\* Between journalctl's pipe and the client no entry is lost, doubled or
\* overtaken, however slow the client is: only an entry met after the end of the
\* context may be left out.
InOrderNoLoss ==
    /\ \A i, j \in DOMAIN Passed : i < j => Passed[i] < Passed[j]
    /\ LET lines == {Passed[i] : i \in DOMAIN Passed}
       IN  \/ lines = EntriesUpTo(read)
           \/ (rd = "send" \/ Done) /\ lines = EntriesUpTo(read - 1)

\* A stream that ends with success for a client still there is a whole one:
\* journalctl has ended well, and each of its entries was sent, unless a line was
\* longer than the scanner's buffer.
SuccessIsWhole ==
    result = "success" /\ ~gone =>
        /\ jc = "ok"
        /\ (\A l \in 1..Lines : kind[l] # "long") =>
               {sent[i] : i \in DOMAIN sent} = EntriesUpTo(Lines)

\* When the client is gone nothing is left running: not the handler, not the
\* goroutine it may have left at a full channel, and not journalctl at a full pipe.
LeavingEndsAll == gone ~> hd = "done" /\ rd = "done" /\ jc # "run"

\* When journalctl has ended, or could not be started, the handler returns, or
\* waits for a client that does not read.
EndsWithJournalctl == Exited \/ rd = "error" ~> hd = "done" \/ [](hd = "send")
=============================================================================
