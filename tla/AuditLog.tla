------------------------------ MODULE AuditLog ------------------------------
(***************************************************************************)
(* The agent's audit log: FileLogger of internal/audit/audit.go and the    *)
(* verifier of internal/audit/verify.go.                                   *)
(*                                                                         *)
(* A logger appends one JSON line per event to audit.log, chains the lines *)
(* with an HMAC over the previous line's hash, and shifts audit.log to     *)
(* audit.log.1 .. audit.log.Keep when it is full.  Log holds the logger's  *)
(* mutex from its first to its last line, so one call is in flight at a    *)
(* time; it is cut into steps because the process, or the machine, can     *)
(* stop between any two of its file operations.                            *)
(*                                                                         *)
(* Data.  An event is its number in the order of the calls of Log, and its *)
(* hash is that number too: HMAC values do not collide, and 0 stands for   *)
(* "genesis".  A file is the sequence of the chunks Write has left in it.  *)
(* A chunk is a whole line ("line"), a whole event whose newline is        *)
(* missing ("bare"), or the beginning of one ("torn").                     *)
(***************************************************************************)
EXTENDS Integers, Sequences, FiniteSets, SequencesExt

CONSTANTS
    Keep,       \* rotated files kept: 5 in the code
    MaxSize,    \* size at which audit.log is rotated, 0: never
    Window,     \* how much of audit.log a restart reads: 8KB in the code
    Sizes,      \* the sizes a line may have
    MaxAge,     \* TRUE: rotated files are also removed by age
    Faults,     \* what may go wrong, a subset of FaultKinds
    MaxEvents,  \* bound: calls of Log
    MaxBoots    \* bound: starts of the process

FaultKinds ==
    { "crash",     \* the process stops anywhere
      "power",     \* so does the machine; what Write left in audit.log is not synced
      "write",     \* a Write fails and leaves nothing
      "torn",      \* a Write that fails, or that a crash cuts, leaves a part
      "dir",       \* a rename or a remove fails
      "reopen",    \* audit.log cannot be opened after a rotation
      "keyread",   \* the key file exists and cannot be read
      "keywrite" } \* writing a new key file fails, leaving it short

ASSUME KeepAssumption == Keep \in Nat \ {0}
ASSUME MaxSizeAssumption == MaxSize \in Nat
ASSUME WindowAssumption == Window \in Nat
ASSUME SizesAssumption == Sizes \subseteq Nat \ {0}
ASSUME MaxAgeAssumption == MaxAge \in BOOLEAN
ASSUME FaultsAssumption == Faults \subseteq FaultKinds
ASSUME BoundsAssumption == MaxEvents \in Nat /\ MaxBoots \in Nat

VARIABLES
    log,        \* the files: 0 is audit.log, i > 0 is audit.log.i; <<>>: absent or empty
    keyFile,    \* hmac.key: the start that generated it, 0: missing or not 32 bytes
    pc,         \* where the process is
    open,       \* l.file is a usable handle on audit.log
    prev,       \* l.prevHash
    key,        \* l.hmacKey: a start number, 0: cleared
    cur,        \* the event of the call in flight
    ri,         \* the file the rotation is at
    n,          \* events stamped so far
    boot        \* starts so far

vars == <<log, keyFile, pc, open, prev, key, cur, ri, n, boot>>

Files == 0..Keep

Chunk == [id : Nat \ {0}, prev : Nat, key : Nat, boot : Nat,
          size : Nat \ {0}, form : {"line", "bare", "torn"}]

NoEvent == [id |-> 0]

TypeOK ==
    /\ log \in [Files -> Seq(Chunk)]
    /\ keyFile \in Nat
    /\ pc \in {"down", "idle", "rename", "expire", "reopen", "write"}
    /\ open \in BOOLEAN
    /\ prev \in Nat
    /\ key \in Nat
    /\ cur \in Chunk \cup {NoEvent}
    /\ ri \in 0..Keep
    /\ n \in Nat
    /\ boot \in Nat

-----------------------------------------------------------------------------
(* Reading a file back. *)

Size(f) ==
    LET upTo[k \in 0..Len(f)] == IF k = 0 THEN 0 ELSE upTo[k - 1] + f[k].size
    IN  upTo[Len(f)]

\* Where the lines of f begin: after a newline.
StartsLine(f, k) == k = 1 \/ f[k - 1].form = "line"

\* Chunk k of f is a line of its own that parses as an event.
Readable(f, k) ==
    /\ StartsLine(f, k)
    /\ f[k].form = "line" \/ (f[k].form = "bare" /\ k = Len(f))

\* A bug to catch: every start begins a chain of its own.
ReadLastHash_Genesis(f) == 0

\* readLastHash: the last event among the lines whole within the window.
ReadLastHash(f) ==
    LET seen == {k \in 1..Len(f) : /\ Size(SubSeq(f, k, Len(f))) <= Window
                                   /\ Readable(f, k)}
    IN  IF seen = {} THEN 0
        ELSE f[CHOOSE k \in seen : \A j \in seen : j <= k].id

\* A bug to catch: the chain is followed only over the lines that link.
VerifyEvent_SkipsUnlinked(r, c, k) ==
    IF c.prev = r.prevHash THEN [r EXCEPT !.ValidEvents = @ + 1, !.prevHash = c.id]
    ELSE [r EXCEPT !.BrokenChain = @ + 1]

\* VerifyLog's treatment of an event c read under key k.  The first
\* break is the line of the first bad link or bad hash.
VerifyEvent(r, c, k) ==
    LET linked == c.prev = r.prevHash
        valid  == c.key = k
    IN  [r EXCEPT !.BrokenChain = IF linked THEN @ ELSE @ + 1,
                  !.ValidEvents = IF valid THEN @ + 1 ELSE @,
                  !.InvalidHash = IF valid THEN @ ELSE @ + 1,
                  !.FirstBreak  = IF @ # 0 \/ (linked /\ valid) THEN @ ELSE r.TotalEvents,
                  !.prevHash    = c.id]

\* VerifyLog's turn for chunk i of the file f: a line that is no event counts
\* as a bad hash, and leaves the chain where it was.
VerifyLine(f, k, r, i) ==
    LET r1 == [r EXCEPT !.TotalEvents = @ + 1]
    IN  IF ~StartsLine(f, i) THEN r
        ELSE IF Readable(f, i) THEN VerifyEvent(r1, f[i], k)
        ELSE [r1 EXCEPT !.InvalidHash = @ + 1]

EmptyReport == [TotalEvents |-> 0, ValidEvents |-> 0, BrokenChain |-> 0,
                FirstBreak |-> 0, InvalidHash |-> 0, prevHash |-> 0]

\* VerifyLog on the file f with the key k.
VerifyLog(f, k) ==
    LET after[i \in 0..Len(f)] ==
            IF i = 0 THEN EmptyReport ELSE VerifyLine(f, k, after[i - 1], i)
    IN  after[Len(f)]

-----------------------------------------------------------------------------
Init ==
    /\ log = [f \in Files |-> <<>>]
    /\ keyFile = 0
    /\ pc = "down"
    /\ open = FALSE
    /\ prev = 0 /\ key = 0
    /\ cur = NoEvent /\ ri = 0
    /\ n = 0 /\ boot = 0

\* NewFileLogger: open audit.log, read or generate the key, find the last hash.
Start ==
    /\ pc = "down"
    /\ boot < MaxBoots
    /\ boot' = boot + 1
    /\ \/ keyFile # 0 /\ key' = keyFile
       \/ (keyFile = 0 \/ "keyread" \in Faults) /\ key' = boot'
    /\ keyFile' = key'
    /\ prev' = ReadLastHash(log[0])
    /\ open' = TRUE
    /\ pc' = "idle"
    /\ UNCHANGED <<log, cur, ri, n>>

\* NewFileLogger when a new key cannot be written: there is no logger.
StartFails ==
    /\ pc = "down"
    /\ "keywrite" \in Faults
    /\ boot < MaxBoots
    /\ keyFile = 0 \/ "keyread" \in Faults
    /\ keyFile' = 0
    /\ boot' = boot + 1
    /\ UNCHANGED <<log, pc, open, prev, key, cur, ri, n>>

\* A bug to catch: the size test lets the limit itself pass.
Full_AtLimit == MaxSize > 0 /\ Size(log[0]) > MaxSize

\* maybeRotate's tests; Stat fails on a closed handle.
Full == MaxSize > 0 /\ Size(log[0]) >= MaxSize

\* A bug to catch: the loop leaves out the oldest file it should shift.
OldestShift_OffByOne == Keep - 2

\* The first rename is of audit.log.(Keep-1), which replaces audit.log.Keep.
OldestShift == Keep - 1

\* Log down to maybeRotate's decision: the event is hashed and becomes the
\* chain's last one before anything is written.
LogBegin(size) ==
    /\ pc = "idle"
    /\ n < MaxEvents
    /\ n' = n + 1
    /\ cur' = [id |-> n + 1, prev |-> prev, key |-> key, boot |-> boot,
               size |-> size, form |-> "line"]
    /\ prev' = n + 1
    /\ IF open /\ Full
       THEN pc' = "rename" /\ ri' = OldestShift /\ open' = FALSE
       ELSE pc' = "write" /\ UNCHANGED <<ri, open>>
    /\ UNCHANGED <<log, keyFile, key, boot>>

\* A bug to catch: a copy in place of the rename.
Shifted_Copies(f) == IF log[f] = <<>> THEN log ELSE [log EXCEPT ![f + 1] = log[f]]

\* The state of the files once f has taken the name of its successor; a
\* rename of a file that is not there changes nothing, and its error is ignored.
Shifted(f) ==
    IF log[f] = <<>> THEN log ELSE [log EXCEPT ![f + 1] = log[f], ![f] = <<>>]

\* A bug to catch: the loop starts again.
AfterRenames_Restart == pc' = pc /\ ri' = OldestShift

\* What follows the last rename: the removal by age, of the files from some
\* index on (a higher index is an older file), or the reopening.
AfterRenames ==
    \/ pc' = "reopen" /\ ri' = 0
    \/ MaxAge /\ pc' = "expire" /\ ri' \in Files

\* One rename of maybeRotate, from the oldest file down to audit.log.
Rename ==
    /\ pc = "rename"
    /\ \/ log' = Shifted(ri)
       \/ "dir" \in Faults /\ log' = log
    /\ IF ri > 0 THEN ri' = ri - 1 /\ pc' = pc ELSE AfterRenames
    /\ UNCHANGED <<keyFile, open, prev, key, cur, n, boot>>

\* One removal by age, in the order of the names.
Expire ==
    /\ pc = "expire"
    /\ \/ log' = [log EXCEPT ![ri] = <<>>]
       \/ "dir" \in Faults /\ log' = log
    /\ IF ri < Keep THEN ri' = ri + 1 /\ pc' = pc ELSE ri' = 0 /\ pc' = "reopen"
    /\ UNCHANGED <<keyFile, open, prev, key, cur, n, boot>>

\* The end of maybeRotate; on failure l.file keeps the closed handle.
Reopen ==
    /\ pc = "reopen"
    /\ \/ open' = TRUE
       \/ "reopen" \in Faults /\ open' = FALSE
    /\ pc' = "write"
    /\ UNCHANGED <<log, keyFile, prev, key, cur, ri, n, boot>>

\* What a Write of cur that does not complete may leave in audit.log.
Parts == { [cur EXCEPT !.form = "bare"] }
         \cup { [cur EXCEPT !.form = "torn", !.size = s] : s \in 1..cur.size }

\* A bug to catch: audit.log is opened with truncation.
Appended_Truncates(c) == [log EXCEPT ![0] = <<c>>]

Appended(c) == [log EXCEPT ![0] = Append(@, c)]

\* A bug to catch: a failed Write takes the event back off the chain.
Write_RollsBack ==
    /\ pc = "write"
    /\ \/ open /\ log' = Appended(cur) /\ prev' = prev
       \/ (~open \/ "write" \in Faults) /\ log' = log /\ prev' = cur.prev
    /\ pc' = "idle"
    /\ cur' = NoEvent
    /\ UNCHANGED <<keyFile, open, key, ri, n, boot>>

\* Log's Write; an error is only reported to slog.
Write ==
    /\ pc = "write"
    /\ \/ open /\ log' = Appended(cur)
       \/ (~open \/ "write" \in Faults) /\ log' = log
       \/ open /\ "torn" \in Faults /\ \E c \in Parts : log' = Appended(c)
    /\ pc' = "idle"
    /\ cur' = NoEvent
    /\ UNCHANGED <<keyFile, open, prev, key, ri, n, boot>>

\* A bug to catch: Close leaves the file open.
Close_LeavesFile ==
    /\ pc = "idle" /\ key # 0 /\ key' = 0
    /\ UNCHANGED <<log, keyFile, pc, open, prev, cur, ri, n, boot>>

\* Close: the key is wiped and the handle closed; a later Log writes nothing.
Close ==
    /\ pc = "idle"
    /\ key # 0
    /\ key' = 0
    /\ open' = FALSE
    /\ UNCHANGED <<log, keyFile, pc, prev, cur, ri, n, boot>>

\* The process is gone, and its memory with it.
Down ==
    /\ pc' = "down"
    /\ open' = FALSE
    /\ prev' = 0 /\ key' = 0
    /\ cur' = NoEvent /\ ri' = 0
    /\ UNCHANGED <<keyFile, n, boot>>

\* run returns after its deferred Close.
Exit == pc = "idle" /\ key = 0 /\ Down /\ UNCHANGED log

Crash ==
    /\ pc # "down"
    /\ "crash" \in Faults
    /\ \/ log' = log
       \/ /\ pc = "write" /\ open /\ "torn" \in Faults
          /\ \E c \in Parts : log' = Appended(c)
    /\ Down

PowerLoss ==
    /\ pc # "down"
    /\ "power" \in Faults
    /\ \E k \in 0..Len(log[0]) : log' = [log EXCEPT ![0] = SubSeq(@, 1, k)]
    /\ Down

Next ==
    \/ Start \/ StartFails
    \/ \E s \in Sizes : LogBegin(s)
    \/ Rename \/ Expire \/ Reopen \/ Write
    \/ Close \/ Exit
    \/ Crash \/ PowerLoss

Spec == Init /\ [][Next]_vars

\* A call of Log that has begun keeps running: the goroutine holds the mutex and
\* waits for nothing but the file system.
FairSpec == Spec /\ WF_vars(Rename) /\ WF_vars(Expire) /\ WF_vars(Reopen) /\ WF_vars(Write)

-----------------------------------------------------------------------------
(* Properties. *)

IsReadable(f, k) == k \in 1..Len(log[f]) /\ Readable(log[f], k)

Increasing(s) == \A j, k \in 1..Len(s) : j < k => s[j].id < s[k].id

Before(s, t) == \A j \in 1..Len(s), k \in 1..Len(t) : s[j].id < t[k].id

\* Order of the trail: read from audit.log.Keep to audit.log, the events come in
\* the order of the calls of Log, whatever fails or crashes in a rotation.
InOrder ==
    /\ \A f \in Files : Increasing(log[f])
    /\ \A f, g \in Files : g < f => Before(log[f], log[g])

\* Neighbours(f, j, k): events of file f with no event to read between them.
Neighbours(f, j, k) ==
    /\ j < k /\ IsReadable(f, j) /\ IsReadable(f, k)
    /\ \A i \in (j + 1)..(k - 1) : ~Readable(log[f], i)

\* No false alarm: where two neighbouring lines of a file do not link (which
\* VerifyLog counts as a broken chain), an event between them is missing;
\* prevHash never falls back behind what the file holds.
BreakMeansLoss ==
    \A f \in Files : \A j, k \in 1..Len(log[f]) : Neighbours(f, j, k) =>
        log[f][k].prev \in log[f][j].id .. (log[f][k].id - 1)

\* No silent loss: when two neighbouring lines written by one process do link,
\* no event of that process between them is missing, even if a Write failed.
LossBreaks ==
    \A f \in Files : \A j, k \in 1..Len(log[f]) :
        /\ Neighbours(f, j, k)
        /\ log[f][j].boot = log[f][k].boot
        /\ log[f][k].prev = log[f][j].id
        => log[f][k].id = log[f][j].id + 1

\* While the key file is not lost, VerifyLog finds every hash valid: nothing is
\* ever written under a key that Close has wiped or a restart has replaced.
HashesVerify == \A f \in Files : VerifyLog(log[f], keyFile).InvalidHash = 0

\* The logger's memory agrees with the disk between calls: prevHash is the last
\* event written, so that the chain has no break while no Write is lost.
ChainTipOnDisk ==
    pc = "idle" /\ open =>
        prev = IF log[0] = <<>> THEN 0 ELSE Last(log[0]).id

\* Rotation discards nothing before the Keep rotated files are in use: the head
\* of the chain is gone only if each of them is full of newer events.
RetainsKeepFiles ==
    LET Stored == UNION {ToSet(log[f]) : f \in Files}
    IN  /\ pc = "idle" /\ MaxSize > 0
        /\ Stored # {} /\ \A c \in Stored : c.prev # 0
        => \A f \in 1..Keep : Size(log[f]) >= MaxSize

\* No file outgrows the limit by more than the line that crossed it.
SizeBounded ==
    MaxSize > 0 => \A f \in Files : \A k \in 1..Len(log[f]) :
        Size(SubSeq(log[f], 1, k - 1)) < MaxSize

\* The ways to keep some lines of s: increasing sequences of their positions.
Picks(s) ==
    {p \in UNION {[1..m -> 1..Len(s)] : m \in 0..Len(s)} :
        \A i \in 2..Len(p) : p[i - 1] < p[i]}

\* Deletion shows: take any lines out of a file and VerifyLog counts one break
\* for each place between two kept lines they were taken from.  It counts one more
\* at the head unless what is left begins at genesis: when the first lines were
\* taken, but in every file after a rotation, too, from which nothing was taken.
\* There Log carries prevHash over, where docs/audit.md:122 has the chain restart,
\* so that a break at the head of a file tells of no deletion.
VerifyCountsGaps ==
    \A f \in Files : \A left \in Picks(log[f]) :
        LET g == [i \in DOMAIN left |-> log[f][left[i]]]
            gaps == {i \in 2..Len(left) : left[i] # left[i - 1] + 1}
            head == IF g # <<>> /\ g[1].prev # 0 THEN 1 ELSE 0
        IN  VerifyLog(g, keyFile).BrokenChain = head + Cardinality(gaps)

\* The trail of AuditTrail, read off the files.
KeptIds == UNION {{log[f][k].id : k \in {i \in 1..Len(log[f]) : Readable(log[f], i)}}
                     : f \in Files}

Trail == INSTANCE AuditTrail WITH issued <- n, kept <- KeptIds

\* The files implement the abstract trail: a call stores its event last or not
\* at all, and rotation, crash or not, gives up the oldest events only.
ImplementsTrail == Trail!Spec

\* Every call of Log returns (the mutex comes free), unless the process stops.
LogReturns == pc \in {"rename", "expire", "reopen", "write"} ~> pc \in {"idle", "down"}
=============================================================================
