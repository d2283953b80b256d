# hbctl in TLA+

A TLA+ development of hbctl: the agent (`hb-agent`) that runs on an image-mode node
and serves its management API over gRPC, and the client (`hbctl`). The modules are
translated from the Go source; paths below are relative to `src/`.

## The system

| component | state | operations | interacts with | module |
|---|---|---|---|---|
| audit log, `internal/audit` | `audit.log`, its rotated files, `hmac.key`; in memory the open file and `prevHash`, under a mutex | NewFileLogger, Log (with rotation), Close, Subscribe, VerifyLog | called by the handlers, the bootstrap endpoint, the watchdog and run | `AuditLog`, `AuditTrail` |
| bootstrap endpoint, `internal/bootstrap`, `BootstrapAuth` in `internal/api/v1alpha1/machine.go` | the token hash and the consumed marker, files; in memory the failed attempts, under a mutex | Enabled, Bootstrap (with consume) | key material, audit log; opened or not by the server when it is made | `Bootstrap` |
| key material, `internal/pki`; `cmd/hbctl/cmd_bootstrap.go`, `internal/client` | `ca.crt`, `ca.key`, `server.crt`, `server.key` on the node; `ca.crt`, `client.crt`, `client.key` at the client | Bootstrap (with discoverSANs), LoadServerTLS, SignCSR; the enrolment and connection of a client | read at every start of the agent | `Pki` |
| agent process, `cmd/hb-agent/main.go`, `internal/agent` | three goroutines (server, shutdown, watchdog), a context, the logger | run: start, cancellation, graceful stop | everything else | `Agent`; what it starts with in `Access` |
| request pipeline, `internal/handler`, `internal/authn` | none of its own, one goroutine for each request | interceptor, Execute, emitAudit | authenticators, authorizers, audit log, the subsystems | `Agent`, `Access` |
| machine service, `internal/api/v1alpha1/machine.go` | none | the table of RPCs: resource, guard, function of each | every subsystem | `Access`, and the module of each subsystem |
| authenticators, `internal/authn/{mtls,token,oidc}` | the key cache of OIDC, under a read-write lock | New, Authenticate; getKey, refresh | the issuer, over HTTP | `Access`; the cache in `JwksCache` |
| authorizers, `internal/authz` | the policy set, read once | New, loadPolicies, Authorize | policy files | `Access` |
| plugins, registries, `internal/plugin`, `plugins` | filled once | loadPlugins, buildDeps | | `Access` |
| machine configuration, `internal/machineconfig`, `internal/system/{kargs,network}` | files under `/etc` | Apply, Read | called by ApplyConfig and GetConfig, with no lock | `MachineConfig` |
| upgrade, `internal/upgrade`, `internal/system/bootc` | bootc's deployments | Upgrade, Rollback, Reboot | runs bootc, with no lock | `Control` |
| systemd manager, `internal/system/systemd` | none | StartUnit, StopUnit, RestartUnit, UnitStatus, Reboot | systemd, over D-Bus | `Control` |
| journal, `internal/system/journal`, streams in `internal/api/v1alpha1/diagnostics.go` | a process, a pipe and two channels for each stream | Stream, LogsStream, DmesgStream | journalctl | `JournalStream` |
| health, `internal/health` | the registered probes | Check | systemd; called by the watchdog | `Agent` |
| configuration, hbctl's other commands, `/proc` statistics, generated code | fixed or none | | | see below |

What is hard here: crashes between writes of several files (audit rotation, key
material, token consumption, configuration); writes that fail or reach the disk in
part; requests that race for one token, one unit, one staged image; a shutdown that
must not overtake requests and their audit events; what is decided at the start and
used later; a key cache without a single flight, looked at under several locks; a
pipe, two channels, a process and a context that must not wait for one another.
`PROJECT.json` lists each such hazard at its line, with the properties aimed at it.

What makes each component correct:

* audit log: events stay in order; a line once written is kept as long as promised; a
  break of the chain means a lost event and a lost event shows as a break; restarts and
  rotations do not break it.
* bootstrap: one certificate for a token; no certificate after too many failures; the
  marker tells the truth; every request is answered, and the log agrees with every
  answer but the refusals of BootstrapAuth's first look at the files, which are not
  logged.
* key material: an enrolled client can connect whenever the agent serves, by a name the
  server certificate was made with; the agent comes up; it issues what it accepts.
* agent: only authorised requests change the node; nobody is told what is not logged;
  a shutdown loses nothing and comes to an end; health events tell one story, and the
  aggregate is the worst of the probes.
* access: what is acted on is what the policies were asked about and permit, no policy
  is dropped, nobody passes the door anonymous or under a name nothing vouches for, but
  for BootstrapAuth while it is open.
* key cache: the keys it answers with are those the issuer lists, up to its stated times.
* machine configuration: what is answered as applied is on the disk; a rejection can be
  told apart from an application; a needed reboot is told.
* control: success means that it happened; the process of a request that was answered
  does nothing later (a job it has queued at systemd may still run).
* journal stream: entries arrive in order and whole, and a stream leaves nothing running.

## The modules

| module | models | state and actions |
|---|---|---|
| `AuditLog` | `audit.go`, `verify.go` | files as sequences of lines (whole or torn) oldest first; `Start` and `StartFails` are NewFileLogger; `LogBegin`, `Rename`, `Expire`, `Reopen` and `Write` are the steps of one Log, in the code's order; `Close`, `Exit`, `Crash`, `PowerLoss` |
| `AuditTrail` | what the log promises: a trail that only grows at its end and is cut at its start | refined by `AuditLog` |
| `Bootstrap` | `bootstrap.go`, `BootstrapAuth`, the server's choice to open it | requests with a program counter around the mutex; `Check` is Bootstrap up to consume, `WriteMarker` and `RemoveHash` are consume, `Audit` and `Reply` the rest of BootstrapAuth |
| `Pki` | `pki.go`, `cmd_bootstrap.go`, loading by both sides | a file holds the number of the CA generation, or of the client's try, it was written for; `Start`, `WriteFile` and `Load` are the agent's, `Enrol` and `WriteCred` hbctl's; `sans` are the names in the server certificate, `own` what the node is called now (`Readdress`), `via` the endpoint a client was enrolled through |
| `Agent` | `main.go`, `handler.go`, `authn.go`, the watchdog, `health/checker.go` | one program counter per request and per goroutine; `Probe` is one probe of Check while units change; the audit logger is the two operations Log and Close |
| `Access` | the start with its configuration, plugins and policy files, the three authenticators, both authorizers, the table of RPCs | a call is one step, since what decides it is fixed at the start: `Outcome` takes it through the handshake, `Authenticate`, `Authorize` and `Perform`; `Start`, `StartFails`, `Stop`, `Edit` (of policy files), `Tick`. `MCAccess` has the files, configurations and credentials |
| `Control` | `upgrade.go`, `bootc.go`, `systemd/manager.go`, `serviceControlFn` | for each request a program counter, a process (`Run`, `TakeEffect`, `EndCommand`, `Kill`) or a queued job (`Queue`, `EndJob`, `AfterJob`); `since` remembers what the node was after the request took effect |
| `JournalStream` | `journal/reader.go`, `LogsStream`, `DmesgStream` | journalctl and the pipe, the goroutine (`Scan`, `Put`, `GiveUp`, `Wait`, `Report`, `Close`), the handler (`Receive`, `Send`, `TakeErr`), the two channels and the context |
| `MachineConfig` | `machineconfig/config.go`, the kargs and network managers, `ApplyConfig` | a record for each call: the section it is at, the files yet to write, the one it has open; `Reject` is a failed validation, `ReadKargs` the read before the write, `Open` and `Fill` one `os.WriteFile`, `Answer` the response; `Crash` is the agent's, `Reboot` the node's. `MCMachineConfig` has the configurations sent |
| `JwksCache` | `jwksCache` in `oidc.go` | `Look` and `Cool` are the two looks of getKey, `Serve` (the issuer), `Receive`, `FetchFails` and `Store` its refresh, `Again` the last look; ages instead of clock times, so that time has no end |
| `AuditLogProofs`, `BootstrapProofs`, `PkiProofs`, `AgentProofs`, `AccessProofs`, `ControlProofs`, `JwksCacheProofs` | theorems about each | |
| `SubsystemProofs` | theorems about `MachineConfig` and `JournalStream` | it extends both, two subsystems of the machine service that share nothing; the names `StreamInit`, `StreamNext`, `StreamSpec` of the second keep them apart |

A definition whose name ends in `_` and a word (`Drained_Stop`) is the definition
before the underscore with a plausible bug in it. No specification uses one: each is
there so that it can be seen that a property notices the bug.

How they meet:

* `AuditLog` and `Agent` meet at the logger. `Agent` assumes of Log that it comes back
  and that an event given to an open logger is in the log: `LogReturns` is the first;
  the second holds but for failing disks, the subject of the runs of `AuditLog`.
* `Access` and `Agent` split the pipeline: `Agent` has the interleavings, with the
  identity and the policy's verdict as inputs (`known`, `policy`); `Access` has how these
  come about. No call writes what another's verdict depends on, so one step is enough.
* `Access` ends where a function begins: what the function does is `Control`,
  `JournalStream`, `MachineConfig` or `Bootstrap`. `Agent` has of all of them that a
  control comes to an end, and a followed stream when its client lets it; `Control` shows
  when the first is not so, `JournalStream` that the second leaves nothing behind.
* `Access` takes from `JwksCache` that the key a token names is found. `Bootstrap` takes
  from `Pki` that a CSR is signed or refused.

## The runs

Each cfg bears the name of its run; the module is the beginning of the name, `MCAccess`
for `AccessRuns` and `MCMachineConfig` for the two of `MachineConfig`.

| run | shows | bounds |
|---|---|---|
| `AuditLogClean` | without faults the chain is whole over restarts, Close and rotation; files are kept as promised; VerifyLog counts exactly the places between kept lines where lines were deleted, and the head of what does not begin at genesis | ten events of size 1, files of three, so that two lines can be kept and one between them deleted; two rotated files: the oldest is shifted out; three starts |
| `AuditLogCrash` | crashes, failed writes, failed reopenings, unwritable keys: `AuditTrail` is implemented, hashes verify, sizes are bounded, Log returns | seven events of size 1 or 2, three starts |
| `AuditLogFaults` | every fault, torn writes, power loss, failed renames and removal by age included: order, breaks mean losses, losses break | five events, three starts |
| `BootstrapRuns` | one token, one certificate; the marker says truly how the token ended, `consumed` or `locked out`; audit and answers agree; no certificate after the limit; every request is answered; crashes between the writes of consume, markers that cannot be written, hashes that cannot be removed, lost answers | three concurrent requests, one of them with a certificate, a token and a wrong one, two runs of the agent, a limit of two attempts |
| `PkiEnrolled` | an enrolled client connects to the agent that serves if and only if the server certificate was made with the name it was enrolled through, a run signs nothing its own pool rejects, and the agent comes up unless its material was left half made; crashes and failed writes on both sides, files removed by the operator | one client, as clients neither change the agent nor meet one another; two enrolments; one address the node may have or not, one name of its own and one from outside; three faults: one removal and one crash make the mixed generations possible |
| `AgentRuns` | only what is authorised changes the node, no answer without its event, nothing is lost at shutdown, the aggregate is the worst of the probes, health events follow one another, the agent stops | two requests of every kind, two probes of which one is critical, three ticks (the fewest that make two health events), panics, a kill, a logger that could not be made |
| `AccessRuns` | what is acted on is permitted by all policies, no changing call panics, nobody anonymous passes and nobody under a name that nothing vouches for | every RPC with every kind of argument; two policy files with any of three texts, absent or broken, one edit; four configurations; nine credentials, four of them tokens of the issuer or a forger; a clock of three values, where tokens come to be valid, expire and grow too old |
| `ControlRuns` | success follows effect, no process acts after the answer, requests end when their clients leave | two requests of each of the six operations on two images and one unit; commands that fail after their effect, jobs that never end, notices that are lost, reboots |
| `JournalStreamRuns` | order, wholeness, nothing left running, an end with journalctl | five lines of any kinds, a pipe and a channel of two: the fewest lines that fill pipe, scanner and channel at once |
| `MachineConfigRuns` | what is answered as applied is on the disk, a rejection leaves whole sections applied or untouched, a needed reboot is told | two calls at a time and no bound on how many follow each other; five configurations (name, interface and arguments; arguments with escapes and name servers; a bad interface next to a good one; bad name servers after arguments; bad arguments after an interface); failed reads and writes, crashes, reboots |
| `JwksCacheRuns` | no withdrawn key is handed out and no listed one refused for longer than the cache's times allow | two requests at a time without end, one key that signs and one that does not, both listed and withdrawn at will; a Ttl of 3, a cooldown and a timeout of 2 units; fetches that fail or are slow |

Two requests suffice for `Agent` and `Control`, because requests only share the shutdown
and the logger, or one unit and one staged image; three are used for the token because
one may hold the mutex while another waits and a third has passed the test before it. Two
files besides the current one show every kind of rename there is: the first, one in
between, the last. Two policy files show ids of the same file, of another, and with the
same number. `MachineConfig` and `JwksCache` are explored completely: their state spaces
are finite without a bound on the number of calls or on time, and the bounds of
`JwksCache` are the smallest with the order timeout <= cooldown < Ttl; its two properties
fail with any limit one less. Where a property is proved as well, the bounds matter only
for the mutants.

The deadlock check is on for `MachineConfigRuns`, `MachineConfigRetry`, `JwksCacheRuns` and
`PkiEnrolled`, whose actors go on for ever. In the other eight (`AuditLogClean`,
`AuditLogCrash`, `AuditLogFaults`, `BootstrapRuns`, `AgentRuns`, `AccessRuns`,
`ControlRuns`, `JournalStreamRuns`) a run may really be over: the agent has exited, the
requests have been answered, the stream has ended, the clock has come to its end.

One run shows a place where a test says one thing and the code does another, which
`PROJECT.json` quotes under `findings`: in `MachineConfigRetry` a call of ApplyConfig
rejected for its name servers has written its kernel arguments, and the same arguments
sent again are answered with "no reboot required". (`RebootTold` holds when all calls
were answered without an error.)

### What the models show without a run of its own

These are in the models, some as the exception a property makes, some as an outcome:

* Audit. After a rotation VerifyLog reports a broken chain in an `audit.log` from which
  nothing was deleted, since the chain is carried over (`audit.go:146`;
  `docs/audit.md:122` says it restarts). A write cut short glues the next event to the
  torn one (`audit.go:155`). A last line longer than 8KB makes the chain start again at
  genesis after a restart (`audit.go:286`). Five rotated files and the current one exceed
  the documented 500MB (`audit.go:205`). Without an audit logger the agent panics at the
  first event rather than go on unaudited, since the nil `*FileLogger` in the interface
  passes the test for nil (`main.go:138`). A request the interceptor refuses is not
  audited (`authn.go:84`).
* Key material. What a crash has left half made keeps the agent down for ever, since only
  `ca.crt` is looked for (`pki.go:32`): the exception of `ComesUpUnlessHalfMade`, where
  the README says the agent makes its certificates on its first run.
  `--ca-fingerprint` accepts the server's fingerprint and never the CA's
  (`cmd_bootstrap.go:103`). The names in the server certificate are those the node had
  when it was made (`pki.go:82`, where `docs/security.md` speaks of all node IPs and the
  host name), and nothing makes it anew. `hbctl bootstrap` does not verify them
  (`cmd_bootstrap.go:37`), every later call does (`client.go:56`): whoever is enrolled
  through a DNS name, a forwarded port or an address the node has been given since is told
  "Bootstrap successful" and cannot connect with the usage line printed below it. That is
  the condition in `EnrolledConnects`.
* Bootstrap. A client whose answer is lost has burnt its token without a certificate. The
  endpoint opens only if the token hash is there when the agent starts
  (`server.go:34`): in the README's order of steps a client is turned away. Once open, it
  stays open to clients without certificates for the whole run, after the token is used
  too. If neither the marker nor the removal of the hash takes effect the token can be
  used again (`bootstrap.go:135`; the assumption `OneWriteWorks`).
* Authentication. With the token and OIDC methods a client certificate is still asked for
  in the handshake, unless the bootstrap endpoint was open at the start. A token without
  `iat` has no age limit. A request that looked at the key cache before another's refresh
  and asks for the cooldown after it returns the old key, however old, or refuses the one
  that has just come (`oidc.go:315`; both properties of `JwksCache` leave such requests
  out and fail without that).
* Authorization. A policy whose evaluation fails is skipped, a forbid too. An edit of the
  policy files has no effect before a restart. The examples of `docs/authorization.md`
  name `Action::"Reboot"`, where the code asks about `lifecycle:StartReboot` as
  `docs/actions.md` says: the documented forbid never matches. In `Access` an action is
  the RPC, so that the spelling does not show.
* Missing parts. Health panics, since nothing sets `Deps.Health` (`machine.go:90`); so do
  Stats, Logs, Dmesg and ServiceStatus without the plugins they need
  (`Access!Perform`), and a panic ends the agent. The configuration that
  `docs/plugins.md` calls minimal is one such. `HB_HEALTH_UNITS` is read but never used.
* Streams. A line longer than the scanner's 256 KiB ends the scan without an error, as
  `scanner.Err` is not looked at: the stream is cut off, and once journalctl has ended
  with success that is what the client is told (the exception of `SuccessIsWhole`); until
  then Wait blocks. A reader that leaves through its select does not wait for the process.
* Control. A job that never ends, or whose notice is lost, holds its request whatever
  becomes of the client, and with it GracefulStop (`manager.go:110`; the exception of
  `LeavingEnds`, and what `AgentRuns` assumes away). Helpers of a killed bootc that keep
  its pipe open would keep CombinedOutput waiting; the model has bootc end as a whole. The
  image a rollback answers with is what is staged afterwards, by whomever.
* Health. A check of the watchdog that overlaps the shutdown takes its own cancellation
  for units that fail, and logs a change to unhealthy (`main.go:240`).
* Configuration. Kernel arguments that need escapes do not read back as they were
  written, so that applying them again asks for a reboot (`kargs.go:112`; `Escaped`).

### Fairness

Properties that are not temporal, and action properties, need none. Each temporal one is
checked under the `FairSpec` of its module, which is weak fairness of what the Go
scheduler runs; what it asks of anybody else is said here:

* `AuditLog` (`LogReturns`): a call of Log that is under way goes on; file operations
  return.
* `Bootstrap` (`Answered`): each request's goroutine runs. A waiter's step is enabled only
  while the mutex is free; weak fairness is enough because the requests are finitely many,
  so that the mutex is free for good in the end (`sync.Mutex` starves nobody either).
* `Pki` (`ComesUpUnlessHalfMade`): somebody, systemd or the operator, starts the agent
  whenever it is down, and its own steps are taken: the question is whether starting it
  is enough. Nothing is assumed of clients or faults.
* `Agent` (`ShutsDown`): the three goroutines and the requests' run, and what a request
  has systemd or bootc do ends. Nothing is assumed of the client of a stream, so that the
  property excepts it.
* `JournalStream` (`LeavingEndsAll`, `EndsWithJournalctl`): the goroutines run and a kill
  is carried out (exec.CommandContext does it from a goroutine of its own). Nothing makes
  journalctl write or end, or a client read; Send is fair only once the client is gone,
  when gRPC makes it return.
* `Control` (`LeavingEnds`): handlers run and a kill is carried out. Neither bootc nor a
  job of systemd need end.

## What is proved

TLAPS checks all of it, for every value of the constants that satisfies the named
assumptions of the modules. What TypeOK says is proved of every module, and so is
every invariant and every action property that a run checks; the liveness properties
are not.

* `AuditLogProofs`, in the order of the file. Where a theorem assumes something of the
  constants, or of the behaviour, it is because the property is false without it.
  * `OrderKept`: under every fault the events, read from the oldest file to the newest,
    are in the order they were logged. The invariant says besides `InOrder` that no event
    on disk is newer than the last id handed out, so that what a write appends comes
    last; during a rotation a rename moves a whole file next to where it was, and what is
    between is empty.
  * `TrailImplemented`: with no torn writes, power loss, failed renames or removal by age,
    every step of the log is a step of `AuditTrail` or none. Each of the four takes or
    glues lines in the middle.
  * `LossAlwaysBreaks`, under every fault: lines of one process link to the event just
    before them, because Log sets prevHash before it writes and whether the write
    succeeds or not (`SameBootLinks`).
  * `BreaksAreLosses`, under every fault: what is in memory is never behind what
    `audit.log` holds (`BreakInv`), if each start finds the last line that can be read in
    the window it looks at (`LastLineInWindow`, a premise about the behaviour; a longer
    last line is the case of `audit.go:286` above). `NoFalseAlarm` replaces the premise by
    one on constants, `WindowFits`: no torn writes and no line longer than the window.
    `AuditLogFaults` has torn writes and a window that no file of it fills, so that it
    satisfies the first.
  * `SizesBounded`, if no rename fails (`"dir"`): whoever is about to write has found the
    current file below the limit or has just emptied it (`SizeInv`). A failed rename is
    ignored and the file grows on.
  * `HashesStayValid`, with `KeySafe` (the key is not replaced, no line torn): the key in
    memory, in a line in flight and on every line is the one on disk, and a key is only
    made when there is no line yet (`HashInv`). Close wipes the key, which is why the
    invariant speaks of open loggers only.
  * `TipOnDisk`, with `WritesSafe` (`WindowFits`, and no failed write): `TipInv`.
  * `FilesRetained`, with `Undisturbed` (besides, nothing stops or fails inside a rotation
    and nothing is removed by age): the files in use are contiguous but for the one the
    next rename goes to, each is full, and the head of the chain is stored until all are
    in use (`Packed`, `Retained`).
  * `GapsCounted`, with `WritesSafe`: each line of a file links to the one before
    (`LinkInv`), so that VerifyLog's fold over any choice of the lines counts each place
    where the choice leaves lines out. What it counts at the head tells nothing after a
    rotation.
  * `Size` and `VerifyLog` are recursive functions of the position in a file. That they
    exist and satisfy their equations for every length is proved by the least position
    where they would not (`NatInduct`, `TotalsExist`, `SizeIs`, `VerifyLogIs`), with sets
    in place of the predicates of the library's induction theorems.
* `BootstrapProofs`. `TokenUsedOnce` and `FilesTellTruth`, assuming `OneWriteWorks` (not
  both of consume's writes fail): the holder of the mutex is the only request past the
  check, a token that gave a certificate is spent, and what the holder is about to write
  is true (`Once`, `Truthful`). For the second, whom a marker is about it is about for
  good (`AllStay`): the request that consumed has its certificate or was cut off, and
  `m.attempts` is never more than the number of requests that were refused, or cut off,
  for a wrong token, a number that survives restarts where `m.attempts` does not
  (`Marked`); it is a cardinality, so that the requests are assumed to be finitely many
  (`FiniteAssumption`). A request cut off by a crash may have been cut off before it was
  decided: no state of the agent tells. `LockoutKept` needs no assumption: the counter is
  in memory and only grows. Nor does `AnswersAudited`: a request gets to its reply only
  through the event, and nobody else gives it a certificate in between (`Logged`).
* `PkiProofs`. `EnrolledCanConnect`: while nobody removes the agent's files, these are of
  one generation (`Made`), every certificate out is of that generation (`Issued`), and
  hbctl's files are of its last try as far as it got (`Kept`); what remains is whether the
  server certificate names the endpoint. `IssuesAccepted` holds with
  files removed too: a run that signs has a CA key that matches the certificate it loaded.
* `AgentProofs`. `OnlyAuthorizedChange`, `AnswersAreLogged`, `LoggerClosedLast`,
  `ShutdownKeepsAll` follow from one invariant, `Flow`: what each request has behind it
  wherever it is, and where all the others are at each stage of the shutdown.
  `AggregateWorst` and `HealthStoryTold` are about the watchdog: the fold over any number
  of probes, and that `prev` is what the last event ended with.
* `ControlProofs`. `SuccessIsReal`, `AnswerIsLast`: what a request acted on is, as long as
  it has not answered, among what it has seen since it took effect, and whoever waits for
  a job is still to be told.
* `AccessProofs`. `PermittedActs`: policy ids never collide, because the counter goes on
  from file to file, so that the policy set holds every policy (`AllLoaded`); and the
  resource the authorizer is asked about is the target whenever the function gets to act
  (`AskedAboutTarget`). `ChangersNeverPanic`, `IdentifiedAtDoor`. They assume that a file
  has at most `MaxPolicies` policies, any number, and that a token's expiry is a number.
* `SubsystemProofs`, of `MachineConfig`. `AppliedIsOnDisk`, `RejectedWhole`: a call
  that has run alone has written all of the sections before the one it is at, and of that
  one what it has left its list, and has opened nothing else but the file in hand
  (`Progress`); nobody writes while an outcome stands (`Settled`). Both rest on the shape
  of a call at each section (`Shape`), which `ConfigTypes` needs too. `NeededRebootTold`,
  for calls that run into each other: as long as no call has told or will tell
  (`WillAsk`), the arguments on disk are those of the boot, or a call has just cut them
  off to write the same again, and whoever is on its way to write them writes these
  (`Asked`). `MachineConfigRuns` checked these invariants before they were proved.
* `SubsystemProofs`, of `JournalStream`. `OrderKept`: what was sent, is in hand or in the
  channel is in order and is exactly the entries read so far, up to the one in the
  goroutine's hand (`Between`). `SuccessWhole`: what each stage of the end has behind it
  (`Ending`).
* `JwksCacheProofs`. `ListedHandedOut`, `ListedFound`: an answer that travels agrees with
  the issuer up to the time it has travelled (`Bodies`), the cache up to its age and a
  timeout (`Cached`), and what a request found at its first look still holds unless it was
  raced (`Looked`). They assume cooldown < Ttl, as in the code.

Only model-checked: the liveness properties `LogReturns`, `Answered`,
`ComesUpUnlessHalfMade`, `ShutsDown`, `LeavingEnds`, `LeavingEndsAll` and
`EndsWithJournalctl`, since TLAPS as installed proves neither liveness under fairness nor
ENABLED.

## What is not modelled

* Contents: HMAC is a tuple of what it covers; certificates are numbers of who signed
  them for what; time is an input where the code compares it (removal by age, tokens,
  keys) and absent where it does not matter; expiry of certificates is left out.
* The Cedar language: a policy has a scope, an effect and perhaps a condition that
  fails. The order in which the library yields the policies of a file is taken for the
  file's: only their number matters.
* Reading the environment and its defaults; hbctl's other commands, which make one call
  and print; the statistics, which parse `/proc` and keep no state; `internal/gen`, which
  is generated. The gRPC reflection service is behind authentication only.
* Code that nothing reaches: the interceptors of `internal/authz`, `UpgradeServer`, the
  older Logs and Dmesg handlers, ListUnits, Subscribe of the audit log with its
  broadcast, and ShouldLog's exclusions.
* In `MachineConfig`, a configuration names an interface once, and an MTU, a gateway or an
  address is part of the interface's value. In `JwksCache`, time passes only while no
  request is between two instructions. In `Control`, bootc and systemd are modelled from
  how the code uses them: a command takes effect at one moment, two jobs of a unit are
  joined or the older is cancelled.

## The plan

1. Done: `AuditLog` with `AuditTrail`, `Bootstrap`, `Pki`, `Agent`, `JwksCache`,
   `MachineConfig`, `JournalStream`, `Control`, `Access`, and proofs of their invariants.
2. An abstract ApplyConfig (each section at once or not at all) that `MachineConfig`
   implements when calls do not overlap and nothing fails.
3. The audit feed (Subscribe, broadcast, Close), once something uses it.
