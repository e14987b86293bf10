# ERGENEKON in TLA+

ERGENEKON records what a Node.js service does while it handles a request,
ships the recording to a collector, stores it, and replays it later. This
directory models that path from the middleware that opens a recording to the
replay of its handler, the comparison function that the replay package exports,
and the licenses that switch parts of it on. TLC checks the models on small instances; TLAPS proves
the properties that matter most for every value of the constants.

All paths below are relative to `src/`. `PROJECT.json` maps every definition to
the lines it models and lists every hazard at its line.

## 1. Inventory

| Component | State it keeps | Operations | Modelled in |
| --- | --- | --- | --- |
| Probe lifecycle and middleware, `packages/ergenekon-probe/src/index.ts`, `interceptors/http-incoming.ts`, `recording-context.ts` | started, enabled, what is installed; the events of each request | start, shutdown, setEnabled; begin, record, end, finalize | `Probe`, `EventLog` |
| Sampling engine, `sampling.ts` | configuration, seen paths, two rings, the adaptive override | headDecision, tailDecision, getStats, updateConfig, forceRecord | `Sampling` |
| Interceptors, `interceptors/*.ts` | the functions they replaced | install, uninstall, the patched functions | `Interceptors` |
| Redaction, `redaction.ts` | none but the objects visited by a call | redactDeep | `Redaction` |
| Collector client, `transport/collector-client.ts` | memory buffer, flush lock, failure count, breaker, local store | enqueue, flush (one await: the POST), spill, drain, start, stop | `CollectorClient`, `SessionCustody` |
| Spill buffer, `transport/spill-buffer.ts` | NDJSON files, current file name, line count | append, rotate, evict, drain | `SpillBuffer` |
| Rate limiter, `packages/ergenekon-collector/src/rate-limiter.ts` | a token bucket per address | consume, cleanup, destroy | `RateLimiter` |
| Body reader, `body-reader.ts` | a promise, a timer, a byte count | data, end, error, timeout | `Admission` |
| Collector HTTP server, `server.ts` | counters, the requests under way | POST sessions, one `store` after the other | `CollectorServer` |
| Storage engine, `storage.ts`, `durable-writer.ts`, `checksum.ts` | a checksummed file per session, `index.jsonl`, four maps in memory | store, load, quarantine, init | `FileStorage` |
| Hybrid logical clock and ULID, `packages/ergenekon-core/src/hlc.ts`, `ulid.ts` | wall time, counter; last time, last random part | now, receive, peek; ulid | `ServiceClocks` |
| Export and import, `session-io.ts` | none | binary and JSON export and import | `SessionIO`, `Values` |
| Licenses, `license-types.ts`, `license-generator.ts`, `license-validator.ts` | none | generate, validate, load | `License`, `Licensing` |
| License server, `license-server/src` | processed events, two counters | webhook, free registration | `LicenseServer` |
| Mock layer and replay engine, `packages/ergenekon-replay/src/mock-layer.ts`, `replay-engine.ts` | a queue per event type; the replay flag and the functions of the process | load, seek, replay | `Replay` |
| Deep diff, `diff.ts` | none but the objects seen by a call | deepDiff | `DeepDiff` |
| Command line, Web UI | none | calls of the HTTP interface, export and import of files | export and import in `Archive` |
| Demo, landing page, docker, helm, scripts | | | not modelled |

How they interact. The middleware asks the sampling engine at the head of a
request and again at its tail, and hands a finished recording to
`CollectorClient.enqueue`. The client posts batches; the server admits them
through the rate limiter and the body reader and calls `FileStorage.store` for
one session after the other, and answers 200 only if all of them succeeded. A
failed batch goes back to the buffer or, behind an open breaker, to the spill
files; a successful POST drains them. Outgoing requests carry the clock and the
trace to the next service. Command line and UI read through `load`; replay loads
a session, runs the handler again with the functions of the process replaced,
and compares the JSON texts of the two bodies; `deepDiff` is exported beside it and
called by nothing in the repository. Probe, collector and UI load a license when they
start; it decides which interceptors are installed.

What is hard in it: JavaScript runs a callback to its end, so everything
interleaves at awaits and nowhere else, and state read before an await may be
stale behind it; a POST, a write or a mail may fail after it was done in part;
processes die between two steps and trust what they find on disk; physical
clocks are set back; replays replace functions of the whole process; buffers,
directories, tables, logs and traces have limits.

## 2. The modules

A step is the code between two awaits, a synchronous loop over files one step
for each file, a recursion one step for each call. History variables are marked as such. An operator whose comment
says "a mutant of X" is a plausible bug in X: replacing X by it breaks the
property that `PROJECT.json` pairs it with, and no specification uses one.

**SpillBuffer, CollectorClient, SessionCustody.** The directory is a function from
names to files, each with its readable lines and whether its end is a line cut
short. Names are numbered in the order in which they are made: that the code sorts
them by time is the same as long as two are not made in one millisecond and the
clock is not set back between them, which is assumed. `append()` returns true (`AppendOk`,
where each file to be evicted can or cannot be read, and can or cannot be unlinked)
or false (`AppendFailed`, at one of four points: nothing touched, file created, line
cut short, line written and not flushed). `drain()` takes the names one by one:
`DrainFile`, `KeepFile` (the lines were pushed, then the unlink failed), `SkipFile`
(unreadable). `flush()` is split at its POST: `Launch`, then `PostOk` or one of
`FailUnheard`, `FailStrict`, `FailOpen`, `FailRetry`, `FailFull`. Spilling and
draining are a step for each iteration, between which only the death of the
process can come. `fate` is a history of how each session last left the client's
hands; two of its values are losses that the code does not notice, `glued` (written
behind a torn line) and `unread` (in an unreadable file that was evicted). `twice` is a
history of the sessions drained from a file that stayed.
`SessionCustody` is the promise without the machinery: each
session is new, held, delivered, kept locally or lost, and the last three are
final. A `flush()` that throws rejects a promise that `enqueue` and the timer
drop; the probe's own listener (`interceptors/errors.ts:87`) keeps the process
alive then.

**FileStorage.** `store()` is `StoreBegin`, `Flush`, `Rename`, `SyncDir` (or
`SyncRefused`, an error of the directory's fsync that `durable-writer.ts` passes over),
`IndexSession`, `LogLine`, `StoreReturns` with its failures; `load()` is `LoadBegin`,
`LoadRead`, `Quarantine`, `Forget`; `Restart` is a death and `init()` with both paths of
`rebuildIndex()`. `settled` is the directory as of its last flush: a power failure takes
back any of the renames since, and the end of `index.jsonl`, which is never flushed
(`NamesLeft`, `LogsLeft`). An append to the log may fail or stop within its line, and the
next line is lost with it. `debris` are temp files of dead writers, whose names end in
`.json`. The histories `rotted`, `refused` and `unlogged` say which sessions lost what
the properties rest on.

**CollectorServer** extends `FileStorage` with handlers that validate and store a
batch, and with a probe reduced to its queue that gives up after 5 s and posts
again while the first handler still runs.

**RateLimiter, Admission.** A bucket knows which keys were inserted before it, as
the `Map` does; tokens are counted in units so that a refill is a whole number.
The wall clock may be set back or forward; what it moved forward counts as
elapsed. `Admission` adds the body of each connection, whose data, end, error,
limit and timer settle one promise.

**ServiceClocks.** Clocks and ULIDs of services that send each other requests
which are lost, repeated and reordered; a header is the clock as it was when the
request was sent. An event is stamped, then its id is drawn: outside a context in one
go (`Bare`), inside one with a timestamp between the two that the patched `Date.now`
records (`Nesting`). The physical clock may tick at each of its readings.

**EventLog, Sampling, Probe.** `Record` is `record()` with its cap, its marker and
the timestamp that `ulid()` records before the event once `Date.now` is patched.
`Open`, `Note`, `End` are the middleware, an interceptor's event, and `res.end()`
(which may be called again). A random draw is a choice that the rate permits. The
sampling clock may be set back. `Shutdown` restores what it restores: the
`randomUUID` that an ES module imported stays.

**Interceptors, Replay.** A table gives each kind of operation the events it
leaves when called, when it succeeds and when it fails. A handler issues
operations that overlap and settle in any order; engines then load the
recording, seek, and run the same handler with `Date.now` and `fetch` replaced
for the process, fed from the queues of the mock layer. A recording may have lost its
request, or the data of its request or response: `replay()` then refuses it, or throws
with its flag up (`Strand`). A fetch that was answered without a body (204, 205, 304)
makes `new Response()` throw (`Bodiless`).

**License, LicenseServer, Licensing.** A signature is the payload and the key it
was made with. The webhook and the registrations run to the await of their mail.
`Licensing` lets what was issued, edited, signed elsewhere or damaged lie in the
places that a starting process searches.

**Values, Redaction, SessionIO, DeepDiff, Archive.** JavaScript values are heaps
of objects, arrays, binaries and objects without own keys (`Opaque`: a Date, a Map) that
may be shared or cyclic; an object is named by who built it and, in a tree, where it lies. `Redaction` and `DeepDiff` are
the two recursive `walk()` functions, a step for each call: `work` and `todo` are the
lists of calls still to be made, in the order in which the recursion makes them;
`visited` and `seen` are the sets of the code; `kept` and `diffs` are what has been
returned so far, `kept` as the entries of the result with what was there before;
`entered` is a history of the calls that looked into two containers.
`SessionIO` is a pure algorithm. `Archive` sends one value through all of them:
redacted, exported, damaged, imported, and compared by `deepDiff()` with another value,
as a user of the library may (the engine does not). A text file that was changed may
still parse, as another session.

The `MC...` modules and the `.cfg` files give the bounds; the `...Proofs` modules
hold the theorems.

## 3. Properties and runs

Type invariants are proved (section 5) rather than checked in a run, except that
the runs check what is stronger.

| Run | What it shows | Bounds, and why they are enough |
| --- | --- | --- |
| `client` (183,146 states) | `NoSilentDrop`, `AtMostOneCopy`, `PendingOrderStable`, `BreakerMatchesFailures`, `AckedAppendReadable`; the client implements `SessionCustody` (`KeepsCustody`); `LeavesMemory` | 3 sessions for a buffer of 2: a retry that fits, fits in part, or finds it full; threshold 2; a spill file of 2 lines and an eviction at the second; torn and unsynced appends, files that cannot be read or unlinked; a restart into either mode. That `enqueue` overflows (five sessions) is left to the theorems |
| `storage` (829,808) | `AckedReadable`, `AckedFindable`, `AckedFileKept`, `StoreEnds` | two sessions of a trace with room for one, a load, a rotten file, a restart; every failure of the disk, the directory, the log and the power: the cap, a second store after a quarantine, debris, a rename that is taken back |
| `server` (426,820) | `DeliveredIsServed`, `OneHandlerPerSession`, `RequestsEnd` | two handlers, four sessions, one malformed and two that exclude each other in a trace; a batch limit of two, a timeout, a restart, failing writes |
| `admission` (2,007,673) | `WithinRate`, `TimerOnlyWhileReading`, `BodiesEnd` | three addresses for two buckets of one token; a clock that moves by up to two ticks either way; a bucket that is lost in use |
| `recording` (3,324,588) | `ErrorsNeverMissed`, `NewPathOnce`, `Framed`, `ErrorsAreRequests` | two requests on two routes, three ends, a log of two events, a table that has room for both routes, rings pruned at every second outcome, a clock that is set back |
| `replay` (6,572,157) | `MocksGone`, `FlagIsHeld`, `FollowedHandlersReplay` | two engines; two operations of four kinds (a value, a fetch with and without a body, a queue of its own) in any overlap; recordings without request or data; a probe that starts and stops |
| `clocks` (3,644,257) | `NeverFarAhead`, `StampsIncrease`, `ArrivesAfterHeader`, `IdsFollowStamps` | two services, one of three stamps (an event before and after one with a nested timestamp) and one of one, time up to two with a drift of one: headers within and beyond the clamp and the limit, ids that wrap |
| `license` (308,963) | `OneLicensePerEvent`, `QuotasHold`, `UnlockedIsIssued`, `WithinTier`, `EventsEnd` | two events for a memory of one, two handlers, two mailboxes, counters that lapse, three places to search, a license made by hand |
| `archive` (443,882) | `NoSecretKept`, `RedactsNothingElse`, `ReadsWhatWasWritten`, `DifferencesAreReal`, `DifferencesAreFound` | 2242 values of up to three objects, arrays, binaries and dates with up to two entries each, shared and cyclic, keys `__proto__` and `constructor` among them; a depth limit of 2, which such values exceed; every binary file with a word changed, swapped, cut off or added, every text file with a leaf or its id changed |

Three more runs expect a violation (section 4).

What some of them rest on:

- `NoSilentDrop` is the transport's own invariant (`collector-client.ts:14`): a
  session that was accepted and has not visibly left is in the buffer, in the
  batch, or readable on disk. Two ways to leave are not visible and exempt (`glued`,
  `unread`); section 4 lists them as breaches of that comment.
- `AtMostOneCopy` and `PendingOrderStable` leave out the sessions of a file that was
  drained and could not be unlinked: the code drains them again.
- `AckedReadable` and `DeliveredIsServed` leave out the sessions whose file rotted, whose
  directory could not be flushed (`refused`), or whose line `index.jsonl` lost
  (`unlogged`); `AckedFileKept` the first two only.
- `KeepsCustody`: what was delivered or given up never comes back, and no status
  is reported that the collector does not bear out.
- `WithinRate` holds for a bucket that is evicted because an eviction needs 60 s,
  in which a bucket is full again (`StaleIsFull`); a bucket evicted while in use is
  counted (`forgotten`).
- `NewPathOnce` ends when the table of paths is full, which the property says; in the
  run it is full only when every route was seen, and the claims that a full table
  refuses are covered by `NewPathsAreClaimedOnce`.
- `FollowedHandlersReplay` speaks of handlers that await one operation before the
  next, fail in none, and read the clock before anything else, and lets them diverge only
  where a fetch had no body; others are
  served what belongs to another operation, because there is one queue for each
  type of event and `record()` puts timestamps of its own into one of them.
- `FlagIsHeld` leaves out the recordings whose request or response has no data.
- `IdsFollowStamps` compares an event, and the timestamp nested in it, with the event
  before it; an event and its own nested timestamp have stamps and ids in opposite
  orders.
- `NoSecretKept` and `RedactsNothingElse` are about what `redactDeep()` returns; the two
  `Differences...` about `deepDiff()`.
- `ReadsWhatWasWritten` speaks of every binary file and of text files that nobody
  changed.
- `DifferencesAreFound` speaks of answers in which no object lies in two places: where
  one does, `seen` passes it over at the second.
- `UnlockedIsIssued` lets everything lie in the searched places but a file whose
  signature verifies for a payload that was never signed.

Fairness, and why the code justifies it:

| Property | Assumes of the code |
| --- | --- |
| `LeavesMemory` | the interval timer fires, a POST ends (an answer, or the timeout of 5 s), the synchronous loops go on. Nothing of the collector: every POST may fail |
| `StoreEnds`, `RequestsEnd` | promises of the file system settle; a probe with a queue posts |
| `BodiesEnd` | an armed timer fires; nothing of the client |
| `EventsEnd` | a mail is sent or fails; Stripe delivers again what was not answered with 200 (strong fairness: it may find both handlers busy in between) |

`CHECK_DEADLOCK FALSE` is set where the system stops: once every bounded thing is
through, no step is left. `recording`, `replay` and `clocks` check deadlock.

Symmetry is declared only in runs without liveness properties.

## 4. Where the code and its documents disagree

With a run of its own:

| Run | What the code does | What is written |
| --- | --- | --- |
| `client_no_listener` (`NoSilentDrop`) | `emit('error')` throws when nobody listens, and the probe never does: the batch of a failed flush vanishes, no counter moves, the breaker never opens | "A session is NEVER silently dropped", `collector-client.ts:14` |
| `storage_quarantine` (`QuarantineSparesGood`) | two loads read one rotten file; the first quarantines it and frees the id, a store writes it anew, and the second load moves the good file to quarantine and forgets it (`storage.ts:186`) | "Verifies checksum on load. Quarantines corrupt files.", `storage.ts:157` |
| `license_paid` (`PaidIsLicensed`) | an event is remembered before it is worked on; if its license cannot be made, the next delivery is answered with 200 as a duplicate | "Return received:false so Stripe retries on transient failures", `stripe-webhook.ts:165` |

Also seen while modelling, without a run; the models contain those that lie in
modelled code, and the properties are worded accordingly.

- *Transport.* "A session is NEVER silently dropped" (`collector-client.ts:14`) fails in
  two more places, which `NoSilentDrop` exempts by name: the line after one that was cut
  short is glued to it, and `append` returns true (`spill-buffer.ts:70`); an oldest file
  that cannot be read is unlinked without the line in the log (`:168`). A drained file
  that cannot be unlinked has its sessions pushed all the same (`:119`): they are posted
  again, behind later ones. With an open breaker and an empty buffer no
  POST is tried, so the breaker stays open (`collector-client.ts:200`). `stop()`
  during a flush leaves what was enqueued meanwhile (`:131`). An append that fails
  after creating its file skips the eviction (`spill-buffer.ts:88`).
- *Storage.* A directory whose fsync is refused (`durable-writer.ts:60-66`) is as good as
  flushed to `store()`, and a power failure may take back the rename, against "After this
  function resolves, the file is on disk" (`:23`). A restart that finds `index.jsonl` opens no session file, while
  `storage.test.ts:142-147` expects it to count a corrupt one. The first store into a
  directory without a log makes a log of one line, which hides the rest from the next
  restart (`storage.ts:305`). A log line that is lost or torn is not missed until a
  restart (`:147`). Temp files of a dead writer are read by the full scan (`:313`).
- *Server.* A retried batch whose first session is stored is answered with 500 for
  ever (`server.ts:273`), also after an import of a session that is there; a batch
  above 100 sessions is refused for ever (`:241`).
- *Sampling.* Two overlapping `forceRecord()` calls leave the rate at 1
  (`sampling.ts:209-211`).
- *Shutdown.* `randomUUID` is put back without `syncBuiltinESMExports()`
  (`interceptors/timers.ts:173-178`; its installation calls it at `:154`), so an ES module
  that imported it keeps the patched one.
- *Clocks.* The header of a request is written before the request is stamped
  (`hlc.ts:66-67`), so it is one stamp older than the event. `record()` stamps an event
  before `ulid()` reads the patched `Date.now` (`recording-context.ts:96-98`): the timestamp
  nested there has the later stamp, the earlier id and the lower sequence number. If the
  clock ticks in between, the event's id is drawn anew in a millisecond that has passed, and
  may be lower than ids already drawn in it.
- *Licenses.* `validateLicense('null')` throws (`license-validator.ts:111`) although
  line 95 promises a result. An empty list of features grants the whole tier. A free
  registration answers "Email delivery pending" and never tries again;
  `landing/api/register-free.js` answers success without a mail, and its map may
  exceed `MAX_MAP_SIZE`. Two events that cannot be licensed and a full memory are
  retried for ever.
- *Replay.* A replay is not exact for handlers whose operations overlap
  (`replay-engine.ts:15`). A second `replay()` without a reset finds drained queues.
  A probe stopped during a replay and started again makes `fetch` call itself. The
  recorded answer is redacted, the replayed one is not. The answers are compared by
  `JSON.stringify` (`replay-engine.ts:242-246`), so equal ones with their keys in another
  order differ, although `diff.ts:5` "Replaces the broken JSON.stringify comparison":
  `deepEqual` and `deepDiff` are exported (`replay/src/index.ts:3`) and have no caller. A
  recording whose request or response has no data makes `replay()` throw between raising
  its flag and its `try` (`replay-engine.ts:190-226`), and every later replay is refused.
  A recorded 204, 205 or 304 cannot be served: `new Response()` refuses a body for it
  (`:334`), and the handler diverges. Failures of mongoose calls
  are not recorded. An ES module build has no `require`: `replay()`, the export of
  the command line (`index.ts:247`) and the database and uuid interceptors fail there.
- *Data.* "Production recordings MUST NOT contain sensitive data" (`redaction.ts:4`), but
  not all that is recorded passes `redactDeep`: Redis results
  (`interceptors/database.ts:214-218`), error messages of Postgres (`:105-107`), arguments
  and paths of fs calls (`fs.ts:119`, `:201-209`) and `req.originalUrl`
  (`http-incoming.ts:141`) are kept as they are. What passes is not always kept: a Date or
  a Map becomes `{}`, and an entry `__proto__` is lost (`redaction.ts:208-237`). A text file
  has no checksum, and one that was changed is imported as another session
  (`session-io.ts:75-107`). `deepEqual` overlooks differences below an object that lies in two places
  (`diff.ts:126`); `deepDiff` of cyclic arrays walks 2^50 paths; redaction marks
  objects that are merely shared as `[CIRCULAR]`.

## 5. What is proved

Each theorem holds for all constants that satisfy the named assumptions of the
modules (`SpillConstants`, `ClientConstants`, `StorageConstants`, ...), which TLC
evaluates in the runs. Besides the shape of the constants two assumptions matter:
`StaleIsFull` (the numbers of `server.ts:65` satisfy it) and `CounterSuffices` (no
node records so many events that its counter, of 2^53 - 2, overflows). An id draws its
random part from more than one value (`Randoms`; the code draws 80 bits). The
comparison looks deeper than a recording is (`DepthsFit`: 50 and 20 in the code), and no
ignored field has the name of an array's index (`DiffConstants`).

| Module | Theorems | Under |
| --- | --- | --- |
| `CollectorClientProofs` (spill buffer) | `SpillTypeCorrect`; `LinesStayBounded`; `AckedReadable` | every written line is counted (no append fails after its line) for `LinesStayBounded` |
| `CollectorClientProofs` (client) | `TypeCorrect`; `BreakerCorrect`; `NothingSilentlyDropped`; `NothingCopied`; `OrderIsStable`; `CustodyKept` | `NoLoss` (every process has a listener) for `NothingSilentlyDropped` and `CustodyKept` |
| `CollectorProofs` (store) | `TypeCorrect`; `FileKept`; `LogCapped`; `Readable`; `Findable` | |
| `CollectorProofs` (server) | `ServerTypeCorrect`; `DeliveredIsAlwaysServed`; `HandlersExcludeEachOther` | |
| `AdmissionProofs` | `AdmissionTypeCorrect`; `RateHolds`; `TimersEnd`; `BytesBounded` | `StaleIsFull` |
| `ServiceClocksProofs` | `ClocksTypeCorrect`; `DriftBounded`; `StampsAlwaysIncrease`; `RequestsAreOrdered`; `IdsAreOrdered` | `CounterSuffices` |
| `ProbeProofs` | `ProbeTypeCorrect`; `ErrorsAreRecorded`; `NewPathsAreClaimedOnce`; `RecordingsAreFramed`; `LogsAreBounded`; `NoErrorWithoutRequest` | |
| `ReplayProofs` | `ReplayTypeCorrect`; `FlagHeld`; `MocksAreGone`; `FollowedAreServed` | |
| `LicensingProofs` | `LicensingTypeCorrect`; `EventsAreLicensedOnce`; `QuotasAreKept`; `MapsStayBounded`; `OnlyIssuedLicensesUnlock`; `NobodyExceedsTheirTier` | |
| `ArchiveProofs` | `SecretsStayOut`; `NothingElseIsRedacted`; `FilesAreReadBack`; `EqualAnswersMatch`; `NothingPairsDifferent`; `DifferencesShow` | `DepthsFit` for `DifferencesShow` |

The arguments, by the inductive invariants:

- *No silent drop.* `NoSilentDrop` is inductive with the types: every
  step that takes a session out of buffer, batch or files puts it into another of
  them or changes its fate. The evictions of an append, with files that stay and files
  that go unread, are the hard case.
- *Copies and order.* `CopyInv` makes buffer, batch and files free of repetitions and
  disjoint for the sessions that no file that stayed has returned, and what is yet to be
  enqueued absent from all of them. It is inductive
  because every move takes from one place what it puts into another, and it is what
  makes positions unique: only therefore do cutting a batch off, putting it back and
  dropping its front keep the order (`OrderIsStable`, one lemma for each of them).
- *Custody.* `CustodyKept` is a refinement: `FateInv` says what the fate of a session
  tells of its place, and `FateMoves`, shown for each action, what a step may do to
  fates. A step then changes the custody of sessions the client held or that complete
  in it, which is `Next` of `SessionCustody`.
- *Storage.* `FileInv`: a corrupt file, in the directory or in its last flush, and a file
  on its way to quarantine belong to a session that has rotted; the file of a session
  whose directory was flushed is good, in the directory and in its last flush, from
  then on. `SyncDir` makes that true for every file at once, which is why it has to
  come between the rename and the answer. `CapInv`: who is logged or about to be is in
  `traceIndex`. `IndexInv`: what was acknowledged is in the log or `unlogged`, and what is
  in the log is in the maps.
- *Server.* `ServerInv` says that what a handler has passed is acknowledged by the
  store and that the probe waits for one request whose sessions are its batch. Every step
  of the server is a step of the store or none (a lemma), so the invariants of the
  store hold behind the server: delivered sessions are acknowledged, and acknowledged
  ones are readable and findable. That composition is the proof of
  `DeliveredIsAlwaysServed`. `WritingInv` ties each handler inside `store()` to a busy
  writer.
- *Rate.* `AdmissionInv` is `WithinRate` itself with the bounds of tokens and ages: a
  step of the clock adds to the right side at least what it adds to an allowance,
  and an evicted stale bucket had a full allowance by `StaleIsFull`.
- *Clocks.* `ClocksInv` bounds the counter by what headers bring and twice the
  stamps taken; the rest compares `now()` and `receive()` branch by branch.
  `IdsAreOrdered` rests on `IdsMade`: what `ulid()` has drawn last is the greatest of the
  ids of the latest event and its nested timestamp, whichever of the two was drawn last,
  so the next event, nested timestamp first, begins above both.
- *Probe.* `FrameInv` relates a request's recordings to its log: each is a beginning
  of the log, each later one is longer or ends with the marker, and a request that is
  not open has none. `RecordLog` is the lemma about `record()` behind it. `ClaimInv`
  says that a route claimed as new is known or the table full, which makes two claims
  of one route impossible before that.
- *Rings.* That no time occurs more often among the errors than among the requests is
  not inductive, for the two rings are pruned separately. `RingsInv` is: there is an
  injection that sends every error to a request of its time, and both rings rise, so
  what is pruned at the front is older than what stays.
- *Replay.* `ReplayInv`: at most one engine runs; what it saved are functions of the
  process and not mocks; so what it restores leaves no mock. A recording without data
  is never run, so the flag that it strands belongs to nobody.
- *Fidelity of a replay.* `TraceInv` is about the recording: if operations are awaited
  one by one, their results lie in the log in their order, each under its type, with
  nothing of that type between them but what is `Background`. `FollowInv` is about the
  engine: it has been served the results of the operations so far, and what is left
  of each queue are the results to come. `NextServed` joins the two: the first entry
  of the queue is the result of the next operation, whichever queue it is.
- *Licenses.* `CountingInv` holds each count of licenses against its counter and what
  the server forgot since (`Covered`); `UnlockingInv` says that a file that verifies
  carries a payload that was issued (`Bound`), through every branch of the loader.
- *Redaction.* `WalkInv`: every entry of the recording and every call still to be
  made but the root lies under an entry that looks into its object, and no two of them
  have one path. So a sensitive name above an entry is that of one object, and what
  the object decided when it made the call (`Hidden`, `Honest`) holds of the entry;
  every key of an object that was entered has an entry or a call, so that the end of
  the list is the end of the recording; a visited object is shown by an entry
  (`Shown`), so `[CIRCULAR]` never stands for something that is nowhere. `ReturnKeeps`
  proves that for any way to return; the cases of `walk()` are three instances of it.
- *Files.* `BinaryFile` is what damage leaves of a file: words that are no checksum but
  the one that was written, wherever it has come to lie. Where an accepted file ends its
  events there must be a checksum, and one of all words before it: their number gives
  its place, and they are the ones that were written. (That no other word passes for a checksum is the model
  of CRC-32: a collision is left out.)
- *Comparison.* `DiffInv`: if a relation pairs the two values and with every pair
  what lies under it, every call in the list is about one of its pairs or an ignored
  field, and nothing has been found. That does not depend on `seen` or on the depth:
  passing over objects cannot add differences.

- *Nothing overlooked.* `Equal` asks whether the largest relation that pairs only what
  is alike pairs the two roots. `Likeness` computes it by recursion over sets:
  `LikenessIsLargest` shows that the function is the union of all such relations, for
  of the sets where it were not, one that is smallest (strict inclusion between the
  subsets of a finite set is well-founded) would lead to a smaller. So it suffices to
  exhibit one such relation, and it is what the comparison looked into: `Walked` says
  that each call was made by one of `entered`, that all have different paths, and that
  under every key that counts what lies there is the same, was entered or is a call
  still to be made. What lets that survive `seen` is `NotBefore`: an object that lies in one
  place is reached by one call, so nothing is passed over that was not looked into
  from there. The premises are lemmas about the way of a value: a recording is a tree
  whose objects are known by their paths and no deeper than `MaxRedactDepth`
  (`RecordedIsTree`, from `WalkInv`), so is what is read from a file (`ParsedIsTree`),
  and nothing it is compared with refers to its root (`ChangedBranches`,
  `AliasedBranches`).

Only model-checked: the liveness properties `LeavesMemory`, `StoreEnds`, `RequestsEnd`,
`BodiesEnd` and `EventsEnd`, for ENABLED and fairness are beyond the prover. Every
invariant and every action property of the passing runs is stated by a theorem.

## 6. Not modelled, and why

- *Web UI, demo, landing page, deployment files, and the commands of the command
  line other than export and import.* They keep no state, interleave with nothing,
  or are not program logic.
- *GET handlers, health, metrics.* They read what `FileStorage` models; host, origin
  and token checks are one refusal in `CollectorServer`.
- *Names of spill files that collide or go backwards*, by two in one millisecond or a
  clock that is set back: eviction and drain would then take files in another order.
- *Two processes in one spill directory.* The code takes no lock that a property
  could be about.
- *Symbolic links, files above 64 MB, id syntax, paging.* Checks of one input that
  change no state.
- *The checksum, the signature and the encodings.* A file verifies or not; a ULID is
  its time and its random part; deflate is a text of several words.
- *Path patterns and custom redactors*, which no caller sets, and `redactHeaders`, a
  flat map.
- *Events other than the request and the response that lost their data*: the mocks then
  throw, and the handler diverges.
- *The timeline, the cursor (`next`, `peek`) and the sandbox of `withMocks()`*, which
  `replay()` does not use.
- *Response bodies* in `Probe` (their redaction is in `Redaction`), Stripe's checkout,
  and what Stripe does with a 500 beyond delivering again.
