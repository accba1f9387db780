# A TLA+ verification of jsync

jsync keeps two directory trees on two machines in step (`jsync watch` talking
to `jsyncd`) and sends one-shot transfers (`jsync share`). This directory models
the parts of it that are hard to test, checks them with TLC and proves some of
the results with TLAPS.

## The system

| part | code | state | operations |
|---|---|---|---|
| live bridge | `internal/syncfs/bridge.go`, `event.go` | two goroutines per node | `PublishChanges`/`publishOne`, `ReceiveChanges`/`applyEvent` |
| version vectors | `internal/syncfs/version.go` | `byPath` | `Bump`, `Reconcile`, `compareVectors` |
| echo guard | `internal/syncfs/echo.go` | `entries`, `renamed` | `MarkApplied/Removed/Renamed`, `IsEcho/IsEchoRemove/IsEchoRename` |
| initial reconciliation | `internal/syncfs/reconcile.go` | manifests | `ScanManifest`, `pushReconciled`, `drainUntilReconcileDone` |
| encryption | `internal/syncfs/encrypt.go`, `internal/crypto/ratchet` | two chains, each a counter and a key | bootstrap, `Encrypt`, `Decrypt` |
| file watcher | `internal/watch` | debounce timers, `dirFiles`, `fileDir` | `handleCreate/Write/Remove/Rename`, `loop` |
| events stream | `internal/transport/nats/stream.go` (NATS JetStream is external) | one ordered log, one durable consumer per node | publish, fetch one, ack |
| watch session | `internal/daemon/watch_session.go`, `cmd/jsync` `cmdWatch` | the two goroutines' life | set-up, run, end |
| handshake | `internal/handshake`, `transport/nats/handshake.go`, `cmdShare` | replay guard, sessions | challenge, verify, approve, retry |
| trusted keys | `internal/identity/authorized_clients.go`, `jsync keys` | `authorized_clients`, a copy in the daemon | load, authorize |
| share pipeline | `internal/pipeline` | chunk stream, pipe, sandbox | `PublishArchive`, `receiveLoop`, `ExtractArchive`, `CommitSandbox`, `AbortSandbox` |
| share receiver | `internal/daemon/receiver.go`, `resume.go` | sessions, `ResumeRegistry.entries` | `ReceiveSession`, `Park`, `Claim`, `Peek`, `Sweep` |
| prekeys | `internal/crypto/x3dh` | one-time prekeys, pending, `prekeys.json` | `Bundle`, `deriveResponder`, `Save`, `LoadStore` |
| daemon | `cmd/jsyncd/main.go` `run` | callbacks, receivers, save ticker | start, save, stop, drain |
| audit log | `internal/auditlog` | JSONL files | open, log, rotate |

A watch session begins with a handshake, in which the daemon hands out a prekey
and creates the stream. With `--encrypt` the two ends then exchange a bootstrap
and its acknowledgement. Each scans its tree, publishes the manifest, pushes
what the other lacks or has differently, says "done" and drains the stream until
it has read the peer's "done". Only then does it start its watcher. In the
watcher a backend turns what the operating system reports into raw events; one
loop filters them, keeps track of which files exist and debounces with a timer
per path.

On each node the watcher's loop hands debounced changes over an unbuffered
channel to the publisher goroutine; the receiver goroutine writes into the same
tree the watcher observes. The two share the disk, the `EchoGuard` and the
`VersionStore` under their own mutexes only: no lock spans a decision and the
effect it leads to. The nodes talk only through the session's stream, which
hands every event, a node's own included, to each node's consumer, one at a
time, in order, and again if an ack gets lost.

A share is another session. `Responder.Handle` starts the receiving goroutine
(`OnApproved`), then asks the `ResumeRegistry` what an earlier attempt left
(`Peek`) and tells the sender, whose walk skips those files. The receiver claims
the parked sandbox, or makes one, extracts the chunk stream into it through a
pipe and renames it onto the destination; if anything fails it parks the sandbox
again, or deletes it when the disk is full. Sessions share the registry, under
its mutex, and the destination directory, under nothing.

What is hard there: the order of the two goroutines' small steps, changes that
sit in the debounce window, marks that are never consumed, redelivery,
sessions of which only one half ends, and timers that expire while the loop is
busy; attempts that overlap, resume what is being parked, claimed or swept, and
fail between two system calls; requests delayed, repeated or never answered; a
daemon that restarts between a handshake and its transfer, or dies in the middle
of a save.
`PROJECT.json` lists each hazard with its line.

What makes each part correct:

* version vectors: nobody knows of a write that was not made; stream order never
  contradicts causal order; a conflict is noticed by both writers.
* receiver: a peer's write is decided once, at its first delivery.
* echo guard: what a node applies never comes back, and a genuine change is
  never taken for an echo.
* bridge: unpublished local content is not destroyed; when nothing is under way
  the trees are the same; changes do not bounce for ever.
* encryption: each write is opened once, in order.
* watcher: every lasting change is eventually reported; tracking agrees with the
  tree.
* reconciliation: the union of both trees, nothing destroyed; the two ends stay
  in step; nobody publishes a live change before both have pushed; nobody waits
  for ever for a peer that is there.
* handshake: a request is accepted once; success is the word of this attempt's
  receiver; the command ends.
* share: the bytes arrive in order and once, or the attempt is abandoned; what
  lands is everything that was sent or skipped; a sandbox has one owner; a whole
  copy of the destination is always on disk; every attempt ends.
* prekeys: a one-time prekey is used once; the session it was promised to finds
  it; a daemon that was stopped in order can start again.

## Modules

| module | what it is |
|---|---|
| `VersionVectors` | `compareVectors`, `Bump`, `Reconcile` as operators on total functions `Node -> Nat` (a missing map key reads as 0) |
| `LiveSync` | the live phase of a watch session: users, watcher, publisher, receiver, stream |
| `MCLiveSync` | instance for TLC |
| `LiveSyncProofs` | type correctness; convergence of the calm session, dropped echoes |
| `LiveSyncCausality` | causality, first deliveries, conflicts, the order of sealed writes, why a session ends |
| `Barrier` | what set-up promises: nobody watches before both ends are done |
| `Session` | a watch session from the approved handshake to its end, at both ends; implements `Barrier` |
| `MCSession`, `SessionProofs` | instance for TLC; type correctness, the refinement, staying in step, the union, agreement of versions |
| `Watcher` | backend, raw events, tracking, timers, hand-over |
| `MCWatcher`, `WatcherProofs` | trees for TLC; types, nothing forgotten, exact tracking, ignored paths |
| `Handshake` | `jsync share` and the daemon it addresses: clocks, network, replay guard, trust, sessions, retries |
| `MCHandshake`, `HandshakeProofs` | instance for TLC; replays, expiry, own success |
| `Prekeys` | the one-time prekeys and `prekeys.json` over several lives of a daemon |
| `PrekeysProofs` | its properties |
| `Transfer` | what a share promises about its bytes: in order, once each, complete only after all |
| `ChunkPipe` | one share from the archive to the extractor; implements `Transfer` |
| `ShareResume` | attempts at one destination: walk, sandbox, commit, registry; takes the bytes as `Transfer` promises them |
| `MCChunkPipe`, `MCShareResume` | instances for TLC |
| `ChunkPipeProofs` | type correctness, acknowledgements, gaps, and that `ChunkPipe` implements `Transfer` |
| `ShareResumeProofs` | type correctness, ownership of sandboxes, whole commits, the surviving copy, skipped files |

### LiveSync and the code

One action is one critical section: a mutex-protected call, a system call or a
stream operation. The publisher of node `n` goes `select` -> `took` ->
(`ReadFile`) `hashed` -> (`IsEcho`) `bump` -> (`Bump`) `publish` -> `select`;
the receiver goes `fetch` -> `reconcile` -> `apply`/`conflict`/`ack`, and each
write or removal to disk is a step apart from the mark that follows it.
`Truncate` and `ApplyWrite` are the two halves of `os.WriteFile`, so a reader can
see `Torn` content. `Observe` is the watcher: any change of the tree restarts the
timer of its key (`Scheduled`), and `Fire` is the timer's expiry and the
hand-over on the unbuffered channel. A rename is one correlated change on a
`Renamer` (Windows) node and a removal plus a creation elsewhere.
`EndSession` follows `WatchSession`'s `select`: in `jsync` the process exits
with both goroutines, in `jsyncd` (`Daemon`) only the failed goroutine is gone. `Session` comes before
it and `Watcher` inside it: `Observe` and `Fire` here are `Watcher`'s loop seen
from the publisher.
`PublishFails`, `ReceiverFails` (a fetch or an ack) and `ApplyFails` (a full disk,
a locked file) are the errors, `AckLost` the lost acks. A failed apply may leave a
file torn; the vector was merged before it.

Abstractions, and why they are safe:

* Content is a value; a hash is its content (`ContentHash` is taken as
  injective). Users write a file in one step; half-written files come from the
  receiver only. A user's write changes the content: saving the same content again
  is left out.
* There is one timer per key, and it does not expire while the receiver is
  between the system call and the mark (a few microseconds against 250 ms),
  except for files in `FreshDir`, which `handleCreate` reports at once. Timers
  that expired but were not yet handed over are `Watcher`'s.
* Directories, ignore rules, malformed events and the overflow event are left
  out. Users do not edit conflict files; a conflict on a conflict file would nest
  names and does not occur within the bounds.
* The audit log keeps the verdict on each incoming write only.
* The stream does not expire messages (`MaxAge`).

### ChunkPipe and the code

Three goroutines: `PublishArchive` on the sender (`Publish`), `receiveLoop`
(`Fetch` -> `Take` -> `Ack`), and `ReceiveSession` itself, which extracts
(`ExtractEnds`, `ExtractSeesError`, `ExtractGivesUp`) and then waits for the
loop (`Join`). `loop` is the loop's program counter. The stream's consumer has
one chunk in flight (`MaxAckPending: 1`) and offers it again once `AckWait` has
passed (`due`); an acknowledgement may be lost, and `Expire` is `MaxAge`.

* A chunk is its number. The pipe is a rendezvous: a write returns when the
  reader has taken all of it. The reader may well be in the middle of a chunk when
  it gives up; that is `ExtractGivesUp` before `Take`.
* The extractor ends well only when the pipe is at its end: the last tar read
  also exhausts the gzip stream, and `gzip.Reader` then looks for a next member.
  An archive whose tar size is a multiple of the inflater's 32 KiB window may leave
  the gzip trailer unread; that case is not modelled.
* Encryption is left to `LiveSync`: a chunk is opened once, after its number was
  compared.

### ShareResume and the code

One action is one system call on a directory, one call on the registry, or
one file visited or written. `phase[s]` is where `ReceiveSession` is; the
phases of `Committing` are the calls of `CommitSandbox` in order. `tree[b]` is
the sandbox named after session `b`, `aside[b]` the tree that its commit moved
away. `handling` is the one request `Handle` is answering. `seen`, `stream` and
`landed` are the sender's walk and what came of it, for the properties.

* A file's content is a number, its hash is its content; `Partial` is a file
  truncated and not written whole. Directories and symlinks are left out.
* The destination path is the same for all; peers share it, not the registry
  entry.
* `Circumstance` says which of four things may happen: attempts that overlap,
  a grace period that ends between `Peek` and `Claim` ("expiry"), a second cut
  while a file already listed as complete is being rewritten ("recut"), and a
  clean-up that fails after the new tree has landed ("cleanup").
  `SkippedLands` fails with any single one of them, so it is checked
  (`share_calm`) and proved without them. All other properties are checked and
  proved under all four.

How each of them breaks `SkippedLands`: the old tree cannot be removed after the
new one has landed, `CommitSandbox` fails, and the sandbox parked then is gone
("cleanup"); two attempts are told of the same sandbox and one claims it
("overlap": `cmdShare` retries 3 s after its own
failure while the receiver waits 30 s for the next chunk, so attempts do
overlap); the entry expires after it was reported ("expiry"); `completed` keeps
a file listed while it is rewritten, so a file cut then is parked as complete
("recut").

### Session and the code

One action is one step of `WatchSession` or `cmdWatch`: a scan, a publish, one
event fetched and handled. `phase[n]` goes through `SetUp` in the order of the
code; `Publish`, `Ack`, `Nak` are the stream, and a publish that fails may have
been stored. When one direction of `jsyncd`'s live session fails, the goroutine of
the other one goes on: `publisherOnly`, `receiverOnly`. `AwaitControl` is `awaitControl` with its refusal of any other
message, `Push` is `pushReconciled` with its silent skip of a vanished file,
`Drain` is `drainUntilReconcileDone`. What arrives live after it goes through
`ReceiveLive`, which ends the session on a manifest or a "done".

* The live phase is one step per change; its interleavings are `LiveSync`'s.
* A manifest is a map from files to contents; a scan is one step. A failed scan
  is `Fails`; so is a failed apply, whose half-written file is `LiveSync`'s.
* Both bootstrap messages are control events; the keys they derive are the
  chains' common first sequence number.
* The bootstrap's deadline is certain once the peer is gone and counts as a
  failure before (a slow peer). `Reconcile` has no deadline, so has the model.

`Barrier` is the promise in three variables: who has said "done", who watches,
which live changes were published. A session that ends stops watching, perhaps in
the middle of a last change (`Leave`).

### Watcher and the code

`raw` is what a backend has reported and the loop has not read; `RenameEvents`
is the difference between the two backends. `HandleCreate`, `HandleWrite`,
`HandleRemove`, `HandleRename` are the handlers, `Schedule` is `schedule` with
`time.Timer.Stop` coming too late for a timer blocked at `fire <-`, `Fire` is the
loop's receive on `fire` with its `delete(pending, key)`. `sending` is what the
loop blocks on; `Take` is `publishOne`, which reads the file then. `told` is the
tree of a peer that applies what it is told and nothing else.

* Directories are direct children of the root; a directory appears or goes with
  its files in one event. Content is the number of the edit that wrote it.
* Timers expire in the order they were set; once expired they reach the loop in
  any order. `running` is the set of those that have not expired, each with the
  number of times others were set since (`age`); `blocked` are those that have.
* Rules are about files: a directory that is ignored itself is never watched and
  not modelled.
* Cancellation is left out: it drops everything that is pending.

The code has four gaps in which a change is lost or told wrongly. A step into one sets
`spoilt`, and `Carried`, `TracksWhatExists` and `Reported` promise nothing from
there on:

1. a timer that expired while the loop was blocked is replaced: its old change is
   told all the same, and `pending` loses the new timer, which can then no longer
   be stopped;
2. a directory comes back while the removal of a file in it is pending:
   `handleCreate` announces the file past the timers, and the removal is told
   last;
3. on Windows, a rename of something not told yet, or followed by another change
   before it is told (`watcher_save` is one such case), or of a directory, whose files stay tracked
   under their old names;
4. events are dropped: `publishOne` drops the rescan, and Linux reports none.

`IgnoredIsNeverTold` holds in the gaps too, unless a directory is renamed on
Windows to a name that brings a file in it under a rule (known limits).

### Handshake and the code

`Handle` is `Responder.Handle`: `VerifyRequest` (skew, then the guard, which
drops what is old before it looks, then the ACL), the roots, `Sessions.Create`
and `OnApproved`. `Deliver` and `Replay` run it on a request of the wire; nothing
makes the network deliver. The command is `Ask`, `TimesOut`, `TakeReply`,
`Publish`, `TakeStatus` and `Silence`, with `Fails` for `cmdShare`'s retry and
`FailsFor` for its `fatalShareError`. `Stop` and `Start` are the daemon: memory
goes, the streams and `authorized_clients` stay.

* Time is in ticks, one clock and an `offset` per client. A nonce is the client
  and its attempt: fresh nonces do not collide.
* Signatures are taken as unforgeable: a request is from whom it says.
* A response may be lost: the attempt then hears the answer to a repeated
  request, or times out.
* A transfer is its outcome. `Silence` may come at any time after the publish:
  `--transfer-timeout` is not related to the ticks.
* The session table's TTL is left out: nothing reads the table.

### Prekeys and the code

`Approve` and `Respond` are the two halves of `Responder.Handle` around
`OnApproved`; `Take` is the part of `Bundle` that moves a key to `pending`,
`Derive` is `deriveResponder`. `Save` is `BeginSave` (encode under the lock),
`Truncate` (open) and `EndSave` (write). `SaveFails` is its error, which is only
logged: before `Truncate` (`MkdirAll`, the open) the old file stays whole, after
it the file is cut. `Stop` is the last save's beginning, `Exit` the shutdown's
end, `Kill` the process dying anywhere, `Start` is `LoadStore`.

* A key is its id. Signed prekeys and the first boot's generation are left out;
  `ReplenishOneTimePreKeys` and `RotateSignedPreKey` are never called.
* A file cut short does not decode.

## Runs

| run | question | result |
|---|---|---|
| `live_races` | one file, both users write and delete at will, encrypted or not, one lost ack, one failed operation: are writes ordered, conflicts mutual, first deliveries decisive, is each encrypted write opened once, does only a redelivery end a session by itself, and does the system come to rest? | holds |
| `live_calm` | two files on two Windows nodes, writes, removals, renames, each once the last has settled: do the trees converge, are all echoes dropped, does a rename always find its source? | holds |
| `live_overwrite` | does an incoming write ever destroy an unpublished local edit? | `NoSilentOverwrite` fails |
| `session_setup` | any two trees of one file, encrypted or not, an edit at any time from the scan on, a lost ack, a failure anywhere: is set-up a barrier, do the ends stay in step, is the union reached, do trees and versions agree, does set-up end? | holds |
| `watcher` | three changes on either backend, two directories, an ignored file: is what the peer lacks on its way, does tracking agree with the tree, is it told in the end? | holds |
| `watcher_save` | can the peer mirror every rename it is told? | `RenamesApply` fails |
| `handshake` | one command with a retry, a clock behind, in step or ahead, two mishaps (a repeated request, a failing receiver, a restart, ...): are replays turned away, is success this attempt's own, does the command end? | holds |
| `prekeys` | three handshakes, two keys, three lives of the daemon, one failed save, kills: does a key serve once unless a kill, a failed last save or a late answer kept it from being recorded, is it there when needed, can the next daemon start? | holds |
| `chunk_pipe` | four chunks, two lost acks, expiry and failures anywhere: does the pipeline implement `Transfer`, do acks follow the reader, are gaps always losses, does it end? | holds |
| `chunk_stuck` | does `ReceiveSession` always return? | `AlwaysEnds` fails |
| `share_races` | three attempts, two peers, one file, all circumstances, two faults, one restart: one owner per sandbox, whole commits, a copy always on disk? | holds |
| `share_calm` | three attempts in turn, two files, an edit and a failed call: is every skipped file in the tree that lands? | holds |

Bounds. Two nodes are what a session has. One file is enough for the races,
since versions, marks and timers are kept per path; two are needed for renames.
Two edits make a conflict, a third (and a fourth, `live_calm`) is what a stale
mark needs to do harm. `MaxLog` (8) is never reached. One `Stamp` makes every
pair of conflict files of one origin collide, the worst case.

`session_setup`: a path of the difference is pushed and applied by itself, so
one file meets every case (absent, the same, different on each side). One lost
ack redelivers any one message to any later phase; one failure ends either side
anywhere. The two sides' first contents are symmetric, so the initiator has one
of them at most (`MCBase`).

`watcher`: two directories with a file of one name are what a directory's
rename and return need; three changes make one that waits, one that expires and
one that arrives. `watcher_save` needs the two files of a save.

`handshake`: a skew of one tick and a timeout of two let a request age out, be
repeated inside and outside the window, and be overtaken by its retry; offsets
of -1, 0, 1 are the two edges of the window and its middle. `MaxTime` bounds the
clock, and stands for every later time where a timeout is due.

`prekeys`: two keys and three sessions exhaust the pool; three lives are one
that serves, one that serves again, and one between them. One failed save meets
the ticker's or the last one, before or after the cut.

Four chunks and two lost acks let a redelivery meet each neighbour of a chunk;
more chunks repeat the loop. Three attempts are a claim, a claim of what was
re-parked, and a rival; two peers make two registry entries for one destination.
One file is enough to race for a sandbox, two (`share_calm`) to have one kept and one
sent. Two faults are a failed commit and a failed retry of it. `MaxEdits`,
`MaxFaults`, `MaxRestarts`, `MaxLostAcks`, `MaxFailures`, `MaxMishaps`,
`MaxLives` bound nothing else.

Fairness. In `LiveSync` the publisher and the receiver of each node, in
`Session` each node's set-up and live goroutines (`Step`), in `Watcher` the
loop, the timers and the consumer, in `Handshake` the command and the clock are
weakly fair: goroutines that can run do, and timers fire. In `Session` the
bootstrap's deadline is fair too. In `ChunkPipe` the receiver's two goroutines
run when they can, `FetchTimesOut` is a timer, and `Fetch` is fair as a whole:
the client keeps asking until the timeout. Nothing is assumed of users,
failures, lost acks, the network, the daemon `Handshake` talks to, the sender of
`ChunkPipe`, `AckWait` or `MaxAge`. `ShareResume` and `Prekeys` state no
liveness.

`CHECK_DEADLOCK FALSE` everywhere: users' and faults' budgets run out, sessions
and commands end, and the systems then rest.

### The disagreements

* `live_overwrite`: the version of a local edit is bumped only when it is
  published, 250 ms and a few steps later; until then an incoming write looks
  safe. `src/README.md:69-70` promises conflict files "instead of overwriting".
* `chunk_stuck`: `ReceiveSession` waits for the receive loop (`receiver.go:148`)
  before its deferred `pr.Close()` (145) can run. If the extractor returned an
  error with chunks still to come, the loop is in `pw.Write` and nobody reads:
  both wait for ever, no status is published, nothing is parked. Lines 139-144 say
  the loop "always exits". The tests' corrupt archives fit in one read.
* `watcher_save`: on Windows an editor's atomic save is told as a write of the
  temporary file and its rename, under two debounce keys. The file is gone when
  the write is read, so `publishOne` drops it (`bridge.go:81-84`: the removal "is
  about to" cover it), and the rename then names a file the peer never had:
  `os.Rename` fails there and ends the peer's session. `watcher.go:44-46` says
  such a save becomes "one event per path".

### Known limits

Properties the code has only under the restrictions of a run, or not at all
(these are stated in the modules and checked by no run). TLC finds the
counterexample when the property is checked with the given change to a run's
configuration.

| property | run and change | what happens |
|---|---|---|
| `LiveSync!AppliedIsNotRepublished` | `live_races`, `FreshDir = {p}`, `Editor = {n1}` | the undebounced catch-up for a new directory reads a file before `MarkApplied`, even between truncation and content, and publishes it back as a newer version |
| `LiveSync!Converged` | `live_calm`, `Renamer = {n1}` | a rename published by Windows is seen on Linux as a removal and a creation, which `MarkRenamed` does not cover; both are published back, and the mark of the no-op removal swallows the next genuine one |
| `Session!Converged` | `session_setup`, `Calm = TRUE`, `MaxEdits = 2`, no lost acks or failures | the drain marks what it writes although no watcher runs: the mark stays and swallows a later edit back to that content |
| `Watcher!IgnoredIsNeverTold` | `watcher`, `Path <- MCRulePath`, `Ignored <- MCRule` | on Windows `handleRename` looks up the two names of a renamed directory, not the files in it: a file that a rule such as `/e/x` ignores under its new name stays on the peer under that name, although of what is "moved into an ignored subtree" the remote side "should forget it" (`watcher.go:514-515`). The built-in patterns match a name wherever it is and cannot do this |
| `ShareResume!SkippedLands` | `share_calm`, `Circumstance = {"cleanup"}` (or any other one) | see `ShareResume` above |
| `ShareResume!NoPartialLands` | `share_calm` | a file cut short stays in the parked sandbox; if the source no longer has it, nothing overwrites it and it lands |
| `Prekeys!KeyServedTwiceOnlyByCrash` | `prekeys`, `MaxFaults = 0` | `Unsubscribe` does not wait for a callback: a handshake answered after the last save (`main.go:342`) hands out a key that the next life hands out again, although only "a crash (not a graceful shutdown, which always saves)" should do that (`main.go:41-45`). With `MaxFaults = 1` a last save that failed does the same |
| `Handshake!TrustedIsAccepted` | `handshake` | a key authorized while the daemon runs is refused until it restarts, although the quick start authorizes after starting |

Seen while modelling, and stated by no property:

* `Reconcile` has no deadline: a side whose peer failed waits for ever.
* A daemon killed in the middle of a save, or whose last write failed, does not
  start again until `prekeys.json` is removed.
* A last save that fails before it cuts the file leaves the old one: the next life
  hands out the keys again that it lists (`Prekeys`, `unsaved`).
* A lost ack of a control message brings it back to a phase that has no place for
  it, and the session ends.
* A request delayed past the skew but not past the caller's timeout is answered with
  a rejection, which is fatal: the command does not use its retries.
* Two `jsync keys authorize` at once lose one of the keys.
* `version.go:95-97` says that an exact match is safe; the code drops it, which
  is what redelivery needs.

## Proofs

`LiveSyncProofs!TypeCorrect` shows `Spec => []TypeOK` for any finite or infinite
set of nodes, files and contents, under `ConstantsOK` only. `TypeOK` includes
that a receiver at work holds an unacknowledged event (`InHand`) whose Op fits
its step, which `applyEvent` relies on.

Two theorems say that the trees are the same whenever nothing is under way
(`Converged`). `CalmConverges` is about two nodes that correlate renames
(Windows). Its invariant `CalmInv` says how far the one change under way is
(`OneChange`): everything is at rest (`AtRest`); its author's watcher or
publisher has it (`Telling`); it is stamped, sealed and about to be stored
(`Sending`); or it is the last event of the stream (`Heard`) and the other node
has not read it, is halfway through applying it, or waits for its own report of
it with the mark that report will match (`Hears`). So an update is never
concurrent with the receiver's vector, always opens, and a rename always finds
its source. `CalmEchoesDropped` reads off the same invariant that the stream
is no longer than the number of user actions.

`CalmConvergesUncorrelated` is about two nodes that see a rename as a removal and
a creation (Linux). Two changes are then under way at once, told in either
order, and one may be read while the echo of the other is still pending: there is
no one phase. `Batch` says for each file by itself whether the other
node's disk shows what the author did (`due`, `Trees`), that a due file is either
still to be told or in the stream (`DueIsHeld`), each once (`Apart`, `Streamed`),
and that the mark of each applied file is the one its report will match
(`Echoing`). At most one file of the batch is written, so that one version
(`Knowledge`) and one sealed number are new to the other node. `AuthorReports`, `AuthorBumps`,
`AuthorPublishes`, `EchoDrops` and the lemmas named after the receiver's
steps are one per step. TLC agrees on `live_calm`'s files with
`Renamer = {}` and three edits.

Hypotheses of all three: users wait (`Calm`; without, `NoSilentOverwrite`
fails), both nodes are of one kind (`Renamer = {n1}` fails, see the known limits), no
acknowledgement is lost (`MaxLostAcks = 0`: a redelivered removal does nothing and leaves
a mark behind), no directory is created together with a file (`FreshDir = {}`: its files
are reported before they are marked). Failures are allowed for convergence: a
goroutine that failed has returned for good and the session never settles again
(`Returned`). `CalmEchoesDropped` is about sessions in which nothing fails.

`LiveSyncCausality` proves `KnowledgeCausal` (which no run checks) and `StreamCausal`. `LogIsCausal` is
not inductive: it needs to know where vectors come from. `CausalInv` adds that
what is known of another node's writes has been published
(`OnlyPublishedIsKnown`), that whatever an event knows the stream carries
(`StreamIsClosed`), that a write about to be published is newer than all its
author's events in the stream (`NextWriteIsNew`) and that nodes publish in
their own name. Every step is then one of four kinds: it touches no
vector (`Quiet`), stamps a write (`Bump`), appends an event (`Stored`) or
merges one (`Reconcile`); one lemma each. The crucial case is `Stored`: the new event's
own counter exceeds everything the stream knows of its author.

On top of it, `DeliveryInv` speaks of what receivers make of the stream. A write
a node has not decided is news to it (`NewsIsNew`: it cannot have learnt of it
from anybody else, or the stream would hold an effect before its cause), what it has
decided it knows (`DecidedIsKnown`), and its audit log has a first verdict for
everything behind it (`VerdictsInOrder`). So the first delivery of a write is
never stale and every later one is: `FirstDeliveryIsDecisive`. A write that a node applied is concurrent with
none of the node's own, stamped before or after (`AppliedIsComparable`):
`ConflictsMutual`.
`OpenedInv` gives `OpenedInSealedOrder`: the receiving chain only moves forward,
and every verdict is about a number behind it.

`EndsForAReason` needs the two chains in step: `ChainInv` says that a node's
writes reach the stream in the order it sealed them (`SealedInOrder`), and that
what lies before the peer's receiver is exactly the numbers its chain has still
to open (`NothingIsMissing`). It assumes two nodes, which is what a session has
(with a third, one chain would have to open two nodes' writes), and no `Renamer`:
a rename whose source the peer no longer has ends the session with nobody's
failure. `live_calm` checks it with renames, for users who wait.

`SessionProofs` shows that `Session` implements `Barrier`, for any files and
budgets. `BarrierInv` says what a node's phase tells of the stream
(`DoneInStep`: a node in front of its "done" has not said it, one behind it has,
one that watches has read its peer's). Whatever a step does, it appends at most
one event, and `OneMoreEvent` says what that does to "who has said done" and to
the set of live changes. The refinement maps a publish of "done" to `Tell`, the
end of the drain to `Enter`, a live publish to `Change`, an end to `Leave`.
`LiveChangesWait` is the consequence the drain relies on: the live changes in
the stream come after both "done"s.

`NeverLosesStep`: `StepInv` reads a node's phase off what it has said and read
(`SaidSoFar`, `ReadSoFar`), orders each author's events in the stream
(`InOrder`) and keeps the chains in step (`ChainsMeet`), as long as nothing failed
and no acknowledgement was lost. Then the next event a node meets is one its phase has a
place for, and opens (`Fits`). `ReconciliationIsUnion`: `UnionInv` follows every
path of the difference from the scan over the push to the disk it lands on;
`EventKept` says of each event in the stream what it can only be while nobody
edits, `ReadKept` and `LiveKept` what a node that read its peer's "done" has on
disk. It holds through failures and redeliveries, since the property is about
nodes that both get to watch. `ReconciliationConverges` has the hypothesis
`MaxEdits = 0`: `Converged` speaks of later edits too, and what becomes of those is
`LiveSync`'s; with edits it is checked by `session_setup` (and has a limit, above).
The users' conflict files are not paths of the trees (`NamesApart`).

`VectorsAgree` has no hypothesis: users may edit at any time, anything may fail and
be redelivered. `CountInv` says that, until a session is over, a counter
stored anywhere was published by its machine (`OnlyPublished`), and a node has counted
every write it made or has acknowledged (`MetIsCounted`). At rest both have met
the whole stream, so each knows exactly what the other does.

`WatcherProofs` proves all invariants of `Watcher`, for any tree, rules and
number of changes. `SoundInv` is types and what a change may name (`ChangeOK`:
never an ignored path). `GapFree` holds until a change falls into one of the gaps.
`Carried` alone is not inductive; taking a change away from what is on its way
must not take away the last of it:

* a change in hand may be a removal of a file that is back: then an arrival of it
  is still to be read (`LastIsArrival`), since each event of a file that exists
  and says it left is followed by one that says it came;
* a removal is only told of what is tracked: so what the peer has is tracked, or its
  removal is on its way (`KnowsTold`), and what is tracked exists or its departure
  has been reported (`KnowsGone`);
* `pending` must map each key to its one timer, or a replaced one would fire last
  (`Orderly`);
* a rename moves what the peer has, so nothing else may be under way, and the
  trees differ in its two names only (`Alone`, `Midway`).

`TrackingIsExact` is `KnowsTold` and `KnowsGone` at rest. `HiddenStaysHidden`
assumes of the rules that a directory's name does not decide whether a file in it is
ignored (`RulesFollowNames`), and only if the Windows backend is among those
considered (`PairsOnWindows`); the known limits say why.

`HandshakeProofs` shows what the guard promises. The property is about the past,
the guard about the present: `Remembered` says that an approved request's nonce is
still there, recorded no earlier than the approval, or more than the skew has
passed; `Dated` keeps what was checked at the approval. Then a second approval
in the same life needs a timestamp that is still fresh more than a skew later,
hence one that was ahead of the daemon's clock. That exception is real: a request
of a clock that is ahead stays fresh for longer than the guard remembers it.
`OwnReply` and `OwnSession` carry the session from the answer to the status.

`PrekeysProofs` proves all three properties of `prekeys`. A key the file or the
pool still has was served, if ever, in an earlier life with an excuse: a kill, a
failed save on shutdown, or an answer during shutdown (`ReturnOK`). A key recorded
as gone is in neither, nor in what is about to be written (`RecordOK`). A promised
key is in `pending` until it is consumed (`PoolOK`), and `TornOK` says who cut the
file short. Type
correctness is proved and not checked by the run; its properties fail if it
does.

`ChunkPipeProofs` shows that `ChunkPipe` implements `Transfer` for any number of
chunks. `PipeInv` ties the extractor's count to the loop's position
(`LoopInStep`), says in which order the goroutines return (`ReturnsInOrder`) and
what the server can still deliver (`ServerInStep`: without a lost ack nothing
below `wantSeq` is left in the stream). The refinement then is a case per
action: `Take` is `HandOver`, `Join` is `Complete` or `Abandon`, the rest
stutter.

`ShareResumeProofs` shows `TypeOK`, `OneOwner` and `ArchivedLands` for any
number of peers, sessions and files and any `Circumstance`. Types and ownership
need each other: a write is well typed only because the sandbox is still there,
which holds because nobody else owns it. `SafeInv` adds that a session which has not claimed
yet owns an unused sandbox (`FreshBoxes`), that a claimed sandbox stays on disk
until it lands (`Sandboxes`) and where the extractor is (`InArchive`).
`ArchInv` adds that the entries of an archive are different files (`WalkedOnce`),
so writing one leaves the others as they are (`Extracted`). The assumptions are those
`ShareResume` names (`BoundsOK`, `Distinct`, `NoEntryOK`).

`DestinationSurvives` is about steps: while there is no destination, one of the
trees put aside must be out of reach of every `RemoveAll` that is due
(`Recoverable`); `OneOwner` is what keeps two commits from clearing each other's.
`SkippedFilesLand` needs that what the response listed stays true of the sandbox,
from the parked entry (`EntriesAreTrue`) over the answer (`PromisesKept`) to the
session that claims it (`ListsAreTrue`), and that the sender skips nothing else
(`SkipsAreListed`). Each of the four circumstances breaks one of these, so the
theorem has the hypothesis `Circumstance = {}`.

Each module's other assumptions are its named `ASSUME` (`SessionAssumption`,
`NamesApart`, `HandshakeAssumption`, `PrekeysAssumption`, `WatcherAssumption`):
the two ends are different, files, conflict files and directories have different
names, bounds are natural numbers.

Model-checked only: liveness, which is beyond the prover (`ComesToRest`,
`EndsUnlessGivenUp`, `SetUpEnds`, `CommandEnds`, `Reported`), and `Session`'s
`Converged` with users who edit.

## Plan

Done: live phase, set-up, watcher, handshake, prekeys, share pipeline and resume,
each with its run; proofs for each of them. Next, in this order:

1. Proofs: `Session`'s `Converged` for a single edit.
2. `Watcher`: nested directories and cancellation.
3. The audit log's files and their rotation; leaked sandboxes (`Claim` of an
   expired entry); two watch sessions over one root.

## Not modelled

Configuration, identity and the wizard parse, prompt and write files, one after
the other in one process. Ignore rules are matched by a library without state;
the watcher's model takes the ignored paths as given. Progress and audit output
is formatting. The NATS server is external: its streams, consumers and
request-reply are modelled as the code uses them, without expiry in the events
stream. The cryptography is taken as sound: a message opens with the right
sequence number and key and not otherwise.
