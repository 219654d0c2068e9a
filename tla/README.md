# Verification of open-apollo

TLA+ models of the parts of open-apollo whose correctness depends on the order
in which things happen, model-checked with TLC on small instances, and theorems
about them checked by TLAPS for every value of their constants.

open-apollo drives Universal Audio Apollo interfaces on Linux. A kernel driver
(`src/driver`, C) owns the hardware; a mixer daemon (`src/mixer-engine`,
Python) keeps a tree of properties, answers consoles over TCP and turns
property changes into device writes; a console (`src/console-rs`, Rust) shows
the tree and edits it; a set-up wizard (`oa-setup`, in the same workspace)
installs all of it.

`PROJECT.json` lists the components, the runs, which definition models which
lines, the seeded fault that breaks each property, the hazards and the theorems.

## 1. Inventory

| component | state | operations | talks to |
|---|---|---|---|
| connection task, `ua-engine/connection.rs` | connection state, generation, pending requests, the tree load, read-only gate | send, request, read_post, set_allow_writes, close; connect, ingest, expire, back off | owner by an mpsc channel, `Shared` atomics and reply channels; daemon by TCP |
| store and writer, `store.rs`, `writer.rs` | shown tree, echo holds, re-reads, refreshes, pending writes, gestures | set, commit, drain | network task by an update channel and reply channels |
| helper client, `helper.rs` | the helper's tree as last read, what is subscribed, the root and interval requests in hand | connect, disconnect, set, drain, poll | a connection task of its own; the mixer helper |
| memory ledger, `ua_resource_pool.c` | per pool a list of extents; holds; scratch sizes | reserve, reserve batch, release, set scratch, usage, invalidate | plug-in host, under one lock |
| event channel, `ua_event.c` | per file a ring of events and a lost count; offline flag; last report per error class | post, count error, read, poll, open, release, offline | interrupts and service loop on one side, the daemon's reader on the other |
| DSP transactions, `ua_dsp_xact.c` | per transaction a state and two ring references; one reply waiter; epoch | build, map, publish, poll, wait, resync, quarantine, fini | command and reply rings of each DSP |
| plug-in host, instances, strips, `ua_plugin_*.c`, `ua_strips.c` | instances, placement, quarantine | load, unload, place, upload | ledger, transactions |
| audio, rings, registers, `ua_core.c`, `ua_audio.c`, `ua_dsp.c` | hardware registers, PCM positions | probe, remove, interrupt, PCM operations | ALSA, hardware |
| state tree and clients, `state_tree.py`, `ua_mixer_daemon.py` | properties, subscribers, clients, the queue behind a plug-in load | get, set, subscribe, push, read-back | consoles, hardware |
| undo history, `console_history.py` | at most 50 steps, position, one open group per client | record, bracket, move, disconnect | state tree |
| plug-in transactions, `plugin_transactions.py`, `plugin_publication.py` | busy flag, leases, quarantine latch | load, unload, control | the backend, on a worker thread; state tree, on the loop |
| native plug-in backend, `plugin_native.py`, `plugin_driver.py` | leases, replacements under way, what each parameter was last set to, validity of the session | prepare, activate, rollback, finalize, retire, controls, invalidate | driver |
| set-up wizard, `oa-setup` | step statuses, selection, the install under way and its outcome, the Console's build, the restart flag | scan, install, build, launch, navigate; a frame that takes what the jobs sent | the privileged `setup-root.sh` through reader threads, scan threads, the user |
| event consumer, `events.py` | - | poll, read until empty | event channel |
| the rest: other UI widgets, gfx, codec, metering, presets, sessions, emulator, scripts | data, files, pixels | | |

What is hard, and what would be correct:

* **Connection.** Two threads; the owner's calls are not atomic: `send` reads
  the state, stamps the generation and enqueues while the network thread may
  lose and replace the session between any two of these. Correct: nothing is
  replayed into a later session; a shut gate stops writes already on their way
  to the thread; every request is in one place and gets exactly one answer; the
  tree load counts what is pending; `close` returns.
* **Store.** The user's edit shows at once and hides pushes for a while; tree,
  node and value replies travel beside the push stream and are read in the UI
  thread's own time. Correct: a held control does not jump; at rest the console
  shows what the engine holds, and where it does not, only for a reason that can
  be named; rest is reached.
* **Helper client.** Pushes and connection news come on one channel, replies on
  others, and a node that appears is not pushed at all. Correct: on every new
  connection the view is read and subscribed anew, no answer of an earlier one
  is put over it, and it converges on the helper's values.
* **Ledger.** First fit, splitting, two-sided merging, shared extents, batches
  rolled back, a scratch area that grows into the terminal extent. Correct: the
  list tiles the pool, free neighbours are merged, references are holds, a
  failed batch leaves no trace, a lease stays where it is, and usage tells the
  truth.
* **Event channel.** A ring that loses its oldest event, read in batches with
  the lock released between them, and a removal that runs beside it all.
  Correct: every gap is reported where it is; the end comes after everything
  before it; nobody sleeps through an event; at most one report per error class
  per second and none swallowed.
* **DSP transactions.** Rings a device consumes at its own pace, a single
  reply waiter, a resync that abandons entries, epochs, and buffers that must
  outlive whatever the device may still write. Correct: a buffer is freed only
  when the device is past it; a stale transaction is never published; waiters
  are counted back.
* **Daemon: undo, transactions, waiting sets.** Several clients at once, each
  with a gesture; device operations that succeed, fail, or end unconfirmed, on
  one thread while another hears that the device has dropped everything; a queue
  of sets behind a load. Correct: a transaction does all or nothing, or is known
  to have done neither; the tree shows what the DSP runs; what is unresolved is
  never forgotten; undo restores what a gesture changed; the waiting sets run in
  order and none is lost.
* **Set-up wizard.** A script that may fail in any section, its output late, a
  second install over the remains of the first, scans that come back during
  either. Correct: what it says of the computer is true, and an install that
  ends well restarts the daemon.

The hazards, each at its line, are in `PROJECT.json`.

## 2. The plan

Done, in the order of weight for a user: the console must show the truth and
never repeat a command (`Connection`, `ClientStore`, `HelperStore`), the driver
must never lose or double-allocate DSP memory (`ResourcePool`, implementing
`PoolLedger`) nor free what the device may still write (`DspXact`), the daemon
must hear everything (`EventChannel`), take what its clients ask in order
(`MixerSets`) and say truly which plug-ins run (`NativeHosting`), and an install
must end as it says (`SetupWizard`).

Next:

1. `plugin_native_chain.py`, the backend that replaces the plug-ins of a strip
   together, under the same coordinator as `NativeHosting`; then the restoring of
   saved inserts when hosting comes back.
2. Slot reset, resume and the quarantine of `ua_xact_run` in `DspXact`.
3. The gestures of `writer.rs` in `ClientStore`.

Theorems to come: `ClientStore`'s (section 7).

## 3. The models

Each action is a handler or the part of one that runs without another thread,
and carries everything that handler does. Fields written "history" in the
modules are read by properties only. Definitions whose comment says "Seeded
fault" are used by no specification: they are the plausible bugs that show that
a property can fail.

### Connection (`ua-engine/src/connection.rs`)

`state`, `generation`, `closed` and `allowWrites` are `Shared`'s atomics; `tx`
the request channel; `pending` and `load` the session's map and `TreeLoad`;
`out` the bytes of one turn of the select loop; `up` and `down` the socket.

* `EngineHandle::send` is three steps, `OwnerSendCheck`, `OwnerStamp` and
  `OwnerEnqueue`, with anything between them; `request` and `read_post` are two;
  `close` is `CloseFlag`, `CloseRequested`, `CloseJoined`.
* `Task::run` is `RunTop`, `ConnectFails`, `ConnectSucceeds`, `AfterLoss`,
  `Reject` and `BackoffEnds`. `Task::session` is a turn of `select!`: a branch
  (`Read`, one of the handlers, `Tick`), `IngestFrame` for each frame, and
  `WriteOut`. A burst of requests is taken in one turn (`QueueDrained`).
* The engine answers in order, may push, may refuse, may keep silent and may
  vanish. Meters, pings and the parsing of frames are left out; a tree is the
  number of stubs in it, a value is nothing.

Simplifications: deadlines are events (`Expire` may come at any tick); the
daemon's socket buffer holds `MaxWire` messages; an id stands for a func_id.

### ClientStore (`store.rs`, `writer.rs`, the daemon around them)

`ui` is the UI thread's state: the shown tree, the metadata that depends on a
trigger, a hold per property, the re-read and refresh in flight, the pending
writes. `updates` is the channel of `Update`s, `mail` the reply channels, `batch`
and `acc` the network thread's ingest, `val` the engine's tree.

* `Store::drain` is two steps: everything on the update channel
  (`DrainUpdates`), then holds, writer, refreshes and re-reads (`DrainRest`);
  the network thread may deliver a reply between them.
* `apply_local`, `apply_push`, `install`, `refused`, `release_holds`,
  `poll_refresh`, `poll_rereads`, `Writer::set`, `flush` and `poll` are operators
  of the same names on `ui`.
* Time is events: a hold expires, the 16 ms of a write pass, the 100 ms before
  a refresh pass. A path's revision is kept as what it is used for: whether it
  is still the one a re-read saw (`same`, `first`).
* Left out: meters, topology, gestures, resets, the tree's structure, tapers,
  the read-post of plug-in lists.

The engine's values, the other clients, the network and the timers may act at any
moment: nothing keeps two side channels from overlapping. What a property is (slow,
refusable, a trigger of metadata) is chosen in the initial state (`nature`).

The code does not always end up with the engine's value. Instead of leaving those
behaviours out, `ui` has history fields that record, at the step where it goes
wrong, for which property it did:

* `astray`: an echo that the hold swallows while something else is on show (a tree or
  a node was put over the hold); an older reply, to a re-read or a refresh, put over
  a push; a re-read that was due and not asked for, one being in flight. The next
  push, tree or clean reply of the property puts it right and takes it out again.
* `missed`: a trigger that changed while a refresh was in flight, which asks for no
  second one (`store.rs:953`); the next refresh or tree puts it right.

`ShowsEngine` and `ShowsMetadata` say that at rest everything else on show is the
engine's. Dropping any one of the marks (the swallowed echo, the re-read not asked
for, the late reply of a re-read, that of a refresh, the missed refresh) makes TLC
find a violation, so that each of the five stands for something the code does.
`HeldStays` is about steps: while a hold lasts, only the user, a tree or a node
moves the control. `AlwaysShows` and `NeverMoves` are the same without the
exceptions; `Store_reconnect.cfg`, `Store_reread.cfg` and `Store_slow.cfg` show how
they fail (section 6).

### HelperStore (`helper.rs`, with its connection and the helper behind it)

`ui` is the store; `updates` and `mail` are the handle's update channel and the
reply channels; `conn`, `gen`, `tx`, `pending` the connection task as far as this
client sees it (a session opens Ready: the helper's options load no tree); `up`
and `down` the socket; `val` and `subs` the helper.

* `drain` is `DrainUpdates` and `DrainRest`, with the network thread in between;
  `subscribe` and `poll` are part of the second. `PollComesDue` is `next_deadline`.
* `connect_with` and `disconnect` drop the handle with everything in it.
* The helper answers in order or refuses, pushes what is subscribed, and gets new
  effect slots (`Growing`) that it announces to nobody.
* Left out: `start_device` and `reset`, node conversion.

### ResourcePool and PoolLedger (`ua_resource_pool.c`)

`pool[k]` is the list of extents of pool `k`, `holds` the list of holds,
`scratch` the scratch sizes, `leases` every lease ever given (callers may keep
one after its end), `ticket` the counter of cookies, `call` where a batch is.

* The ledger's lock makes a single call one action: `Reserve`, `Release`,
  `SetScratch`, `Invalidate`. A batch is one action per request and one per
  roll-back step (`BatchBegins`, `BatchReserves`, `BatchFails`, `BatchUndoes`,
  `BatchReturns`) with no other call in between: the lock is held; the steps
  are separate so that each intermediate list is checked.
* Code (pool 0) is carved from an extent's low end, data from its high end, as
  in the source; the merge is the source's two merges in their order.
* Geometry is a constant, rounded as `ua_pool_even_up` does. The guards at
  2^32 and 2^63 are left out. Allocation failures of `kzalloc` are one of the
  ways in which a reservation or a batch may be refused.

`PoolLedger` is what a caller may rely on: words given are in the pool, above
scratch, nobody else's unless shared, stay, and are known by a fresh ticket.
`ResourcePool` maps each hold to the words of its extent (`Owned`) and
implements it (`LedgerSpec`).

### EventChannel (`ua_event.c`, and `ua_remove` of `ua_core.c`)

An event is its number. `queue`, `lost`, `file` are per file; `reader` is where
the file's thread is in `read` or `poll`; `producer` where each producer is in
`ua_event_post` or `ua_err_count`; `removal` where `ua_remove` is.

* A post is `Posts` (under `event_lock`) and then `Wakes` (outside it); a read
  is `Pops`, `Copies` or `Faults`, `Finds` (nothing), and the wait:
  `Prepares` (on the wait queue), `Looks` (the condition), `Rises` or
  `Interrupted`. A wake-up reaches whoever has prepared.
* `ua_err_count` is `CountsError` (clock), `ReadsLast`, `SwapsLast` (cmpxchg),
  `PostsError`; the 64-bit subtraction is modulo `Wrap`.
* `ua_remove` is `RemovalPosts`, `RemovalWakes`, `RemovalFlags`,
  `RemovalWakesAll`, and later `RemovalStops`, when the last producer is off.

Simplifications: one thread per file (a second reader of the same file takes
part of the queue; nothing promises an order between the two); one error class
(classes share nothing); SIGIO carries no state.

### DspXact (`ua_dsp_xact.c`, the ring half of `ua_dsp.c`)

`ring[r]` is POSITION, what is queued from it on, what the engine has fetched
ahead, and the generation; `xact` the transactions with their two references and
the state of their buffer; `waiting` and `epoch` the host's.

* `Map`, `SubmitRefused`, `Submit`, `Discard`, `Poll`, `Done` are the functions
  of those names (a refused submit keeps its reclaim); `Abandon` and
  `RingAbandon` are `ua_xact_ring_abandon`, run by every resync that finds
  entries (`OtherResyncs`, `Submit`, `Quiesce`).
* `OtherPuts` stands for every other user of the DSP's rings. `Fetch` and
  `Consume` are the device: nothing in the source says how far it fetches ahead,
  so any distance up to `Ahead`.
* The end comes in order (`Quiesce`: resync, then the flag, in one hold of the
  lock) or not (`Shutdown`: the flag alone, POSITION unreadable from then on),
  then `Fini`, with or without the device known to be quiet.
* Indices wrap: the rings of the instance have eight slots and start at six.
* Left out: laying out the entries, the retries of `ua_xact_publish`, the
  quarantine in `ua_xact_run`, the cap on bytes, the coming back after a PCIe
  error or a suspend, a reset of the DMA engines.

### MixerSets (`_handle_set` and `_native_run` of the daemon, `console_history.py`)

`mixer` is the tree's values, the history (`entries`, `current`, `groups`) and
the transaction on the worker thread (`job`); `waiting` is `_native_waiting`.

* `Set` takes one SET: it is applied, starts a transaction or waits (`Queued`,
  where a newer value of a plug-in parameter takes out the older one, which is
  answered). `Finish` is the end of a transaction, with the loop over the
  waiting SETs. `Disconnect` closes the client's gesture and leaves what it has
  waiting.
* `Edit`, `Merge`, `AppendStep`, `OpenGroup`, `CloseGroup`, `Move` are `record`,
  `append`, `bracket`, `disconnect` and `move`.
* The event loop makes each of these one step; the worker thread is `job`.
* Clients edit any control, the same ones too. Gestures are kept by client: when a
  control is changed by one client inside another's gesture about it, each keeps its
  own first and last values, and their steps do not follow on from each other.
  `torn` (history) records those controls, and `UndoTruthful` is about the others;
  `AlwaysTruthful` is about all, and `Mixer_torn.cfg` shows how it fails.
* Left out: the steps that replace a plug-in slot's node, undo while hosting is
  on, SETs that fail half-way, and what a transaction does to the tree.

### NativeHosting (`plugin_transactions.py`, `plugin_native.py`, `plugin_publication.py`)

`work` is the transaction on the worker thread, `pc` the step it is at; `host` the
backend's leases and replacements under way, the coordinator's leases and
quarantine latch, and whether the session is still believed in; `tree` what
clients see of each slot; `device` the driver's instances, which of them each slot
runs, and the value of their parameter; `session` whether the hardware is as it was
when hosting started.

* A load is `Prepare`, `Create`, `Observe`, `Activate`, `Publish`, `Finalize`,
  `Finalized`, or `Rollback` from wherever it fails; an unload `Retire`, `Clear`,
  `Cleared`; a control `Plan`, `Apply`, `Store`, `Stored`, or `Restore`. The steps
  are the driver calls and the hops to the event loop: between any two the loop,
  another thread, may invalidate the session.
* A driver call fails when the session is over or the instance gone, and may fail
  otherwise, with or without having done what it was asked; so may a publication,
  without effect. What the backend makes of each (refused, invalidated, unknown)
  is the code's.
* `DriverEvent`, `DeviceLost`, `RateSet` and `Attach` are the loop's: hosting that is
  idle is given up and set up anew, hosting with plug-ins is invalidated and stays so.
* `DeviceDrops` is the driver: a restart of the DSPs ends every instance.
* An instance is a number, a parameter one value, and a created instance differs
  from those before it. `was`, `drops` and `lapsed` are history.
* Left out: `NativeChainBackend`, the publisher's second view, coupled parameters,
  stereo and Unison, the restoring of saved inserts, the words on the DSP that a
  running plug-in owns, and the waiting SETs (`MixerSets`).

### SetupWizard (`oa-setup`, `setup-root.sh`)

`w` is the `App`; `script` the privileged script, `out` its output and the
job's `Exit` on their way through the reader threads; `cons` the Console's build;
`left` the builds whose job was dropped; `world` what the disks hold, whether this
install has changed anything and whether the Console is there; `msgs` a scan's
answer.

* A frame is `Tick` (or `TickScanned`, with a scan's answer before it): install
  output, then the build's, then the statuses, as `App::tick` has them.
* User actions are offered under the conditions of `pages.rs` (which button is
  drawn, and enabled), and do what `App::apply` does.
* The script's sections are those of `setup-root.sh` in order, each with its
  begin and end marker; it may fail in any, be killed between any two, or not
  get its password. The removal takes the Console away.
* Pressing Install, and an install that ends well, drop the job of the build on
  view (`app.rs:854`, `self.console = Some(run)` at 898), which ends neither the
  process nor its reader threads: it may put its files in place at any later time
  (`LeftInstalls`), beside the removal of the next install too, and it may end at any
  time without (`LeftEnds`; a reader thread whose channel is gone leaves at the next
  line, `jobs.rs:86-104`, and the script's output then has no reader). `Sections` of the instance are three of the five.
* Left out: disk images opened by the user, chosen folders, `--auto`, the first
  two pages, system checks, a warning as a status of its own (`firmware_status`
  makes one of Done), a Console of which only some files are in place.

## 4. The runs

| run | instance | shows |
|---|---|---|
| `conn_safety` | 1 path, 2 requests, 1 command, 2 sessions, queue and wires of 2, 1 stub, reconnect on and off | `NoReplay`, `GateShut`, `OnePlace`, `AnsweredOnce`, `LoadAccounting`, types |
| `conn_live` | 1 request, no command | `EveryRequestAnswered`, `LoadingEnds`, `CloseReturns` |
| `store_hold` | 1 property (refusable; refusable and slow; a trigger), 2 values, 2 edits, 1 change by others, 1 loss | `ShowsEngine`, `ShowsMetadata`, `HeldStays` |
| `store_live` | 1 refusable property (slow; a trigger), 2 values, 1 edit, 1 change by others or 1 loss | `Settles` |
| `helper` | a status property that is set, a slot that appears, 3 requests about, 1 fault, 1 change | `SubscribedToAll`, `ReadFromThisSession`, `Converges` |
| `pool` | code pool of 8 words, data pool with odd base and size, 2 identities, 3 tickets, batches of 3 | `Tiled`, `Merged`, `RefsAreHolds`, `AllOrNothing`, `UsageTruthful`, refinement `LedgerSpec`, types |
| `events` | 1 file, 1 producer, queue and batch of 2, buffers of 1 and 3, 4 events, one class of errors with a second of 2 ticks | `GapsReported`, `GoneOnlyWhenDrained`, `NobodyOverslept`, `CallsReturn`, types |
| `xact` | 2 transactions (2 entries; 1 entry and 2 replies), rings of 8 from slot 6, 1 fetched ahead, bursts of 1 and 6 by others, 2 resyncs, 1 new epoch | `NoTouchAfterFree`, `OneWaiter` |
| `mixer` | 2 clients, 3 controls common to them, 2 plug-in parameters, 5 SETs, histories of 2 | `UndoTruthful`, `InOrder`, `NoneStranded` |
| `native` | 2 slots, 1 effect, 1 parameter of 2 values, room for 2, 3 instances made, 2 sessions ended | `ViewTruthful`, `NothingForgotten`, `AllOrNothing` |
| `wizard` | 2 installs of 3 sections, 1 further scan or build, a mounted install and a partition | `ClaimIsTrue`, `DoneByThisInstall`, `ConsoleIsThere`, `DaemonRestarted` |
| `mixer_gone` | as `mixer`, 2 SETs | `GesturesOfClients` violated, section 6 |

Twelve more configurations are kept beside the runs, for what section 6 says was
seen: `Store_reconnect.cfg`, `Store_reread.cfg`, `Store_slow.cfg`, `Mixer_torn.cfg`,
`Errors_second.cfg`, `Events_last.cfg`, `Xact_retired.cfg`, `Native_quarantine.cfg`,
`Wizard_pick.cfg` and `Wizard_orphan.cfg` each violate the property they are about; `Store_two.cfg` passes, with the properties of
`store_hold` and two properties of one node, which share a tree, a node and a batch; `Errors.cfg` passes and shows
that no error of a class is swallowed (`NothingSwallowed`). Where the table does
not say "types", `TypeOK` documents the module's variables; it holds when it is
added to the run.

Why the bounds are enough. Two sessions give a command one session to be
stamped in and another to be replayed into; a queue of two lets a command or a
request meet a close (the channel of the code is unbounded, `MaxQueue` bounds
what the owner puts on it). One stub is the least that makes the tree load
count to two. In the store, two edits of two values let an echo of the first meet the hold of the
second, and a change by another client or a loss come between any two steps of
these; no value is compared but for equality. One property in these runs buys the second edit and the second fault;
`Store_two.cfg` has two properties, one edit and two faults. In the
pool, three tickets make a taken extent with a free one on each side, which is
what a two-sided merge needs, and a batch of three fails after two. In the event
channel, a queue of two overflows between two batches when four events are
posted (one taken by the first batch, three on the way), and a buffer of one has room for the LOST record and nothing else.
A ring of eight that starts at six wraps within a transaction, a burst of six
fills what a reference with an end at the write pointer could be mistaken over,
and two resyncs let a second one find an abandoned reference. Five SETs
are a transaction, three that wait behind it and one more that starts after it,
or a gesture of two edits between its brackets, or two gestures about one control; a history of two forgets its oldest step at
the third. Three instances are two that run and one that replaces either, or a
plug-in, its replacement and the next load after a roll-back; two ended sessions
let the second one end what was set up after the first. Two installs are what it takes for the second to find the first
one's remains. With the helper, one fault, one change and three requests let the
reply of one session's poll meet the next session's root; more requests about
than three need a third session.
`MaxId`, `MaxSends`, `MaxGen`, `MaxQueue`, `MaxWire`, `MaxRounds`, `MaxSets`,
`MaxOthers`, `MaxLosses`, `MaxTickets`, `MaxBatch`, `MaxPosts`, `MaxClock`,
`MaxFaults`, `MaxDoings`, `Tickets`, `MaxResyncs`, `MaxEpoch`, `MaxSent`,
`MaxMade`, `MaxDrops`, `MaxInstalls` and `MaxExtras` are bounds of the instances; `MaxRounds` (16), `MaxBatch`, `QueueLen`,
`ReadBatch`, `RetainMax`, `Cap`, `MaxInstances` (1 or 4) and `MaxEntries` stand for larger constants of the code. Deadlock is not checked: each bounded model
stops when its bounds are used up, and the systems may rest.

## 5. Fairness

* `Connection`: the network thread runs (weak fairness of its own steps);
  `tokio::select!` picks among ready branches at random, so a branch that is
  ready again and again is taken (strong fairness of the branches and of the
  tick); the owner ends a call it began; the engine reads what is written to
  it, but need not answer.
* `ClientStore`: the UI thread drains at each wake-up, timers fire, the network
  thread reads, the daemon serves its clients in order, and the back-off ends.
  Nothing says that the user or other clients act.
* `HelperStore`: as above; a re-read that is waited for comes due. A dial may
  fail as often as the bound allows, and then succeeds; a request may expire or
  be refused, but a helper that is asked serves.
* `SetupWizard`: frames are drawn (each message wakes the window), and a Console
  build ends one way or the other. The user, the password dialog and the script
  owe nothing, so no property says that an install ends.
* `DspXact`, `MixerSets` and `NativeHosting` state safety only: the device may
  never consume an entry, and a transaction on the worker thread, which waits for
  driver calls, may never end.
* `EventChannel`: a producer inside the driver ends its call; a thread that can
  run does; `ua_remove` goes on once it has begun. Nothing says that an event is
  ever posted, or that a user calls.

## 6. What the code does against its words

Shown by a run:

* `mixer_gone`: the SETs a client has waiting are applied after it has left. If
  an opening `/UndoRecording` is among them, a gesture is open that nobody can
  close, and undo is refused to everybody until the daemon restarts.

Seen while modelling, and reproduced by the configuration named:

* `Store_reconnect.cfg`: a tree that the engine served before an edit reached it
  is installed after the edit; the hold, kept by `install`, swallows the echo,
  and the console keeps the old value.
* `Store_reread.cfg`: a push of the value already on screen moves no revision, so
  an older re-read reply passes for current and replaces it.
* `Mixer_torn.cfg`: while a gesture of one client about a control is open, another
  changes that control. The steps of the two are kept apart, by client
  (`console_history.py:42-47`): undoing one puts back a value that was not the one
  before the other, and redoing starts from one that is not there. No document says
  what should happen.
* `Wizard_orphan.cfg`: "the removal would take an earlier build away" is why the
  Console is built after the driver (`steps.rs:99`), but pressing Install while a
  build runs leaves that build running beside the removal (`app.rs:854`). The window
  does not show it as built (`ConsoleIsThere`); it may put back what the removal took.
* `Store_slow.cfg`: a plug-in parameter is to "keep the user's position until the
  echo (or the cap)" (`store.rs:809-810`). `drain` applies the pushes first; one
  that comes in the drain in which the hold has run out goes past it
  (`apply_push` asks for `until > now`) and shows, being an older value of the
  drag, and `release_holds` then extends the hold over that value, not the user's.
* `Errors_second.cfg`: `ua_err_count` reads the clock before the last report; when
  another context reports in between, the difference wraps and a second report
  goes out within the second.
* `Events_last.cfg`: `ua_remove` posts DEVICE_OFFLINE before it stops the
  producers, and `ua_event_post` does not look at the flag: events follow it.
* `Xact_retired.cfg`: `ua_xact_ring_abandon` clears an abandoned reference once
  later entries have passed it (`ua_dsp_xact.c:779`). `ua_xact_poll`, which is to
  answer "-ESTALE when a resync abandoned part of it" (411-413), looks for
  abandoned references, finds none left, and reports as retired (replies complete
  and readable) a transaction the device never had. It takes two resyncs of the
  ring between two polls of its waiter.
* `Native_quarantine.cfg`: a load whose CREATE is unconfirmed quarantines the
  coordinator: "Plug-ins stay unavailable until the mixer daemon restarts"
  (`plugin_transactions.py:248-250`), since only the restart frees what may be left
  on the DSP. There is no lease, so hosting counts as idle (`_native_idle`), and a
  client that sets the sample rate or the clock source, or a driver event, gives it
  up; the next attempt puts a new coordinator in its place, whose quarantine is
  off. From then on an instance nobody knows may run beside the new ones, or, after
  an unload whose publication failed, a slot may show a plug-in that is gone.
  `ViewTruthful` and `NothingForgotten` hold up to there (`lapsed`).
* `Wizard_pick.cfg`: "The install reads the selected install, so it can't change
  meanwhile" (`app.rs:307`), but a scan that ends during the install and does not
  list it any more picks the best of what it does list (`app.rs:476-494`).

Seen while modelling, without a configuration:

* Connection: commands taken in the same turn as a close are counted as sent and
  never written (`connection.rs:843`).
* Store: a trigger that changes while its refresh is in flight asks for no other
  (`store.rs:953`; `missed`); the reply of a refresh that is older than a push of the
  same batch is applied after it (`poll_refresh` runs behind the update channel,
  `store.rs:983`); a re-read that is due while one is in flight is not asked for
  (`store.rs:724`); disabling writes in the middle of a gesture leaves the
  daemon's gesture open (`writer.rs:207`).
* Helper client: a `get /` that fails on a connection that lasts is not tried
  again (`Converges` allows for it).
* Ledger: an odd window base with an even size claims a word beyond the window
  (`ua_resource_pool.c:97`).
* Wizard: `Exit` is sent only after both pipes are closed, so a process the script
  leaves behind with its output open keeps the install running; a scan under way
  when a folder is chosen takes the choice (`prefer`) before the folder's own
  scan.

## 7. What is proved

`ConnectionProofs`, for any number of paths, requests, commands, sessions and
any bounds, from `ConnectionAssumption`:

* `TypeCorrect`: `Spec => []TypeOK`. The work is in the pending set and the load,
  which every frame changes; each action has a step.
* `NeverReplayed`: `Spec => []NoReplay`. `NoReplay` alone is not inductive: it
  speaks of what is written, while the command is with the owner or on the
  channel. The invariant adds that a request's stamp is never later than the
  session in which it entered the channel (the owner reads `generation`, then
  enqueues, and `generation` only grows; `Stamped`), and that a running
  session's captured generation is the current one, with nothing written outside
  of a session (`Current`). `Admits` compares the stamp with the session: equal stamps leave only
  this session to have entered in.

* `InOnePlace`: `Spec => []OnePlace`. A request moves between four places of
  different shape: the owner's hand, a queue, a set keyed by nothing, an array of
  answers. Taking the head off the queue, or one entry off the set, removes its
  request from that place only if it was there once: that is `Once`, and
  `PlaceInv` is the two together. Each handler is a move between two places, and
  the lemmas say it for a move, not for a handler.
* `NeverAnsweredTwice`: `Spec => AnsweredOnce`. That an answer does not change comes
  from the invariant above: whatever is answered was queued or pending, hence
  unanswered. That an engine's answer comes only from the session that asked needs
  to know of every pending request that it was asked in the running session
  (`Asked`, with the session's number `askedIn` kept in the request as history): a
  lost session leaves nothing pending to the next (`AfterLossAnswer`), and only the
  handling of a frame gives an engine's answer, to the request it is about
  (`EngineAnswers`).
* `LoadCounted`: `Spec => []LoadAccounting`. The counter follows the cardinality
  of the load's part of the pending set, so every step needs that part to be
  finite (`LoadInv`) and a lemma for each way it changes: one taken off, some
  added for the stubs of a reply, all removed at the end of the load.
* `GateStaysShut`: `Spec => GateShut`, an action property: of the steps that keep
  the gate shut, those that append to the writer's buffer append nothing gated,
  and the others take from it.

`ResourcePoolProofs`, for every geometry, any sizes, identities and scratch
requests, from `PoolAssumption`:

* `TypeCorrect`: `Spec => []TypeOK`, with the fact, needed by every operation,
  that no list is ever empty.
* `PoolTiled`: `Spec => []Tiled`. Neighbours in the list are neighbours in
  memory, and the ends are the pool's ends. Lemmas say what replacing an
  element by one of the same extent, splitting one in two, and joining two do
  to a tiling, once for code (ascending) and data (descending) alike; each
  operation is a composition of these, and the two merges of a release are two
  uses of the last. `IInv` is `TypeOK /\ Tiled`.
* `PoolMerged`: `Spec => []Merged`. One lemma for a grant and one for a return
  (`ShareList`, `TakeList`, `SplitList`; `ReturnList`) say what they do to a list in
  any state; that no two free extents are neighbours survives a return because
  it merges with both.
* `ReferencesCounted`: `Spec => []RefsAreHolds`. The count of an extent is the
  cardinality of the holds on its base, so tickets must be unique and no later
  than the counter (`HoldInv`), and a merge or a split must not move the base of
  an extent somebody holds; that is where `Tiled` comes in.
* `BatchesAtomic`: `Spec => []AllOrNothing`. The invariant (`TraceInv`) says there is
  a sequence of states that the batch went through, the first of them the one it
  began in, such that giving back its last lease leads to the state before it:
  each grant is undone exactly by its return (`GrantUndone`), whether it shared,
  took a whole extent or split one. A roll-back walks the sequence to its start.
* `UsageReportTrue`: `Spec => []UsageTruthful`. The code offers the greatest even
  number of words below each free extent's; that nothing larger fits needs every
  extent to be even, which the invariant of the others did not say (`Proper`, and
  `ScratchEven` for the terminal extent: an odd one would make the report too
  small). That the words add up is an induction over a list that tiles its pool
  (`WordsTiled`), and that the maximum is one of the offers another
  (`LargestOffer`).
* `LedgerImplemented`: `Spec => LedgerSpec`. The refinement mapping reads who has
  which words off the lists and the holds. A reservation maps to `Grant` when it
  takes fresh words, to `Join` when it shares, to `Waste` when it is refused after
  drawing a ticket; a release to `Return`, a scratch change to `Rescratch`, and
  what a batch does between them to a stutter. That a grant's words are nobody
  else's is a fact about all holds at once (`WordsApart`), and that a merge moves
  nobody's words needs `Tiled` and `RefsAreHolds`.

  `FullInv`, the inductive invariant of these five, is
  `IInv /\ AllSound /\ HoldInv /\ TraceInv /\ ScratchEven`.

`EventChannelProofs`, for any number of files and producers, any queue and batch
length and any room in the user's buffer, from `ChannelAssumption`:

* `TypeCorrect`: `Spec => []TypeOK`. A batch fits because a read that pops has
  room for at least one record, and the LOST record is counted in it.
* `NoGapUnreported`: `Spec => []GapsReported`. The induction needs `Calls`: only a
  batch that is being copied stands between the queue and the reader, and a file
  that is not open has an empty queue and nothing lost or missed, so that it
  counts from the event after its opening. A post moves the queue by one and
  `lost` by as much (`QueuedIs`), a pop moves a front part of the queue into the
  batch with the whole count (`PoppedIs`), a copy or a fault empties the batch.
* `GoneWhenDrained`: `Spec => []GoneOnlyWhenDrained`, on the invariant of
  `NoGapUnreported`. An empty queue has no lost count left to announce
  (`Announced`: the count grows only with an event behind it, and a pop takes it
  whole), so a reader that finds the queue empty is past everything posted; the
  flag is set after DEVICE_OFFLINE was posted (`Ends`), hence past that too.

`DspXactProofs`, for rings of any capacity and starting position, any number of
transactions, bursts and resyncs, and any read-ahead of the engine, from
`CapAssumption`, `BoundAssumption`, `ShapeAssumption`, `BurstAssumption` and
`OtherAssumption`:

* `TypeCorrect`: `Spec => []TypeOK`.
* `NeverTouchedAfterFree`: `Spec => []NoTouchAfterFree`. The code frees on what
  two indices say, so the induction ties the indices to the descriptors they
  stand for. For the engine's i-th descriptor from POSITION, queued or fetched,
  its owner's reference still counts at least i steps (`Awaits`): to the
  reference's end while the ring's generation is its own; to `need` past the
  resync point once a resync took the entries back; for ever if a second resync
  came in between. What is awaited is not done (`NotDone`), so nothing reachable
  is freed. The lemmas on rings (`PutGuards`, `RefGuards`, `AbandonGuards`,
  `FetchGuards`, `ConsumeGuards`) show that this survives what may happen to a
  ring; three lemmas on masked indices (`WayIs`, `WayOn`, `WayAhead`) are all the
  arithmetic they need. That a transaction holds fewer entries than the ring
  (`ShapeAssumption`) is needed: a full turn would look like no way at all.
* `WaiterCounted`: `Spec => []OneWaiter`, with the invariant `Waited` beside the
  one above.

`NativeHostingProofs`, for any number of slots, effects, values, instances and
ended sessions, from `HostingAssumption`:

* `TypeCorrect`: `Spec => []TypeOK`.
* `NoneForgotten`: `Spec => []NothingForgotten`. What is on the device must be
  held (`Covered`), and a roll-back or a finalize lets go of two places of a slot
  at once. So the induction has to say where the candidate and what it replaces
  are at each step (`Placed`): both in the slot's two places while both may be on
  the device, and what was replaced gone when the transaction ends. Hosting is
  given up only when nothing is loaded (`Released`), and only between
  transactions (`Serving`); without these a fresh backend would start over a
  live instance. A step that gives up claims nothing, so all of them share a
  lemma (`GivesUp`), as do the steps that answer with the leases as they were
  (`Ends`), those that go on (`GoesOn`) and those of the device and the event
  loop (`Calm`); the others change a lease and have a proof of their own.

In the same module, from the same assumption and on the invariant above:

* `TreeTellsTheTruth`: `Spec => []ViewTruthful`. The property speaks of the rest
  between transactions, so `ViewInv` says for each step of one what its slot
  shows (`Shown`), runs and holds (`Known`, while the backend is in touch). That
  is said of what is live, because the device may drop everything at any
  moment; that nothing has been lost is claimed only while no driver event waits
  (`Alive`). Instances are never made twice and belong to one slot (`Made`,
  `Apart`), so retiring one touches no other slot; a slot without a lease runs
  nothing (`Silent`), so a fresh backend starts from silence even over a
  quarantine.
* `TransactionsAtomic`: `Spec => AllOrNothing`, an action property. `Was` compares
  every step with where the transaction began. A roll-back restores the routes
  from `on` and `prev` and not from a copy, so it is exact only because of
  `Known`: what ran before is what the lease named, if it was still there.

`SetupWizardProofs`, for any list of sections in which none comes twice and the
driver is last, any disks and any number of installs and scans, from
`WizardAssumption` (`setup-root.sh` runs its sections in one fixed order):

* `ClaimTrue`: `Spec => []ClaimIsTrue`. What the window knows lags behind the
  script: a section may have changed the computer while its marker is still with
  the reader threads. `Followed` says that a section that is at work has its
  marker taken or on its way, and `Said` that the exit is behind every marker;
  `PumpIs`, an induction over the messages of a frame, that a run which has taken
  all of them shows every section that was begun. Only then may it say that
  nothing was changed.
* `DoneIsThisInstalls`: `Spec => []DoneByThisInstall`. A page shows what its run
  says (`Shows`), or less: what users and scans do is `Calm`, with one lemma for
  each helper of the window, and a new install takes all pages back. While the
  install runs, `Shows` is said of skipped sections as well, for the next theorem.
* `ConsoleStays`: `Spec => []ConsoleIsThere`. A build that is on view is one of this
  press of Install: the button is unlocked by the driver's page, and by `Shows` and
  `Followed` the script is then past that section, which is its last
  (`BuiltAfterDriver`). So no removal follows the moment a watched build has put the
  Console in place (`Watched`); the builds of before that nobody watches may add the
  Console at any time and take nothing away.

`MixerSetsProofs`, for any clients, controls, values and parameters, any limit of
the history and any number of SETs, from `MixerAssumption`, which says nothing of who
edits what:

* `UndoIsTruthful`: `Spec => []UndoTruthful`. `Line`, which the property says of
  every control that is not torn, is kept by each operation of the history (`Keeps`),
  given that such a control is in one client's open gesture at most (`ByOne`, in
  `Hist`; a second client's change of it tears it): lemmas say of the line
  what it becomes when an entry is appended where it ends, when the oldest entry
  is forgotten, and when the current step moves back or forward.
* `AppliedInOrder` and `NobodyStranded`: `Spec => []InOrder` and
  `Spec => []NoneStranded`. A waiting SET of a parameter is the newest SET of it
  (`Sorted`): only so may the newer value go to the end of the list in the place
  of the older one without an older value being applied after it. `Ordered` says
  both properties of the list from its j-th SET on, because the end of a
  transaction runs a part of it in one step; `DrainedIs`, an induction over the
  list, carries it from the first SET to the one that is a transaction again,
  and `QueuedIs`, another, says what superseding leaves. A SET that need not wait
  is run as if it had been in the list alone (`SetRuns`).
* `MixerTypes`: `Spec => []TypeOK`; the history never outgrows its limit.

`HelperStoreProofs`, for any finite set of properties, any tickets and any number
of lost sessions, failed requests, sets and changes, from `HelperAssumption`:

* `HelperReadTruly` and `HelperSubscribed`: `Spec => []ReadFromThisSession`
  and `Spec => []SubscribedToAll`. Both speak of the moments when nothing is
  under way, and neither is inductive. `OfSession` says that only held tickets
  have a reply channel, and that what is in one, and the tree of a live store, is
  of the current session unless that session's `ready` still waits to be read:
  this is where `drain` must drop `polls` with the old session. `Subscribed` says
  that what the store remembers as subscribed, and what it shows when live, is in
  the helper's list, on the socket, or in the request channel with the current
  generation, and that only subscribed properties are pushed. `DrainedIs`, an
  induction over the update channel, says what a drain of several updates makes
  of the store: a `ready` among them starts it anew.

`ResourcePoolProofs`, `SetupWizardProofs`, `MixerSetsProofs` and
`HelperStoreProofs` each begin with what they need of induction, in a form the
installed provers can instantiate: a set of numbers for the predicate and a
function for the step. A number's least counterexample (`LeastNat`, from the
library's theorem that `<` is well founded) gives induction up to a bound
(`InductionTo`), the existence of a function defined by recursion
(`RecursiveFunction`) and the greatest value of a function (`GreatestValue`).

Model-checked only: liveness, which is out of this prover's reach; `TypeOK` of
`SetupWizard` and `HelperStore`, which no run checks; and `ClientStore`. Its
properties hold of the model without assumptions on the instance; what is missing is
an inductive invariant that relates every frame, update and reply in flight to the
holds, re-reads and refreshes they will meet, which has not been written.

## 8. What is not modelled

Sections 1 and 2 name what is planned. Not planned: register programming, PCM
and clocking (the hardware's answers are not in the repository), firmware
payloads and the emulator (data), UI and drawing, metering, presets and session
files, scripts. `PROJECT.json` gives the reason for each.
