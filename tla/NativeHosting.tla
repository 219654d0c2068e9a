----------------------------- MODULE NativeHosting -----------------------------
(***************************************************************************)
(* Plug-ins on the DSP, and what the mixer daemon's tree says of them.     *)
(*                                                                         *)
(* A load, an unload or a control of a native plug-in is a transaction of  *)
(* the coordinator (src/mixer-engine/plugin_transactions.py) on a worker   *)
(* thread: it drives the backend (plugin_native.py), whose operations are  *)
(* driver calls, and hops to the event loop to change the tree             *)
(* (plugin_publication.py).  Meanwhile the loop takes the driver's events  *)
(* (ua_mixer_daemon.py), which may end the session under the transaction.  *)
(* What cannot be confirmed quarantines the coordinator.                   *)
(*                                                                         *)
(* One backend (NativePluginBackend), one parameter per plug-in; the two   *)
(* views the publisher keeps change in one step of the loop and are one.   *)
(***************************************************************************)
EXTENDS Integers, FiniteSets, Functions

CONSTANTS Slots,
          Names,         \* effects there is a provider for
          Values, First, \* what a parameter may hold, and holds after a load
          MaxInstances,  \* max_instances
          Replacement,   \* the driver can swap (UA_FEAT2_PLUGIN_SWAP)
          MaxMade,       \* bound on instances created
          MaxDrops       \* bound on sessions ended by the device

ASSUME HostingAssumption ==
  /\ First \in Values /\ Replacement \in BOOLEAN
  /\ MaxInstances \in Nat \ {0} /\ {MaxMade, MaxDrops} \subseteq Nat

Handles == 1..MaxMade
Nobody == 0
NoName == "none"

VARIABLES tree,     \* slot -> what the tree shows: name, instance, parameter
          host,     \* the backend, publisher and coordinator of this hosting
          hosting,  \* _native_plugin_backend is there
          work,     \* the worker thread's transaction
          device,   \* the driver's instances, which of them a slot runs, their parameter
          session,  \* hardware connected, at the rate hosting was started for
          events,   \* driver events the loop has not taken
          made, drops,
          lapsed    \* history: hosting was started anew over a quarantine

loop == <<hosting, session, events, drops, lapsed>>
vars == <<tree, host, work, device, made, loop>>

------------------------------------------------------------------------------
Empty == [name |-> NoName, inst |-> Nobody, val |-> First]

\* NativePluginBackend, Publisher and PluginTransactions as register_native
\* makes them.
Fresh == [connected |-> TRUE,   \* Publisher.connected and PluginDriver._valid
          leases |-> [s \in Slots |-> Nobody],   \* _leases
          pending |-> [s \in Slots |-> Nobody],  \* _pending
          model |-> [h \in Handles |-> First],   \* what the provider has accepted
          current |-> [s \in Slots |-> Nobody],  \* _current_leases
          quarantined |-> FALSE, unresolved |-> {}]

\* `was` and `drops` are history: where a transaction started from.
Job(pc, op, s, name, v) ==
  [pc |-> pc, op |-> op, s |-> s, name |-> name, v |-> v,
   h |-> Nobody, prev |-> Nobody, on |-> FALSE, answer |-> "none", drops |-> drops,
   was |-> [tree |-> tree, leases |-> host.leases, device |-> device]]

Init ==
  /\ tree = [s \in Slots |-> Empty]
  /\ host = Fresh /\ hosting = TRUE
  /\ device = [live |-> {}, runs |-> [s \in Slots |-> Nobody], val |-> [h \in Handles |-> First]]
  /\ session = TRUE /\ events = 0 /\ made = 0 /\ drops = 0 /\ lapsed = FALSE
  /\ work = Job("idle", "none", Nobody, NoName, First)

------------------------------------------------------------------------------
\* Parts of every transaction.

\* NativePluginBackend.invalidate: no more driver calls, no more publications.
Invalidated(b) == [b EXCEPT !.connected = FALSE]

\* NativePluginBackend._session
InSession == host.connected /\ session

At(pc) == work' = [work EXCEPT !.pc = pc]

\* The transaction is over; `work` keeps what it was.
Answer(a) == work' = [work EXCEPT !.pc = "idle", !.answer = a]

\* PluginTransactions._quarantine; a token stands for the candidate and for what
\* it was to replace.
Quarantined(b, tokens) == [b EXCEPT !.quarantined = TRUE, !.unresolved = @ \cup tokens]
Token == {work.h, work.prev} \ {Nobody}
GiveUp(b, tokens) == host' = Quarantined(b, tokens) /\ Answer("indeterminate")

\* A driver call on `h` can succeed.
Callable(h) == host.connected /\ h \in device.live

Without(d, h) ==
  [d EXCEPT !.live = @ \ {h}, !.runs = [s \in Slots |-> IF @[s] = h THEN Nobody ELSE @[s]]]
Running(d, s, h) == [d EXCEPT !.runs[s] = h]

\* NativePluginBackend._observe.  A readback that differs or is refused leaves
\* the session; any other failure ends it.
Observed == InSession /\ Callable(work.h)
Unobserved == host' = host \/ host' = Invalidated(host)

\* The end of a transaction whose publication is done: the session is the same.
Confirm(pc) ==
  /\ work.pc = pc
  /\ \/ host.connected /\ Answer("committed") /\ UNCHANGED host
     \/ ~host.connected /\ GiveUp(host, Token)
  /\ UNCHANGED <<tree, device, made, loop>>

------------------------------------------------------------------------------
\* Requests, as _native_run hands them to the worker.  Those that are refused
\* at the door change nothing.
Begin(job) ==
  /\ hosting /\ work.pc = "idle" /\ ~host.quarantined /\ host.connected
  /\ work' = job
  /\ UNCHANGED <<tree, host, device, made, loop>>

BeginLoad(s, n) == made < MaxMade /\ Begin(Job("prepare", "load", s, n, First))
BeginUnload(s) == tree[s] # Empty /\ Begin(Job("retire", "unload", s, NoName, First))
BeginControl(s, v) ==
  host.current[s] # Nobody /\ Begin(Job("plan", "control", s, NoName, v))

------------------------------------------------------------------------------
\* A load.

\* NativePluginBackend.prepare, up to the driver call: why a slot is refused.
Loaded == {s \in Slots : host.leases[s] # Nobody}
Refused(s) ==
  \/ host.pending[s] # Nobody
  \/ host.leases[s] # Nobody /\ ~Replacement
  \/ host.leases[s] = Nobody /\ Cardinality(Loaded) >= MaxInstances
  \/ host.leases[s] # tree[s].inst

Prepare ==
  /\ work.pc = "prepare"
  /\ \/ Answer("failed") /\ UNCHANGED host  \* refused, or the provider's plan is not valid
     \/ ~Refused(work.s) /\ ~InSession /\ Answer("failed") /\ host' = Invalidated(host)
     \/ ~Refused(work.s) /\ InSession /\ At("create") /\ UNCHANGED host
  /\ UNCHANGED <<tree, device, made, loop>>

\* Seeded fault of CreateFails: a failed CREATE is taken for a refusal.
CreateRefused ==
  /\ made' = made + 1
  /\ device' \in {device, [device EXCEPT !.live = @ \cup {made'}]}
  /\ host' = host /\ Answer("failed")

\* The call fails; the instance may be there all the same, and there is no token.
CreateFails ==
  /\ made' = made + 1
  /\ device' \in IF host.connected THEN {device, [device EXCEPT !.live = @ \cup {made'}]} ELSE {device}
  /\ GiveUp(Invalidated(host), {})

\* A replacement is staged, the first plug-in of a slot runs at once.
CreateSucceeds ==
  /\ host.connected /\ made' = made + 1
  /\ LET s == work.s
         h == made'
         prev == host.leases[s]
         there == [device EXCEPT !.live = @ \cup {h}]
     IN /\ device' = IF prev = Nobody THEN Running(there, s, h) ELSE there
        /\ host' = IF prev = Nobody THEN [host EXCEPT !.leases[s] = h]
                   ELSE [host EXCEPT !.pending[s] = h]
        /\ work' = [work EXCEPT !.pc = "observe", !.h = h, !.prev = prev]

Create ==
  /\ work.pc = "create"
  /\ CreateSucceeds \/ CreateFails
  /\ UNCHANGED <<tree, loop>>

\* The first readback, with which prepare ends.
Observe ==
  /\ work.pc = "observe"
  /\ \/ Observed /\ At("activate") /\ UNCHANGED host
     \/ Unobserved /\ At("rollback")
  /\ UNCHANGED <<tree, device, made, loop>>

\* Validation against the views, then NativePluginBackend.activate.
Activate ==
  /\ work.pc = "activate"
  /\ LET s == work.s
         swapped == Running(device, s, work.h)
     IN \/ /\ ~InSession
           /\ host' = Invalidated(host) /\ At("rollback") /\ UNCHANGED device
        \/ /\ InSession /\ work.prev = Nobody
           /\ At("publish") /\ UNCHANGED <<host, device>>
        \/ /\ InSession /\ work.prev # Nobody /\ Callable(work.prev) /\ Callable(work.h)
           /\ device' = swapped /\ host' = [host EXCEPT !.leases[s] = work.h]
           /\ work' = [work EXCEPT !.pc = "publish", !.on = TRUE]
        \/ /\ InSession /\ work.prev # Nobody  \* refused, or its outcome is unknown
           /\ device' \in {device} \cup (IF Callable(work.h) THEN {swapped} ELSE {})
           /\ host' = Invalidated(host) /\ At("rollback")
  /\ UNCHANGED <<tree, made, loop>>

\* Publisher.stage and Transaction.commit on the loop.  Either raises when the
\* session is over, and may for other reasons: the views are then put back.
Publish ==
  /\ work.pc = "publish"
  /\ \/ /\ host.connected
        /\ tree' = [tree EXCEPT ![work.s] = [name |-> work.name, inst |-> work.h, val |-> First]]
        /\ host' = [host EXCEPT !.current[work.s] = work.h] /\ At("finalize")
     \/ At("rollback") /\ UNCHANGED <<tree, host>>
  /\ UNCHANGED <<device, made, loop>>

\* NativePluginBackend.finalize: what was replaced is retired.
Finalize ==
  /\ work.pc = "finalize"
  /\ \/ /\ ~InSession
        /\ GiveUp(Invalidated(host), Token) /\ UNCHANGED device
     \/ /\ InSession /\ work.prev = Nobody
        /\ At("finalized") /\ UNCHANGED <<host, device>>
     \/ /\ InSession /\ work.prev # Nobody /\ Callable(work.prev)
        /\ device' = Without(device, work.prev)
        /\ host' = [host EXCEPT !.pending[work.s] = Nobody] /\ At("finalized")
     \/ /\ InSession /\ work.prev # Nobody
        /\ device' \in {device, Without(device, work.prev)}
        /\ GiveUp(Invalidated(host), Token)
  /\ UNCHANGED <<tree, made, loop>>

Finalized == Confirm("finalized")

\* Seeded fault of RolledBack: what ran before is not routed again.
RolledBackUnswapped(s, h, prev) == Without(device, h)

RolledBack(s, h, prev) ==
  Without(IF work.on THEN Running(device, s, prev) ELSE device, h)

\* NativePluginBackend.rollback: swap back, destroy; each call may fail, with or
\* without effect.
Rollback ==
  /\ work.pc = "rollback"
  /\ LET s == work.s
         back == RolledBack(s, work.h, work.prev)
     IN \/ /\ Callable(work.h) /\ (work.on => Callable(work.prev))
           /\ device' = back
           /\ host' = [host EXCEPT !.leases[s] = work.prev, !.pending[s] = Nobody]
           /\ Answer("failed")
        \/ /\ device' \in {device} \cup (IF Callable(work.h) /\ (work.on => Callable(work.prev))
                                         THEN {back, Running(device, s, IF work.on THEN work.prev
                                                                        ELSE device.runs[s])}
                                         ELSE {})
           /\ GiveUp(Invalidated(host), Token)
  /\ UNCHANGED <<tree, made, loop>>

------------------------------------------------------------------------------
\* An unload.

\* NativePluginBackend.retire.
Retire ==
  /\ work.pc = "retire"
  /\ LET s == work.s
         h == tree[s].inst
         gone == Without(device, h)
     IN \/ /\ ~InSession
           /\ GiveUp(Invalidated(host), {h}) /\ UNCHANGED device
        \/ /\ InSession /\ host.leases[s] # h
           /\ GiveUp(host, {h}) /\ UNCHANGED device
        \/ /\ InSession /\ host.leases[s] = h /\ Callable(h)
           /\ device' = gone
           /\ host' = [host EXCEPT !.leases[s] = Nobody, !.current[s] = Nobody]
           /\ work' = [work EXCEPT !.pc = "clear", !.h = h]
        \/ /\ InSession /\ host.leases[s] = h
           /\ device' \in {device, gone} /\ GiveUp(Invalidated(host), {h})
  /\ UNCHANGED <<tree, made, loop>>

\* The empty publication, on the loop.
Clear ==
  /\ work.pc = "clear"
  /\ \/ /\ host.connected
        /\ tree' = [tree EXCEPT ![work.s] = Empty] /\ At("cleared") /\ UNCHANGED host
     \/ GiveUp(host, Token) /\ UNCHANGED tree
  /\ UNCHANGED <<device, made, loop>>

Cleared == Confirm("cleared")

------------------------------------------------------------------------------
\* A control.

\* NativePluginBackend.prepare_control: nothing is written.
Plan ==
  /\ work.pc = "plan"
  /\ LET h == host.leases[work.s]
     IN \/ /\ InSession /\ host.current[work.s] = h /\ host.model[h] = tree[work.s].val /\ Callable(h)
           /\ work' = [work EXCEPT !.pc = "apply", !.h = h] /\ UNCHANGED host
        \/ /\ Unobserved /\ Answer("failed")
        \/ /\ ~InSession /\ host' = Invalidated(host) /\ Answer("failed")
  /\ UNCHANGED <<tree, device, made, loop>>

Written(v) == [device EXCEPT !.val[work.h] = v]

\* The writes of _apply and the readback that follows.
WrittenTo(v, next) ==
  \/ /\ InSession /\ Callable(work.h)
     /\ device' = Written(v) /\ host' = [host EXCEPT !.model[work.h] = v] /\ next

\* NativePluginBackend.apply_control.
Apply ==
  /\ work.pc = "apply"
  /\ \/ /\ ~host.connected
        /\ Answer("failed") /\ UNCHANGED <<host, device>>
     \/ /\ host.connected /\ ~session
        /\ host' = Invalidated(host) /\ At("restore") /\ UNCHANGED device
     \/ WrittenTo(work.v, At("store"))
     \/ /\ InSession /\ Unobserved /\ At("restore")
        /\ device' \in {device, Written(work.v)}
  /\ UNCHANGED <<tree, made, loop>>

\* Publisher.commit_control on the loop.
Store ==
  /\ work.pc = "store"
  /\ \/ /\ host.connected
        /\ tree' = [tree EXCEPT ![work.s].val = work.v] /\ At("stored") /\ UNCHANGED host
     \/ At("restore") /\ UNCHANGED <<tree, host>>
  /\ UNCHANGED <<device, made, loop>>

Stored == Confirm("stored")

\* NativePluginBackend.restore_control.
Restore ==
  /\ work.pc = "restore"
  /\ LET v == tree[work.s].val
     IN \/ WrittenTo(v, Answer("failed"))
        \/ /\ device' \in {device} \cup (IF InSession THEN {Written(v)} ELSE {})
           /\ \E b \in {host, Invalidated(host)} : GiveUp(b, Token)
  /\ UNCHANGED <<tree, made, loop>>

------------------------------------------------------------------------------
\* The device and the event loop.

\* The driver drops its instances when the rate changes, the device pauses or
\* reconnects, and tells the daemon; when it had to drop events it tells that.
DeviceDrops ==
  /\ drops < MaxDrops /\ drops' = drops + 1 /\ events' = events + 1
  /\ \/ /\ device' = [device EXCEPT !.live = {}, !.runs = [s \in Slots |-> Nobody]]
        /\ session' \in BOOLEAN
     \/ UNCHANGED <<device, session>>
  /\ UNCHANGED <<tree, host, hosting, work, made, lapsed>>

\* MixerDaemon._native_idle
NativeIdle ==
  /\ hosting /\ work.pc = "idle"
  /\ \A s \in Slots : host.leases[s] = Nobody /\ host.pending[s] = Nobody

\* Seeded fault of Pause: hosting that is busy or loaded is given up too.
PauseAlways == hosting /\ hosting' = FALSE /\ host' = Invalidated(host)

\* MixerDaemon._native_pause
Pause == NativeIdle /\ hosting' = FALSE /\ host' = Invalidated(host)

\* MixerDaemon._on_driver_event
DriverEvent ==
  /\ events > 0 /\ events' = events - 1
  /\ \/ Pause
     \/ hosting /\ ~NativeIdle /\ host' = Invalidated(host) /\ UNCHANGED hosting
     \/ ~hosting /\ UNCHANGED <<host, hosting>>
  /\ UNCHANGED <<tree, work, device, session, made, drops, lapsed>>

\* MixerDaemon._device_lost: the watchdog finds the device gone.
DeviceLost ==
  /\ drops < MaxDrops /\ drops' = drops + 1
  /\ device' = [device EXCEPT !.live = {}, !.runs = [s \in Slots |-> Nobody]]
  /\ session' = FALSE
  /\ host' = IF hosting THEN Invalidated(host) ELSE host
  /\ UNCHANGED <<tree, hosting, work, events, made, lapsed>>

\* A client sets the rate or the clock while nothing is loaded.
RateSet ==
  /\ Pause
  /\ UNCHANGED <<tree, work, device, session, events, made, drops, lapsed>>

\* MixerDaemon._native_hosting_try and register_native.
Attach ==
  /\ ~hosting /\ session
  /\ hosting' = TRUE /\ host' = Fresh
  /\ lapsed' = (lapsed \/ host.quarantined)
  /\ UNCHANGED <<tree, work, device, session, events, made, drops>>

------------------------------------------------------------------------------
Worker ==
  \/ Prepare \/ Create \/ Observe \/ Activate \/ Publish \/ Finalize \/ Finalized \/ Rollback
  \/ Retire \/ Clear \/ Cleared
  \/ Plan \/ Apply \/ Store \/ Stored \/ Restore

Request ==
  \E s \in Slots : \/ \E n \in Names : BeginLoad(s, n)
                   \/ BeginUnload(s)
                   \/ \E v \in Values : BeginControl(s, v)

Next == Worker \/ Request \/ DeviceDrops \/ DriverEvent \/ DeviceLost \/ RateSet \/ Attach

Spec == Init /\ [][Next]_vars

------------------------------------------------------------------------------
\* Properties.

Instances == Handles \cup {Nobody}
BySlot == [Slots -> Instances]
Trees == [Slots -> [name : Names \cup {NoName}, inst : Instances, val : Values]]
Hosts == [connected : BOOLEAN, leases : BySlot, pending : BySlot, model : [Handles -> Values],
          current : BySlot, quarantined : BOOLEAN, unresolved : SUBSET Instances]
Devices == [live : SUBSET Handles, runs : BySlot, val : [Handles -> Values]]
Answers == {"none", "failed", "committed", "indeterminate"}
Pcs == {"idle", "prepare", "create", "observe", "activate", "publish", "finalize", "finalized",
        "rollback", "retire", "clear", "cleared", "plan", "apply", "store", "stored", "restore"}
Ops == {"none", "load", "unload", "control"}
Jobs == [pc : Pcs, op : Ops, s : Slots \cup {Nobody}, name : Names \cup {NoName}, v : Values,
         h : Instances, prev : Instances, on : BOOLEAN, answer : Answers, drops : Nat,
         was : [tree : Trees, leases : BySlot, device : Devices]]

\* What the variables hold; there are no more events than ended sessions.
TypeOK ==
  /\ tree \in Trees /\ host \in Hosts /\ device \in Devices /\ work \in Jobs
  /\ {hosting, session, lapsed} \subseteq BOOLEAN
  /\ made \in 0..MaxMade /\ drops \in 0..MaxDrops /\ events \in 0..drops

\* A transaction does all it was asked or nothing: one that answers "failed"
\* leaves the tree, the leases and (while the device keeps them) the instances
\* and their parameters as they were when it began, whatever it had done by then;
\* one that answers "committed" has the tree and the device say the same.
Kept == /\ tree' = work.was.tree /\ host'.leases = work.was.leases
        /\ drops = work.drops => device' = work.was.device
Achieved ==
  LET s == work.s IN
  CASE work.op = "load" ->
         /\ tree'[s].inst = work.h /\ host'.leases[s] = work.h /\ host'.current[s] = work.h
         /\ drops = work.drops => device'.runs[s] = work.h /\ work.prev \notin device'.live
    [] work.op = "unload" ->
         tree'[s] = Empty /\ host'.leases[s] = Nobody /\ work.h \notin device'.live
    [] work.op = "control" ->
         tree'[s] = [work.was.tree[s] EXCEPT !.val = work.v] /\ device'.val[work.h] = work.v
AllOrNothing ==
  [][work.pc # "idle" /\ work'.pc = "idle" =>
       CASE work'.answer = "failed" -> Kept
         [] work'.answer = "committed" -> Achieved
         [] work'.answer = "indeterminate" -> host'.quarantined]_vars

\* Between transactions, while the session holds, what the tree shows is what
\* the DSP runs: of every slot the tree, the backend's lease, the coordinator's
\* and the route name one live instance or none, its parameter has one value,
\* and no other instance is left on the device.
ViewTruthful ==
  hosting /\ work.pc = "idle" /\ host.connected /\ ~host.quarantined /\ ~lapsed /\ events = 0 =>
    /\ \A s \in Slots :
         LET h == tree[s].inst IN
         /\ host.leases[s] = h /\ host.current[s] = h /\ device.runs[s] = h
         /\ host.pending[s] = Nobody
         /\ h # Nobody => h \in device.live /\ {host.model[h], device.val[h]} = {tree[s].val}
    /\ device.live = {tree[s].inst : s \in Slots} \ {Nobody}

\* "Never silently forget potentially live DMA": an instance on the device is a
\* lease, in the transaction's hands or kept as unresolved, or the coordinator
\* is quarantined.
Accounted ==
  Range(host.leases) \cup Range(host.pending) \cup host.unresolved
    \cup (IF work.pc = "idle" THEN {} ELSE {work.prev})
NothingForgotten == ~lapsed /\ ~host.quarantined => device.live \subseteq Accounted

\* "Plug-ins stay unavailable until the mixer daemon restarts."
QuarantineLasts == ~lapsed
=============================================================================
