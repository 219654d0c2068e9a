---------------------------- MODULE EventChannel ----------------------------
(***************************************************************************)
(* The driver's event channel to user space: src/driver/ua_event.c.        *)
(*                                                                         *)
(* Every open file of /dev/ua_apolloN has a queue of its own.  Producers   *)
(* (interrupts, the DSP service loop, ioctls of other files) queue an      *)
(* event on every file under event_lock and wake the waiters after it; a   *)
(* full queue loses its oldest event and counts it.  A read pops batches,  *)
(* copies each to the user with the lock released, and sleeps while there  *)
(* is nothing.  A removal queues DEVICE_OFFLINE, then sets event_offline,  *)
(* and only later stops the producers (ua_remove).                         *)
(*                                                                         *)
(* An event is known by its number: they are counted as they are posted.   *)
(* One thread reads a file.                                                *)
(***************************************************************************)
EXTENDS Integers, Sequences, FiniteSets, SequencesExt

CONSTANTS Files,      \* open files: each is opened once and closed once
          Producers,  \* contexts that post events
          QueueLen,   \* UA_EVENT_QUEUE_LEN
          ReadBatch,  \* UA_EVENT_READ_BATCH
          Wants,      \* events the user's buffer has room for
          Second,     \* NSEC_PER_SEC, in ticks of the clock
          Wrap,       \* 2^64, in ticks of the clock
          MaxPosts,   \* bound on the events posted
          MaxClock    \* bound on the clock

ASSUME ChannelAssumption ==
  /\ QueueLen \in Nat \ {0} /\ ReadBatch \in Nat \ {0} /\ Wants \subseteq Nat \ {0}
  /\ Second \in Nat \ {0} /\ MaxPosts \in Nat /\ MaxClock \in Nat
  /\ Wrap \in Nat /\ Wrap > MaxClock + Second

VARIABLES queue,     \* ua_file.events
          lost,      \* ua_file.lost
          file,      \* was the file opened (it is on ua_device.event_files), and closed
          offline,   \* ua_device.event_offline
          reader,    \* where the file's thread is, and in which call
          batch,     \* the events its read popped and has not copied yet
          result,    \* what the thread's last call returned
          woken,     \* did a wake-up reach the thread since it went on the wait queue
          producer,  \* where each producer is
          lastEvent, \* ua_device.err.last_evt_ns of one class of errors
          removal,   \* where ua_remove is
          clock,     \* ktime_get_ns
          posted,    \* events posted (history, as all that follow)
          offlineNo, \* the number of the DEVICE_OFFLINE event, 0 before it
          told,      \* events the file's reader was given or told to be lost
          missed,    \* events that a failed copy took away
          claims,    \* the times at which an error was the one to post
          reports,   \* the times at which DEVICE_ERROR was posted
          silent     \* the times of the errors that were not posted

channel == <<queue, lost, file, offline, posted>>
errors  == <<lastEvent, clock, claims, reports, silent>>
user    == <<reader, batch, result, told, missed>>
driver  == <<producer, errors, removal, offlineNo>>
vars    == <<channel, user, woken, driver>>

------------------------------------------------------------------------------
NoBatch == [lost |-> 0, events |-> <<>>]
\* The events a batch accounts for, and the records it takes in the buffer.
Counts(b)  == b.lost + Len(b.events)
Records(b) == Len(b.events) + (IF b.lost > 0 THEN 1 ELSE 0)

IsOpen(f) == file[f] = "open"

\* A thread is out of the driver, or in read() or poll().
Out == [pc |-> "out", call |-> "none", want |-> 0, done |-> 0, block |-> FALSE]
At(f, pc) == reader[f].pc = pc
Goes(f, pc) == reader' = [reader EXCEPT ![f].pc = pc]
Returns(f, what) == reader' = [reader EXCEPT ![f] = Out] /\ result' = [result EXCEPT ![f] = what]

\* A producer that is not in ua_err_count or ua_event_post.
Idle == [pc |-> "idle", now |-> 0, last |-> 0]

\* ua_event_init, at probe; `clock` starts when the machine has been up a while.
Init ==
  /\ queue = [f \in Files |-> <<>>] /\ lost = [f \in Files |-> 0]
  /\ file = [f \in Files |-> "new"] /\ offline = FALSE
  /\ reader = [f \in Files |-> Out] /\ batch = [f \in Files |-> NoBatch]
  /\ result = [f \in Files |-> "none"] /\ woken = [f \in Files |-> FALSE]
  /\ producer = [p \in Producers |-> Idle]
  /\ lastEvent = 0 /\ clock = 1 /\ claims = <<>> /\ reports = {} /\ silent = {}
  /\ removal = "no" /\ offlineNo = 0
  /\ posted = 0 /\ told = [f \in Files |-> 0] /\ missed = [f \in Files |-> 0]

------------------------------------------------------------------------------
\* Producers.

\* ua_event_queue_locked: a full queue loses its oldest event.
Queued(s, no) == Append(IF Len(s) = QueueLen THEN Tail(s) ELSE s, no)
LostBy(s)     == IF Len(s) = QueueLen THEN 1 ELSE 0

\* ua_event_post, under event_lock.
Post ==
  /\ posted < MaxPosts /\ posted' = posted + 1
  /\ queue' = [f \in Files |-> IF IsOpen(f) THEN Queued(queue[f], posted + 1) ELSE queue[f]]
  /\ lost' = [f \in Files |-> IF IsOpen(f) THEN lost[f] + LostBy(queue[f]) ELSE lost[f]]
  /\ UNCHANGED <<file, offline>>

\* wake_up_interruptible, with the lock released: it reaches whoever is on the
\* wait queue at that moment.
WakeUp == woken' = [f \in Files |-> TRUE]

\* Producers are stopped in the end: the service loop, the timers and the
\* interrupt are off.
Running == removal # "stopped"

\* Seeded fault of Posts: nobody is woken for the event.
PostsQuietly(p) ==
  /\ Running /\ producer[p].pc = "idle"
  /\ Post
  /\ UNCHANGED <<user, woken, driver>>

Posts(p) ==
  /\ Running /\ producer[p].pc = "idle"
  /\ Post
  /\ producer' = [producer EXCEPT ![p].pc = "wake"]
  /\ UNCHANGED <<user, woken, errors, removal, offlineNo>>

Wakes(p) ==
  /\ producer[p].pc = "wake"
  /\ WakeUp
  /\ producer' = [producer EXCEPT ![p] = Idle]
  /\ UNCHANGED <<channel, user, errors, removal, offlineNo>>

\* ua_err_count: it takes the time ...
CountsError(p) ==
  /\ Running /\ producer[p].pc = "idle"
  /\ producer' = [producer EXCEPT ![p] = [pc |-> "read", now |-> clock, last |-> 0]]
  /\ UNCHANGED <<channel, user, woken, errors, removal, offlineNo>>

\* ... reads when the class was last posted (unsigned 64-bit arithmetic) ...
Recent(now, last) == last # 0 /\ (now - last) % Wrap < Second
ReadsLast(p) ==
  LET now == producer[p].now IN
  /\ producer[p].pc = "read"
  /\ \/ /\ Recent(now, lastEvent)
        /\ producer' = [producer EXCEPT ![p] = Idle]
        /\ silent' = silent \cup {now}
     \/ /\ ~Recent(now, lastEvent)
        /\ producer' = [producer EXCEPT ![p] = [pc |-> "swap", now |-> now, last |-> lastEvent]]
        /\ UNCHANGED silent
  /\ UNCHANGED <<channel, user, woken, lastEvent, clock, claims, reports, removal, offlineNo>>

\* ... and is the one to post if nobody came first (cmpxchg).
SwapsLast(p) ==
  LET now == producer[p].now IN
  /\ producer[p].pc = "swap"
  /\ \/ /\ lastEvent = producer[p].last
        /\ lastEvent' = now /\ claims' = Append(claims, now)
        /\ producer' = [producer EXCEPT ![p].pc = "post"]
        /\ UNCHANGED silent
     \/ /\ lastEvent # producer[p].last
        /\ producer' = [producer EXCEPT ![p] = Idle]
        /\ silent' = silent \cup {now}
        /\ UNCHANGED <<lastEvent, claims>>
  /\ UNCHANGED <<channel, user, woken, clock, reports, removal, offlineNo>>

PostsError(p) ==
  /\ producer[p].pc = "post"
  /\ Post
  /\ reports' = reports \cup {clock}
  /\ producer' = [producer EXCEPT ![p].pc = "wake"]
  /\ UNCHANGED <<user, woken, lastEvent, clock, claims, silent, removal, offlineNo>>

Tick ==
  /\ clock < MaxClock /\ clock' = clock + 1
  /\ UNCHANGED <<channel, user, woken, producer, lastEvent, claims, reports, silent,
                 removal, offlineNo>>

------------------------------------------------------------------------------
\* ua_remove, as far as the channel sees it: ua_event_offline posts the event,
\* wakes, sets the flag and wakes again; then the producers are stopped one
\* after the other, each waited for.
RemovalPosts ==
  /\ removal = "no" /\ removal' = "posted"
  /\ Post
  /\ offlineNo' = posted + 1
  /\ UNCHANGED <<user, woken, producer, errors>>

RemovalWakes ==
  /\ removal = "posted" /\ removal' = "woke"
  /\ WakeUp
  /\ UNCHANGED <<channel, user, producer, errors, offlineNo>>

RemovalFlags ==
  /\ removal = "woke" /\ removal' = "flagged"
  /\ offline' = TRUE
  /\ UNCHANGED <<queue, lost, file, posted, user, woken, producer, errors, offlineNo>>

\* Seeded fault of RemovalWakesAll: nobody is woken for the flag.
RemovalWakesNobody ==
  /\ removal = "flagged" /\ removal' = "offline"
  /\ UNCHANGED <<channel, user, woken, producer, errors, offlineNo>>

RemovalWakesAll ==
  /\ removal = "flagged" /\ removal' = "offline"
  /\ WakeUp
  /\ UNCHANGED <<channel, user, producer, errors, offlineNo>>

RemovalStops ==
  /\ removal = "offline" /\ removal' = "stopped"
  /\ \A p \in Producers : producer[p].pc = "idle"
  /\ UNCHANGED <<channel, user, woken, producer, errors, offlineNo>>

Removal == RemovalPosts \/ RemovalWakes \/ RemovalFlags \/ RemovalWakesAll \/ RemovalStops

------------------------------------------------------------------------------
\* The user's calls.

\* ua_event_open: "Events are queued from the time the file is opened".
Open(f) ==
  /\ file[f] = "new" /\ Running
  /\ file' = [file EXCEPT ![f] = "open"]
  /\ told' = [told EXCEPT ![f] = posted]
  /\ UNCHANGED <<queue, lost, offline, posted, reader, batch, result, missed, woken, driver>>

\* ua_event_release, with no call of the file under way.
Close(f) ==
  /\ IsOpen(f) /\ At(f, "out")
  /\ file' = [file EXCEPT ![f] = "closed"]
  /\ queue' = [queue EXCEPT ![f] = <<>>] /\ lost' = [lost EXCEPT ![f] = 0]
  /\ result' = [result EXCEPT ![f] = "none"]
  /\ told' = [told EXCEPT ![f] = 0] /\ missed' = [missed EXCEPT ![f] = 0]
  /\ UNCHANGED <<offline, posted, reader, batch, woken, driver>>

\* read() with room for n events, of a file that blocks or not; poll().
Reads(f, n, block) ==
  /\ IsOpen(f) /\ At(f, "out")
  /\ reader' = [reader EXCEPT ![f] =
                  [pc |-> "pop", call |-> "read", want |-> n, done |-> 0, block |-> block]]
  /\ result' = [result EXCEPT ![f] = "none"]
  /\ UNCHANGED <<channel, batch, told, missed, woken, driver>>

Polls(f) ==
  /\ IsOpen(f) /\ At(f, "out")
  /\ reader' = [reader EXCEPT ![f] = [Out EXCEPT !.pc = "prepare", !.call = "poll"]]
  /\ result' = [result EXCEPT ![f] = "none"]
  /\ UNCHANGED <<channel, batch, told, missed, woken, driver>>

\* Seeded fault of Popped: no room is left for the count of what was lost.
PoppedPast(f, max) ==
  [lost |-> IF queue[f] # <<>> THEN lost[f] ELSE 0,
   events |-> SubSeq(queue[f], 1, Min({max, Len(queue[f])}))]

\* ua_event_pop: up to max records, first the count of what was lost.
Popped(f, max) ==
  LET counted == IF queue[f] # <<>> THEN lost[f] ELSE 0
      room == IF counted > 0 THEN max - 1 ELSE max
      n == Min({room, Len(queue[f])})
  IN [lost |-> counted, events |-> SubSeq(queue[f], 1, n)]

\* Seeded fault of Pops: the count of what was lost is not reset.
PopsKeepingLost(f) ==
  LET b == Popped(f, Min({ReadBatch, reader[f].want - reader[f].done})) IN
  /\ At(f, "pop") /\ Records(b) > 0
  /\ batch' = [batch EXCEPT ![f] = b]
  /\ queue' = [queue EXCEPT ![f] = SubSeq(@, Len(b.events) + 1, Len(@))]
  /\ Goes(f, "copy")
  /\ UNCHANGED <<lost, file, offline, posted, result, told, missed, woken, driver>>

Pops(f) ==
  LET b == Popped(f, Min({ReadBatch, reader[f].want - reader[f].done})) IN
  /\ At(f, "pop") /\ Records(b) > 0
  /\ batch' = [batch EXCEPT ![f] = b]
  /\ queue' = [queue EXCEPT ![f] = SubSeq(@, Len(b.events) + 1, Len(@))]
  /\ lost' = [lost EXCEPT ![f] = @ - b.lost]
  /\ Goes(f, "copy")
  /\ UNCHANGED <<file, offline, posted, result, told, missed, woken, driver>>

\* Nothing to pop: the read returns what it has, fails, or waits.
Finds(f) ==
  /\ At(f, "pop") /\ queue[f] = <<>>
  /\ \/ reader[f].done > 0 /\ Returns(f, "events")
     \/ reader[f].done = 0 /\ offline /\ Returns(f, "ENODEV")
     \/ reader[f].done = 0 /\ ~offline /\ ~reader[f].block /\ Returns(f, "EAGAIN")
     \/ reader[f].done = 0 /\ ~offline /\ reader[f].block /\ Goes(f, "prepare") /\ UNCHANGED result
  /\ UNCHANGED <<channel, batch, told, missed, woken, driver>>

\* copy_to_user, and the next turn of the read's loop.
Copies(f) ==
  LET done == reader[f].done + Records(batch[f]) IN
  /\ At(f, "copy")
  /\ told' = [told EXCEPT ![f] = @ + Counts(batch[f])]
  /\ batch' = [batch EXCEPT ![f] = NoBatch]
  /\ \/ /\ done < reader[f].want
        /\ reader' = [reader EXCEPT ![f].pc = "pop", ![f].done = done]
        /\ UNCHANGED result
     \/ done = reader[f].want /\ Returns(f, "events")
  /\ UNCHANGED <<channel, missed, woken, driver>>

\* A copy that faults: the batch is gone, and so is the count of the lost ones.
Faults(f) ==
  /\ At(f, "copy")
  /\ missed' = [missed EXCEPT ![f] = @ + Counts(batch[f])]
  /\ batch' = [batch EXCEPT ![f] = NoBatch]
  /\ Returns(f, IF reader[f].done > 0 THEN "events" ELSE "EFAULT")
  /\ UNCHANGED <<channel, told, woken, driver>>

\* wait_event_interruptible and poll_wait: the thread goes on the wait queue
\* before it looks, and sleeps until somebody has woken it since.
Prepares(f) ==
  /\ At(f, "prepare") /\ Goes(f, "look")
  /\ woken' = [woken EXCEPT ![f] = FALSE]
  /\ UNCHANGED <<channel, batch, result, told, missed, driver>>

\* Seeded fault of Looks: poll reports the end while events are queued.
LooksForTheEnd(f) ==
  /\ At(f, "look")
  /\ \/ /\ reader[f].call = "read" /\ (queue[f] # <<>> \/ offline)
        /\ Goes(f, "pop") /\ UNCHANGED result
     \/ reader[f].call = "poll" /\ queue[f] # <<>> /\ ~offline /\ Returns(f, "IN")
     \/ reader[f].call = "poll" /\ offline /\ Returns(f, "HUP")
     \/ queue[f] = <<>> /\ ~offline /\ Goes(f, "sleep") /\ UNCHANGED result
  /\ UNCHANGED <<channel, batch, told, missed, woken, driver>>

Looks(f) ==
  /\ At(f, "look")
  /\ \/ /\ reader[f].call = "read" /\ (queue[f] # <<>> \/ offline)
        /\ Goes(f, "pop") /\ UNCHANGED result
     \/ reader[f].call = "poll" /\ queue[f] # <<>> /\ Returns(f, "IN")
     \/ reader[f].call = "poll" /\ queue[f] = <<>> /\ offline /\ Returns(f, "HUP")
     \/ queue[f] = <<>> /\ ~offline /\ Goes(f, "sleep") /\ UNCHANGED result
  /\ UNCHANGED <<channel, batch, told, missed, woken, driver>>

Rises(f) ==
  /\ At(f, "sleep") /\ woken[f] /\ Goes(f, "prepare")
  /\ UNCHANGED <<channel, batch, result, told, missed, woken, driver>>

Interrupted(f) ==
  /\ At(f, "sleep") /\ Returns(f, "ERESTARTSYS")
  /\ UNCHANGED <<channel, batch, told, missed, woken, driver>>

------------------------------------------------------------------------------
Works(p)   == Wakes(p) \/ ReadsLast(p) \/ SwapsLast(p) \/ PostsError(p)
Runs(f)    == Pops(f) \/ Finds(f) \/ Copies(f) \/ Prepares(f) \/ Looks(f) \/ Rises(f)

Next ==
  \/ \E p \in Producers : Posts(p) \/ CountsError(p) \/ Works(p)
  \/ Removal \/ Tick
  \/ \E f \in Files :
       \/ Open(f) \/ Close(f) \/ Polls(f) \/ Runs(f) \/ Faults(f) \/ Interrupted(f)
       \/ \E n \in Wants, block \in BOOLEAN : Reads(f, n, block)

Spec == Init /\ [][Next]_vars

\* A producer runs with interrupts off or in an interrupt and ends its call; a
\* thread that can run does; ua_remove goes on once it has begun.
FairSpec ==
  /\ Spec
  /\ \A p \in Producers : WF_vars(Works(p))
  /\ \A f \in Files : WF_vars(Runs(f))
  /\ WF_vars(removal # "no" /\ Removal)

------------------------------------------------------------------------------
\* Properties.

Pcs == {"out", "pop", "copy", "prepare", "look", "sleep"}
TypeOK ==
  /\ queue \in [Files -> Seq(Nat)] /\ \A f \in Files : Len(queue[f]) <= QueueLen
  /\ lost \in [Files -> Nat] /\ told \in [Files -> Nat] /\ missed \in [Files -> Nat]
  /\ file \in [Files -> {"new", "open", "closed"}] /\ offline \in BOOLEAN /\ woken \in [Files -> BOOLEAN]
  /\ reader \in [Files -> [pc : Pcs, call : {"none", "read", "poll"}, want : Nat, done : Nat,
                           block : BOOLEAN]]
  /\ \A f \in Files : At(f, "copy") => reader[f].done + Records(batch[f]) <= reader[f].want
  /\ batch \in [Files -> [lost : Nat, events : Seq(Nat)]]
  /\ posted \in Nat /\ clock \in Nat /\ lastEvent \in Nat

\* "A reader that falls behind finds a UA_EVT_EVENTS_LOST event (arg = events
\* dropped since the last one delivered) in front of the next events it gets":
\* each event's number is one more than all the events before it that the
\* reader was given or told to be lost (or that a failed copy took), in the
\* batch being copied and in the queue, and nothing posted is unaccounted for.
Behind(f) == told[f] + missed[f]
Passed(f) == Behind(f) + Counts(batch[f]) + lost[f]
InOrder(f) ==
  /\ \A i \in DOMAIN batch[f].events : batch[f].events[i] = Behind(f) + batch[f].lost + i
  /\ \A i \in DOMAIN queue[f] : queue[f][i] = Passed(f) + i
  /\ posted = Passed(f) + Len(queue[f])
GapsReported == \A f \in Files : IsOpen(f) => InOrder(f)

\* A file learns that the device is gone (-ENODEV, HUP) only when DEVICE_OFFLINE
\* and all that was posted before it has left its queue.
GoneOnlyWhenDrained ==
  \A f \in Files : result[f] \in {"ENODEV", "HUP"} => offlineNo # 0 /\ Behind(f) >= offlineNo

\* "UA_EVT_DEVICE_OFFLINE is the last event".
OfflineIsLast == \A f \in Files : offlineNo # 0 => told[f] <= offlineNo

\* An error that posts no event has one of its class less than a second before
\* it, or one that came after it or is on its way.
NothingSwallowed ==
  \A t \in silent :
    \/ \E r \in reports : r > t - Second
    \/ \E p \in Producers : producer[p].pc = "post"

\* "At most one event per class per second."
OncePerSecond ==
  \A i \in 1..(Len(claims) - 1) : claims[i + 1] - claims[i] >= Second

\* Nobody sleeps through an event or the end of the device.
NobodyOverslept ==
  \A f \in Files : At(f, "sleep") /\ (queue[f] # <<>> \/ offline) ~> ~At(f, "sleep")

\* A call under way when the device goes offline returns.
CallsReturn == \A f \in Files : offline /\ ~At(f, "out") ~> At(f, "out")
=============================================================================
