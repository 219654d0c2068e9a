----------------------------- MODULE Connection -----------------------------
(***************************************************************************)
(* The connection layer of the console's engine client:                    *)
(* src/console-rs/crates/ua-engine/src/connection.rs.                      *)
(*                                                                         *)
(* Two threads share a handle.  The owner (the UI thread) calls send,      *)
(* request, read_post, set_allow_writes and close; the network thread runs *)
(* connect, session, back off, and answers every request exactly once.     *)
(* The owner's calls are not atomic: send reads the connection state, then *)
(* the generation, then puts the request on the channel, and the network   *)
(* thread may lose and replace the transport between any two of these.     *)
(*                                                                         *)
(* The engine at the other end of the socket is the environment: it        *)
(* answers in order, may push or refuse anything, and may vanish.          *)
(* Time is abstract: a pending request may reach its deadline at any tick. *)
(***************************************************************************)
EXTENDS Integers, Sequences, FiniteSets

CONSTANTS Paths,      \* property paths that are read and written
          MaxId,      \* bound on Shared.next_func_id: requests with a reply
          MaxSends,   \* bound on commands without a reply
          MaxGen,     \* bound on Shared.generation: connections made
          MaxQueue,   \* bound on the request channel
          MaxWire,    \* bound on the socket buffers, each way
          MaxStubs,   \* child stubs an engine may answer the root with
          MaxRounds,  \* rounds of stub walking (16 in the source)
          Reconnects  \* values Options::reconnect may have

ASSUME ConnectionAssumption ==
  /\ {MaxId, MaxSends, MaxGen, MaxQueue, MaxWire, MaxStubs, MaxRounds} \subseteq Nat
  /\ Reconnects \subseteq BOOLEAN

VARIABLES state,       \* Shared.state
          generation,  \* Shared.generation
          closed,      \* Shared.closed
          allowWrites, \* Shared.allow_writes
          reconnect,   \* Options::reconnect, which never changes
          nextId,      \* Shared.next_func_id, for requests of the owner
          sends,       \* commands the owner has begun to send (a bound only)
          answer,      \* what each request's reply channel holds
          owner,       \* where the owner thread is in a call
          tx,          \* the request channel, owner to network task
          net,         \* where the network task is
          sessionGen,  \* the `generation` a session captured when it began
          pending,     \* the session's pending map
          load,        \* the session's TreeLoad
          out,         \* bytes to write in this turn of the select loop
          batch,       \* frames of the current read that are still to ingest
          up, down,    \* the socket, to and from the engine
          peer         \* whether the engine still has the connection open

shared == <<state, generation, closed, allowWrites, reconnect>>
calls  == <<nextId, sends, owner>>
sess   == <<sessionGen, pending, load, out, batch>>
sock   == <<up, down, peer>>
vars   == <<shared, calls, answer, tx, net, sess, sock>>

------------------------------------------------------------------------------
States == {"Idle", "Connecting", "Loading", "Ready", "BackingOff", "Failed", "Closed"}
IsConnected == state \in {"Loading", "Ready"}

Ids == 1..MaxId
Answers == {"none", "ok", "engineError", "timeout", "disconnected", "notConnected", "closed"}

\* Requests.  `sentIn` is a history field: the generation in force at the
\* moment the request went into the channel; no action reads it.
\* A command is "gated" (set and post) or "free" (reads, subscriptions and the
\* /Sleep hint, which is a set the gate lets through).
Classes == {"gated", "free"}
SendRequest == [kind : {"send"}, class : Classes, path : Paths,
                gen : Nat, sentIn : Nat]
ReplyRequest == [kind : {"get", "readPost"}, id : Ids, path : Paths, gen : Nat, sentIn : Nat]
CloseRequest == [kind |-> "close"]
Requests == SendRequest \cup ReplyRequest \cup {CloseRequest}

\* The pending map: who waits for a reply.  `askedIn` is a history field, the
\* session that asks.
Reply(id, path) == [kind |-> "reply", id |-> id, path |-> path, askedIn |-> sessionGen]
TreePending(g)  == [kind |-> "tree", id |-> 0, path |-> "/", askedIn |-> g]
StubPending(i)  == [kind |-> "stub", id |-> i, path |-> "/", askedIn |-> sessionGen]
LoadKinds == {"tree", "stub"}
Pendings == [kind : {"reply"} \cup LoadKinds, id : Nat, path : Paths \cup {"/"}, askedIn : Nat]
Loads == [active : BOOLEAN, stubs : Int, outstanding : Nat, rounds : Nat, failed : BOOLEAN]

NoLoad    == [active |-> FALSE, stubs |-> 0, outstanding |-> 0, rounds |-> 0, failed |-> FALSE]
TreeAsked == [active |-> TRUE, stubs |-> 0, outstanding |-> 1, rounds |-> 0, failed |-> FALSE]

\* Commands on the wire and frames from the engine.
WireSend(r) == [kind |-> "send", class |-> r.class, path |-> r.path, sentIn |-> r.sentIn]
WireAsk(p)  == [kind |-> "ask", about |-> p]
ReplyFrame(p, ok, stubs) == [kind |-> "reply", about |-> p, ok |-> ok, stubs |-> stubs]
PathErrorFrame(path)     == [kind |-> "pathError", path |-> path]
PushFrame                == [kind |-> "push"]
Wires == [kind : {"send"}, class : Classes, path : Paths, sentIn : Nat]
           \cup [kind : {"ask"}, about : Pendings]
Frames == [kind : {"reply"}, about : Pendings, ok : BOOLEAN, stubs : Nat]
            \cup [kind : {"pathError"}, path : Paths] \cup {PushFrame}

RequestsWithReply(q) ==
  {q[i].id : i \in {j \in DOMAIN q : q[j].kind \in {"get", "readPost"}}}
WaitingIds(P) == {p.id : p \in {r \in P : r.kind = "reply"}}

\* Answers `what` to every request in the set `ids`.
Answered(ids, what) == [i \in Ids |-> IF i \in ids THEN what ELSE answer[i]]

Init ==
  /\ state = "Idle" /\ generation = 0 /\ closed = FALSE
  /\ allowWrites \in BOOLEAN /\ reconnect \in Reconnects
  /\ nextId = 1 /\ sends = 0
  /\ answer = [i \in Ids |-> "none"]
  /\ owner = [pc |-> "idle"]
  /\ tx = <<>>
  /\ net = "top"
  /\ sessionGen = 0 /\ pending = {} /\ load = NoLoad /\ out = <<>> /\ batch = 0
  /\ up = <<>> /\ down = <<>> /\ peer = "gone"

------------------------------------------------------------------------------
\* The owner thread.

\* send: the write gate, the closed flag and the state are checked first; a
\* refused command changes nothing here.
OwnerSendCheck ==
  /\ owner.pc = "idle"
  /\ ~closed /\ IsConnected
  /\ sends < MaxSends /\ sends' = sends + 1
  /\ \E class \in Classes, path \in Paths :
       /\ class = "gated" => allowWrites
       /\ owner' = [pc |-> "checked",
                    req |-> [kind |-> "send", class |-> class, path |-> path,
                             gen |-> 0, sentIn |-> 0]]
  /\ UNCHANGED <<shared, nextId, answer, tx, net, sess, sock>>

\* request_with_timeout and read_post: the id is taken before the state is
\* looked at; while disconnected the answer is immediate.
OwnerRequestCheck ==
  /\ owner.pc = "idle"
  /\ ~closed
  /\ nextId <= MaxId
  /\ nextId' = nextId + 1
  /\ \E kind \in {"get", "readPost"}, path \in Paths :
       IF IsConnected
       THEN /\ owner' = [pc |-> "checked",
                         req |-> [kind |-> kind, id |-> nextId, path |-> path,
                                  gen |-> 0, sentIn |-> 0]]
            /\ UNCHANGED answer
       ELSE /\ answer' = Answered({nextId}, "notConnected")
            /\ UNCHANGED owner
  /\ UNCHANGED <<shared, sends, tx, net, sess, sock>>

\* The generation is read after the state; a get carries none.
OwnerStamp ==
  /\ owner.pc = "checked"
  /\ owner' = [pc |-> "stamped", req |-> [owner.req EXCEPT !.gen = generation]]
  /\ UNCHANGED <<shared, nextId, sends, answer, tx, net, sess, sock>>

\* The channel send.  It fails when the network task has ended.
OwnerEnqueue ==
  /\ owner.pc = "stamped"
  /\ Len(tx) < MaxQueue
  /\ owner' = [pc |-> "idle"]
  /\ IF net # "done"
     THEN /\ tx' = Append(tx, [owner.req EXCEPT !.sentIn = generation])
          /\ UNCHANGED answer
     ELSE /\ answer' = IF owner.req.kind = "send" THEN answer
                       ELSE Answered({owner.req.id}, "closed")
          /\ UNCHANGED tx
  /\ UNCHANGED <<shared, nextId, sends, net, sess, sock>>

SetAllowWrites ==
  /\ owner.pc = "idle" /\ ~closed
  /\ allowWrites' = ~allowWrites
  /\ UNCHANGED <<state, generation, closed, reconnect, calls, answer, tx, net, sess, sock>>

\* close: the flag, then a Close request, then the join.
CloseFlag ==
  /\ owner.pc = "idle" /\ ~closed
  /\ closed' = TRUE
  /\ owner' = [pc |-> "closing"]
  /\ UNCHANGED <<state, generation, allowWrites, reconnect, nextId, sends, answer, tx, net, sess, sock>>

\* Seeded fault of CloseRequested: the flag is set, no request is sent.
CloseNotRequested ==
  /\ owner.pc = "closing"
  /\ owner' = [pc |-> "joining"]
  /\ UNCHANGED <<shared, nextId, sends, answer, tx, net, sess, sock>>

CloseRequested ==
  /\ owner.pc = "closing"
  /\ owner' = [pc |-> "joining"]
  /\ tx' = IF net = "done" THEN tx ELSE Append(tx, CloseRequest)
  /\ UNCHANGED <<shared, nextId, sends, answer, net, sess, sock>>

CloseJoined ==
  /\ owner.pc = "joining" /\ net = "done"
  /\ owner' = [pc |-> "joined"]
  /\ UNCHANGED <<shared, nextId, sends, answer, tx, net, sess, sock>>

Owner == \/ OwnerSendCheck \/ OwnerRequestCheck \/ OwnerStamp \/ OwnerEnqueue
         \/ SetAllowWrites \/ CloseFlag \/ CloseRequested \/ CloseJoined

------------------------------------------------------------------------------
\* The network task: run.

\* The task returns: its receiver is dropped, and with it the reply senders of
\* everything still queued (PendingReply reads that as Closed).
TaskEnds(ids, what) ==
  /\ net' = "done"
  /\ tx' = <<>>
  /\ answer' = [i \in Ids |-> IF i \in ids THEN what
                              ELSE IF i \in RequestsWithReply(tx) THEN "closed"
                              ELSE answer[i]]

\* The session is over: its locals and the socket go away.
EndSession ==
  /\ pending' = {} /\ load' = NoLoad /\ out' = <<>> /\ batch' = 0
  /\ up' = <<>> /\ down' = <<>> /\ peer' = "gone"
  /\ UNCHANGED sessionGen

RunTop ==
  /\ net = "top"
  /\ IF closed
     THEN /\ state' = "Closed"
          /\ TaskEnds({}, "closed")
     ELSE /\ state' = "Connecting"
          /\ net' = "connecting"
          /\ UNCHANGED <<answer, tx>>
  /\ UNCHANGED <<generation, closed, allowWrites, reconnect, calls, sess, sock>>

\* What follows a failed connect or a lost session: stop, give up or back off.
AfterLoss(ids) ==
  IF closed
  THEN /\ state' = "Closed"
       /\ TaskEnds(ids, "disconnected")
  ELSE /\ state' = IF reconnect THEN "BackingOff" ELSE "Failed"
       /\ net' = IF reconnect THEN "backoff" ELSE "failed"
       /\ answer' = Answered(ids, "disconnected")
       /\ UNCHANGED tx

ConnectFails ==
  /\ net = "connecting"
  /\ AfterLoss({})
  /\ UNCHANGED <<generation, closed, allowWrites, reconnect, calls, sess, sock>>

\* A new transport: the generation moves, the session captures it and sends
\* its opening, which ends with `get /`, before the select loop starts.
ConnectSucceeds ==
  /\ net = "connecting" /\ generation < MaxGen
  /\ generation' = generation + 1
  /\ sessionGen' = generation + 1
  /\ pending' = {TreePending(generation + 1)}
  /\ load' = TreeAsked
  /\ state' = "Loading"
  /\ out' = <<WireAsk(TreePending(generation + 1))>> /\ batch' = 0
  /\ up' = <<>> /\ down' = <<>> /\ peer' = "open"
  /\ net' = "write"
  /\ UNCHANGED <<closed, allowWrites, reconnect, calls, answer, tx>>

\* Seeded fault of SessionLost: the pending replies are forgotten.
SessionLostSilently ==
  /\ net \in {"select", "write"} /\ peer = "gone"
  /\ AfterLoss({})
  /\ EndSession
  /\ UNCHANGED <<generation, closed, allowWrites, reconnect, calls>>

\* lost: every pending reply is answered Disconnected.
SessionLost ==
  /\ net \in {"select", "write"} /\ peer = "gone"
  /\ AfterLoss(WaitingIds(pending))
  /\ EndSession
  /\ UNCHANGED <<generation, closed, allowWrites, reconnect, calls>>

\* Back-off and, without reconnect, the failed state: requests are rejected.
Reject ==
  /\ net \in {"backoff", "failed"} /\ tx # <<>>
  /\ IF Head(tx).kind = "close"
     THEN /\ state' = IF net = "backoff" THEN "Closed" ELSE state
          /\ TaskEnds({}, "closed")
     ELSE /\ tx' = Tail(tx)
          /\ answer' = IF Head(tx).kind = "send" THEN answer
                       ELSE Answered({Head(tx).id}, "notConnected")
          /\ UNCHANGED <<state, net>>
  /\ UNCHANGED <<generation, closed, allowWrites, reconnect, calls, sess, sock>>

BackoffEnds ==
  /\ net = "backoff"
  /\ net' = "top"
  /\ UNCHANGED <<shared, calls, answer, tx, sess, sock>>

------------------------------------------------------------------------------
\* The network task: one session.

\* A request is taken from the channel; the rest of the queue follows in the
\* same turn ("drain") before anything is written.
TakesRequest == net \in {"select", "drain"} /\ tx # <<>>

\* Close ends the session at once: what this turn had put in `out` is dropped.
HandleClose ==
  /\ TakesRequest /\ Head(tx).kind = "close"
  /\ state' = "Closed"
  /\ TaskEnds(WaitingIds(pending), "closed")
  /\ EndSession
  /\ UNCHANGED <<generation, closed, allowWrites, reconnect, calls>>

\* Seeded faults of Admits: no generation check; no second look at the gate.
AdmitsAnyGeneration(r) == r.class = "gated" => allowWrites
AdmitsShutGate(r) == r.gen = sessionGen

\* A command goes out if it was sent under this session's generation and, for
\* a write, if the gate is (still) open.
Admits(r) == r.gen = sessionGen /\ (r.class = "gated" => allowWrites)

HandleSend ==
  /\ TakesRequest /\ Head(tx).kind = "send"
  /\ net' = "drain" /\ tx' = Tail(tx)
  /\ out' = IF Admits(Head(tx)) THEN Append(out, WireSend(Head(tx))) ELSE out
  /\ UNCHANGED <<shared, calls, answer, sessionGen, pending, load, batch, sock>>

\* A read post of an older generation is answered, not sent; a get has none.
StaleReadPost(r) == r.kind = "readPost" /\ r.gen # sessionGen

RefuseReadPost ==
  /\ TakesRequest /\ StaleReadPost(Head(tx))
  /\ net' = "drain" /\ tx' = Tail(tx)
  /\ answer' = Answered({Head(tx).id}, "disconnected")
  /\ UNCHANGED <<shared, calls, sess, sock>>

HandleAsk ==
  /\ TakesRequest /\ Head(tx).kind \in {"get", "readPost"} /\ ~StaleReadPost(Head(tx))
  /\ net' = "drain" /\ tx' = Tail(tx)
  /\ LET p == Reply(Head(tx).id, Head(tx).path) IN
       /\ out' = Append(out, WireAsk(p))
       /\ pending' = pending \cup {p}
  /\ UNCHANGED <<shared, calls, answer, sessionGen, load, batch, sock>>

QueueDrained ==
  /\ net = "drain" /\ tx = <<>>
  /\ net' = "write"
  /\ UNCHANGED <<shared, calls, answer, tx, sess, sock>>

\* write_all at the end of a turn: it waits while the socket buffer is full.
WriteOut ==
  /\ net = "write" /\ Len(up) + Len(out) <= MaxWire
  /\ up' = IF peer = "open" THEN up \o out ELSE up
  /\ out' = <<>>
  /\ net' = "select"
  /\ UNCHANGED <<shared, calls, answer, tx, sessionGen, pending, load, batch, down, peer>>

\* One read returns some of the frames that have arrived.
Read ==
  /\ net = "select" /\ down # <<>>
  /\ \E n \in 1..Len(down) : batch' = n
  /\ net' = "ingest"
  /\ UNCHANGED <<shared, calls, answer, tx, sessionGen, pending, load, out, sock>>

\* The oldest pending request for a path: an error without a func_id is
\* matched by its path.
PendingForPath(path) ==
  LET same == {p \in pending : p.path = path}
  IN {p \in same : \A q \in same : p.id <= q.id}

\* walk_stubs: nothing while requests are outstanding, another round while
\* stubs are left, then the tree is delivered and the state becomes Ready.
WalkStubs(l, P) ==
  IF l.outstanding > 0 THEN
       /\ load' = l /\ pending' = P
       /\ UNCHANGED <<state, out>>
  ELSE IF l.stubs > 0 /\ l.rounds < MaxRounds THEN
       /\ load' = [l EXCEPT !.rounds = @ + 1, !.outstanding = l.stubs]
       /\ pending' = P \cup {StubPending(i) : i \in 1..l.stubs}
       /\ out' = out \o [i \in 1..l.stubs |-> WireAsk(StubPending(i))]
       /\ UNCHANGED state
  ELSE /\ load' = NoLoad /\ pending' = P
       /\ state' = "Ready"
       /\ UNCHANGED out

\* resolve: what a reply does to the request that waited for it.
Good(f) == f.kind = "reply" /\ f.ok

\* Seeded fault of Counted: a reply is counted twice.
CountedTwice(l) == [l EXCEPT !.outstanding = @ - 2]

Counted(l) == [l EXCEPT !.outstanding = IF @ = 0 THEN 0 ELSE @ - 1]

ResolveReply(p, f) ==
  /\ p.kind = "reply"
  /\ pending' = pending \ {p}
  /\ answer' = Answered({p.id}, IF Good(f) THEN "ok" ELSE "engineError")
  /\ UNCHANGED <<load, out, state>>

ResolveTree(p, f) ==
  /\ p.kind = "tree"
  /\ IF Good(f)
     THEN WalkStubs([Counted(load) EXCEPT !.stubs = f.stubs], pending \ {p})
     ELSE /\ load' = [Counted(load) EXCEPT !.failed = TRUE]
          /\ pending' = pending \ {p}
          /\ UNCHANGED <<out, state>>
  /\ UNCHANGED answer

\* Seeded fault of ResolveStub: a stub the engine refused is not counted.
ResolveStubUncounted(p, f) ==
  /\ p.kind = "stub"
  /\ WalkStubs(IF Good(f) THEN [Counted(load) EXCEPT !.stubs = @ - 1 + f.stubs] ELSE load,
               pending \ {p})
  /\ UNCHANGED answer

\* A stub the engine could not serve stays in the tree and is asked for again
\* in the next round.
ResolveStub(p, f) ==
  /\ p.kind = "stub"
  /\ WalkStubs(IF Good(f) THEN [Counted(load) EXCEPT !.stubs = @ - 1 + f.stubs]
               ELSE Counted(load), pending \ {p})
  /\ UNCHANGED answer

Waiting(f) == IF f.kind = "reply" THEN pending \cap {f.about}
              ELSE IF f.kind = "pathError" THEN PendingForPath(f.path)
              ELSE {}

\* One frame of the batch.  Pushes, set replies, replies nobody waits for any
\* more and unmatched errors go to the store (module ClientStore).
IngestFrame ==
  /\ net = "ingest" /\ batch > 0
  /\ batch' = batch - 1
  /\ down' = Tail(down)
  /\ LET f == Head(down) IN
       \/ Waiting(f) = {} /\ UNCHANGED <<pending, load, out, state, answer>>
       \/ \E p \in Waiting(f) :
            ResolveReply(p, f) \/ ResolveTree(p, f) \/ ResolveStub(p, f)
  /\ UNCHANGED <<generation, closed, allowWrites, reconnect, calls, tx, net, sessionGen, up, peer>>

\* The batch is done: a failed root get ends the session, else the turn's
\* output is written.
IngestEnds ==
  /\ net = "ingest" /\ batch = 0
  /\ IF load.failed
     THEN AfterLoss(WaitingIds(pending)) /\ EndSession
     ELSE /\ net' = "write"
          /\ UNCHANGED <<state, answer, tx, sess, sock>>
  /\ UNCHANGED <<generation, closed, allowWrites, reconnect, calls>>

\* Seeded faults of Expire: the entry stays in the map; only replies expire.
ExpireKept(p) ==
  /\ net = "select" /\ p \in pending
  /\ IF p.kind = "reply"
     THEN /\ answer' = Answered({p.id}, "timeout")
          /\ UNCHANGED <<state, net, tx, sess, sock>>
     ELSE AfterLoss(WaitingIds(pending \ {p})) /\ EndSession
  /\ UNCHANGED <<generation, closed, allowWrites, reconnect, calls>>
ExpireRepliesOnly(p) ==
  /\ net = "select" /\ p \in pending /\ p.kind = "reply"
  /\ pending' = pending \ {p}
  /\ answer' = Answered({p.id}, "timeout")
  /\ UNCHANGED <<shared, calls, net, tx, sessionGen, load, out, batch, sock>>

\* The 250 ms tick finds `p` past its deadline: a reply times out, a tree or
\* stub request loses the session.
Expire(p) ==
  /\ net = "select" /\ p \in pending
  /\ IF p.kind = "reply"
     THEN /\ pending' = pending \ {p}
          /\ answer' = Answered({p.id}, "timeout")
          /\ UNCHANGED <<state, net, tx, sessionGen, load, out, batch, sock>>
     ELSE AfterLoss(WaitingIds(pending \ {p})) /\ EndSession
  /\ UNCHANGED <<generation, closed, allowWrites, reconnect, calls>>

Tick == \E p \in pending : Expire(p)

Network == \/ RunTop \/ ConnectFails \/ ConnectSucceeds \/ SessionLost \/ Reject
           \/ BackoffEnds \/ HandleClose \/ HandleSend \/ RefuseReadPost \/ HandleAsk
           \/ QueueDrained \/ WriteOut \/ Read \/ IngestFrame \/ IngestEnds \/ Tick

------------------------------------------------------------------------------
\* The engine.

EngineServe ==
  /\ peer = "open" /\ up # <<>> /\ Len(down) < MaxWire
  /\ up' = Tail(up)
  /\ LET c == Head(up) IN
     IF c.kind = "send"
     THEN \/ down' = down
          \/ down' = Append(down, PushFrame)
          \/ c.class = "gated" /\ down' = Append(down, PathErrorFrame(c.path))
     ELSE \/ down' = down
          \/ \E ok \in BOOLEAN, n \in 0..MaxStubs :
               /\ c.about.kind = "reply" => n = 0
               /\ c.about.kind = "stub" => n <= 1
               /\ down' = Append(down, ReplyFrame(c.about, ok, n))
  /\ UNCHANGED <<shared, calls, answer, tx, net, sess, peer>>

EngineVanishes ==
  /\ peer = "open"
  /\ peer' = "gone"
  /\ \E n \in 0..Len(down) : n >= batch /\ down' = SubSeq(down, 1, n)
  /\ up' = <<>>
  /\ UNCHANGED <<shared, calls, answer, tx, net, sess>>

Next == Owner \/ Network \/ EngineServe \/ EngineVanishes

\* The network thread keeps running, tokio's select! takes every branch that is
\* ready again and again, and a pending request's deadline does come; the owner
\* finishes a call it has begun; the engine reads its socket.
NetworkFairness ==
  /\ WF_vars(RunTop) /\ WF_vars(ConnectFails) /\ WF_vars(BackoffEnds)
  /\ WF_vars(QueueDrained) /\ WF_vars(WriteOut) /\ WF_vars(IngestFrame) /\ WF_vars(IngestEnds)
  /\ SF_vars(HandleClose \/ HandleSend \/ RefuseReadPost \/ HandleAsk)
  /\ SF_vars(Read) /\ SF_vars(Reject) /\ SF_vars(Tick) /\ SF_vars(SessionLost)
OwnerFairness == WF_vars(OwnerStamp \/ OwnerEnqueue \/ CloseRequested \/ CloseJoined)

Spec == Init /\ [][Next]_vars
FairSpec == Spec /\ NetworkFairness /\ OwnerFairness /\ WF_vars(EngineServe)

------------------------------------------------------------------------------
\* Properties.

TypeOK ==
  /\ state \in States /\ generation \in Nat /\ closed \in BOOLEAN /\ allowWrites \in BOOLEAN
  /\ reconnect \in BOOLEAN /\ nextId \in Nat \ {0} /\ sends \in Nat
  /\ answer \in [Ids -> Answers]
  /\ owner.pc \in {"idle", "checked", "stamped", "closing", "joining", "joined"}
  /\ owner.pc \in {"checked", "stamped"} => owner.req \in SendRequest \cup ReplyRequest
  /\ tx \in Seq(Requests)
  /\ net \in {"top", "connecting", "select", "drain", "ingest", "write", "backoff", "failed", "done"}
  /\ sessionGen \in Nat /\ pending \subseteq Pendings /\ load \in Loads
  /\ out \in Seq(Wires) /\ batch \in 0..Len(down)
  /\ up \in Seq(Wires) /\ down \in Seq(Frames) /\ peer \in {"open", "gone"}

\* Commands are never replayed into a later connection (EngineHandle::send): a
\* command that this session writes entered the channel in this session.
SentIn(g, s) == \A i \in DOMAIN s : s[i].kind = "send" => s[i].sentIn = g
NoReplay == SentIn(sessionGen, out) /\ SentIn(sessionGen, up)

\* The tree load counts exactly the tree and stub requests that are pending, so
\* that it neither ends early nor waits for ever (TreeLoad::outstanding).
LoadAccounting ==
  load.outstanding = Cardinality({p \in pending : p.kind \in LoadKinds})

\* A request is in one place at a time: with the owner, on the channel, in the
\* pending map, or answered.
InHand == IF owner.pc \in {"checked", "stamped"} /\ owner.req.kind # "send" THEN {owner.req.id} ELSE {}
OnePlace ==
  LET queued == RequestsWithReply(tx)
      waiting == WaitingIds(pending)
      done == {i \in Ids : answer[i] # "none"}
  IN /\ InHand \cap (queued \cup waiting \cup done) = {}
     /\ queued \cap (waiting \cup done) = {}
     /\ waiting \cap done = {}
     /\ 1..(nextId - 1) = InHand \cup queued \cup waiting \cup done

\* A reply channel is answered at most once, and by an engine only where the
\* session that asked is the one that answers: a good reply is the frame at hand
\* and is about the request this session has pending.  (A second answer, were it
\* the same again, would find the request pending and answered, which OnePlace
\* excludes.)
AnsweredOnce ==
  [][\A i \in Ids :
       /\ answer[i] # "none" => answer'[i] = answer[i]
       /\ answer'[i] # answer[i] /\ answer'[i] \in {"ok", "engineError"} =>
            \E p \in pending :
              /\ p.kind = "reply" /\ p.id = i /\ p.askedIn = sessionGen /\ p \notin pending'
              /\ answer'[i] = "ok" => Head(down).kind = "reply" /\ Head(down).about = p]_vars

\* Once the gate is shut nothing new that writes is put on its way.
WritesIn(s) == {i \in DOMAIN s : s[i].kind = "send" /\ s[i].class = "gated"}
GateShut ==
  [][~allowWrites /\ ~allowWrites' =>
       Cardinality(WritesIn(out')) + Cardinality(WritesIn(up'))
         <= Cardinality(WritesIn(out)) + Cardinality(WritesIn(up))]_vars

\* Every request is answered: a reply, an error, a timeout, or the news that
\* the connection is gone.
EveryRequestAnswered == \A i \in Ids : (nextId > i) ~> (answer[i] # "none")

\* The tree load ends: Loading is left for Ready or the session is lost.
LoadingEnds == (state = "Loading") ~> (state # "Loading")

\* close joins the network thread, and the join returns.
CloseReturns == closed ~> (owner.pc = "joined")
=============================================================================
