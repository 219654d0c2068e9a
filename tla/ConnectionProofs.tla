--------------------------- MODULE ConnectionProofs ---------------------------
(***************************************************************************)
(* Proofs about module Connection, for every value of its constants.       *)
(*                                                                         *)
(* TypeOK is inductive as it stands.  NoReplay is not: it follows from how *)
(* the generation travels with a command (Stamped), from the fact that a   *)
(* session's generation is the current one for as long as the session      *)
(* lasts (Current), and from the socket being empty outside of a session.  *)
(* OnePlace needs each request to be in its queue or set only once (Once); *)
(* LoadAccounting needs the load's part of the pending set to be finite.   *)
(***************************************************************************)
EXTENDS Connection, SequenceTheorems, FiniteSetTheorems, TLAPS

USE DEF IsConnected, States, Ids, Answers

InSession == {"select", "drain", "ingest", "write"}

------------------------------------------------------------------------------
\* Small facts about the helpers.

\* Answering a set of requests keeps `answer` well typed.
LEMMA AnsweredType ==
  ASSUME TypeOK, NEW ids, NEW what \in Answers
  PROVE  Answered(ids, what) \in [Ids -> Answers]
BY DEF TypeOK, Answered

\* A queue with something taken off its front, or put at its end.
LEMMA Dequeued ==
  ASSUME NEW S, NEW q \in Seq(S), q # <<>>
  PROVE  /\ Head(q) \in S /\ Tail(q) \in Seq(S) /\ Len(q) > 0
         /\ Len(Tail(q)) = Len(q) - 1
         /\ \A i \in 1..Len(Tail(q)) : i + 1 \in 1..Len(q) /\ Tail(q)[i] = q[i + 1]
BY HeadTailProperties

LEMMA Enqueued ==
  ASSUME NEW S, NEW q \in Seq(S), NEW x \in S
  PROVE  /\ Append(q, x) \in Seq(S)
         /\ DOMAIN Append(q, x) = 1..(Len(q) + 1)
         /\ \A i \in 1..(Len(q) + 1) : Append(q, x)[i] = IF i <= Len(q) THEN q[i] ELSE x
BY AppendProperties

\* The end of the task leaves an empty channel and typed answers.
LEMMA TaskEndsType ==
  ASSUME TypeOK, NEW ids, NEW what \in Answers, TaskEnds(ids, what)
  PROVE  answer' \in [Ids -> Answers] /\ tx' = <<>> /\ net' = "done"
BY DEF TaskEnds, TypeOK

\* What follows a loss keeps the types.
LEMMA AfterLossType ==
  ASSUME TypeOK, ConnectionAssumption, NEW ids, AfterLoss(ids)
  PROVE  /\ state' \in States
         /\ answer' \in [Ids -> Answers]
         /\ tx' \in Seq(Requests)
         /\ net' \in {"done", "backoff", "failed"}
<1>1. CASE closed
  BY <1>1 DEF AfterLoss, TaskEnds, TypeOK
<1>2. CASE ~closed
  BY <1>2, AnsweredType DEF AfterLoss, TypeOK
<1>. QED BY <1>1, <1>2

\* The session's locals and the socket after its end.
LEMMA EndSessionType ==
  ASSUME TypeOK, EndSession
  PROVE  /\ sessionGen' \in Nat /\ pending' \subseteq Pendings /\ load' \in Loads
         /\ out' \in Seq(Wires) /\ batch' \in 0..Len(down')
         /\ up' \in Seq(Wires) /\ down' \in Seq(Frames) /\ peer' \in {"open", "gone"}
         /\ out' = <<>> /\ up' = <<>>
BY DEF EndSession, TypeOK, NoLoad, Loads

\* A round of stub walking keeps the types and writes requests only.
LEMMA WalkStubsType ==
  ASSUME TypeOK, NEW l \in Loads, NEW P \in SUBSET Pendings, WalkStubs(l, P)
  PROVE  /\ state' \in States /\ pending' \subseteq Pendings /\ load' \in Loads
         /\ out' \in Seq(Wires)
         /\ \A i \in DOMAIN out' : out'[i].kind = "send" => i \in DOMAIN out /\ out'[i] = out[i]
<1>1. CASE l.outstanding > 0
  BY <1>1 DEF WalkStubs, TypeOK
<1>2. CASE ~(l.outstanding > 0) /\ l.stubs > 0 /\ l.rounds < MaxRounds
  <2>. DEFINE asks == [i \in 1..l.stubs |-> WireAsk(StubPending(i))]
  <2>1. l.stubs \in Nat
    BY <1>2 DEF Loads
  <2>2. \A i \in 1..l.stubs : StubPending(i) \in Pendings
    BY <2>1 DEF TypeOK, StubPending, Pendings, LoadKinds
  <2>3. \A i \in 1..l.stubs : WireAsk(StubPending(i)) \in Wires
                              /\ WireAsk(StubPending(i)).kind = "ask"
    BY <2>2 DEF WireAsk, Wires
  <2>4. asks \in Seq(Wires) /\ Len(asks) = l.stubs
    BY <2>1, <2>3
  <2>5. out' = out \o asks
    BY <1>2 DEF WalkStubs
  <2>10. \A i \in 1..l.stubs : asks[i].kind = "ask"
    BY <2>3
  <2>11. out \in Seq(Wires)
    BY DEF TypeOK
  <2>. HIDE DEF asks
  <2>6. out' \in Seq(Wires) /\ Len(out') = Len(out) + Len(asks)
    <3>1. out \o asks \in Seq(Wires) /\ Len(out \o asks) = Len(out) + Len(asks)
      BY <2>4, <2>11, ConcatProperties, Zenon
    <3>. QED BY <3>1, <2>5, Zenon
  <2>7. \A i \in 1..(Len(out) + Len(asks)) :
          out'[i] = IF i <= Len(out) THEN out[i] ELSE asks[i - Len(out)]
    <3>1. \A i \in 1..(Len(out) + Len(asks)) :
            (out \o asks)[i] = IF i <= Len(out) THEN out[i] ELSE asks[i - Len(out)]
      BY <2>4, <2>11, ConcatProperties, Zenon
    <3>. QED BY <3>1, <2>5, Zenon
  <2>8. \A i \in DOMAIN out' : out'[i].kind = "send" => i \in DOMAIN out /\ out'[i] = out[i]
    <3>. SUFFICES ASSUME NEW i \in DOMAIN out', out'[i].kind = "send"
                  PROVE  i \in DOMAIN out /\ out'[i] = out[i]
      OBVIOUS
    <3>1. i \in 1..(Len(out) + Len(asks))
      BY <2>6
    <3>2. CASE i <= Len(out)
      BY <3>1, <3>2, <2>7, <2>11
    <3>3. CASE ~(i <= Len(out))
      <4>1. i - Len(out) \in 1..l.stubs
        BY <3>1, <3>3, <2>1, <2>4, <2>11
      <4>2. out'[i].kind = "ask"
        BY <3>1, <4>1, <3>3, <2>10, <2>7
      <4>. QED BY <4>2
    <3>. QED BY <3>2, <3>3
  <2>9. load' \in Loads
    <3>. DEFINE m == [l EXCEPT !.rounds = @ + 1]
    <3>1. m \in Loads
      BY DEF Loads
    <3>2. load' = [m EXCEPT !.outstanding = l.stubs]
      BY <1>2, Zenon DEF WalkStubs
    <3>. HIDE DEF m
    <3>. QED BY <2>1, <3>1, <3>2 DEF Loads
  <2>12. pending' \subseteq Pendings /\ state' \in States
    BY <1>2, <2>2 DEF WalkStubs, TypeOK
  <2>. QED BY <2>6, <2>8, <2>9, <2>12
<1>3. CASE ~(l.outstanding > 0) /\ ~(l.stubs > 0 /\ l.rounds < MaxRounds)
  <2>1. load' = NoLoad /\ pending' = P /\ state' = "Ready" /\ out' = out
    BY <1>3, Zenon DEF WalkStubs
  <2>. QED BY <2>1 DEF TypeOK, NoLoad, Loads
<1>. QED BY <1>1, <1>2, <1>3

------------------------------------------------------------------------------
\* Type correctness.

LEMMA InitType == ConnectionAssumption /\ Init => TypeOK
<1>. SUFFICES ASSUME ConnectionAssumption, Init PROVE TypeOK
  OBVIOUS
<1>1. load \in Loads
  BY DEF Init, NoLoad, Loads
<1>2. answer \in [Ids -> Answers]
  BY DEF Init
<1>3. owner.pc = "idle"
  BY DEF Init
<1>4. tx = <<>> /\ out = <<>> /\ up = <<>> /\ down = <<>> /\ batch = 0
  BY DEF Init
<1>5. batch \in 0..Len(down) /\ tx \in Seq(Requests)
      /\ out \in Seq(Wires) /\ up \in Seq(Wires) /\ down \in Seq(Frames)
  BY <1>4
<1>6. state = "Idle" /\ net = "top" /\ peer = "gone" /\ pending = {}
  BY DEF Init
<1>7. generation = 0 /\ sessionGen = 0 /\ nextId = 1 /\ sends = 0
  BY DEF Init
<1>8. closed \in BOOLEAN /\ allowWrites \in BOOLEAN /\ reconnect \in BOOLEAN
  BY DEF Init, ConnectionAssumption
<1>. QED BY <1>1, <1>2, <1>3, <1>5, <1>6, <1>7, <1>8 DEF TypeOK

LEMMA OwnerType == ASSUME TypeOK, ConnectionAssumption, Owner PROVE TypeOK'
<1>. USE DEF shared, calls, sess, sock
<1>1. CASE OwnerSendCheck
  BY <1>1 DEF OwnerSendCheck, TypeOK, SendRequest, Classes
<1>2. CASE OwnerRequestCheck
  <2>1. PICK kind \in {"get", "readPost"}, path \in Paths :
          IF IsConnected
          THEN /\ owner' = [pc |-> "checked", req |-> [kind |-> kind, id |-> nextId, path |-> path,
                                                      gen |-> 0, sentIn |-> 0]]
               /\ UNCHANGED answer
          ELSE /\ answer' = Answered({nextId}, "notConnected")
               /\ UNCHANGED owner
    BY <1>2 DEF OwnerRequestCheck
  <2>2. nextId \in Ids /\ nextId' = nextId + 1
    BY <1>2, SMTT(30) DEF OwnerRequestCheck, TypeOK, ConnectionAssumption
  <2>3. CASE IsConnected
    BY <1>2, <2>1, <2>2, <2>3, SMTT(30) DEF OwnerRequestCheck, TypeOK, ReplyRequest
  <2>4. CASE ~IsConnected
    BY <1>2, <2>1, <2>2, <2>4, AnsweredType, SMTT(30) DEF OwnerRequestCheck, TypeOK
  <2>. QED BY <2>3, <2>4
<1>3. CASE OwnerStamp
  <2>1. owner.req \in SendRequest \cup ReplyRequest /\ generation \in Nat
    BY <1>3 DEF OwnerStamp, TypeOK
  <2>2. [owner.req EXCEPT !.gen = generation] \in SendRequest \cup ReplyRequest
    BY <2>1 DEF SendRequest, ReplyRequest
  <2>. QED BY <1>3, <2>2, SMTT(30) DEF OwnerStamp, TypeOK
<1>4. CASE OwnerEnqueue
  <2>1. owner.req \in SendRequest \cup ReplyRequest /\ generation \in Nat
    BY <1>4 DEF OwnerEnqueue, TypeOK
  <2>2. [owner.req EXCEPT !.sentIn = generation] \in Requests
    BY <2>1 DEF SendRequest, ReplyRequest, Requests
  <2>3. tx' \in Seq(Requests)
    <3>. DEFINE r == [owner.req EXCEPT !.sentIn = generation]
    <3>1. tx' = tx \/ tx' = Append(tx, r)
      BY <1>4, Zenon DEF OwnerEnqueue
    <3>2. r \in Requests
      BY <2>2
    <3>3. tx \in Seq(Requests)
      BY DEF TypeOK
    <3>. HIDE DEF r
    <3>4. Append(tx, r) \in Seq(Requests)
      BY <3>2, <3>3
    <3>. QED BY <3>1, <3>3, <3>4
  <2>4. answer' \in [Ids -> Answers]
    BY <1>4, AnsweredType DEF OwnerEnqueue, TypeOK
  <2>. QED BY <1>4, <2>3, <2>4 DEF OwnerEnqueue, TypeOK
<1>5. CASE SetAllowWrites
  BY <1>5 DEF SetAllowWrites, TypeOK
<1>6. CASE CloseFlag
  BY <1>6 DEF CloseFlag, TypeOK
<1>7. CASE CloseRequested
  BY <1>7 DEF CloseRequested, TypeOK, Requests
<1>8. CASE CloseJoined
  BY <1>8 DEF CloseJoined, TypeOK
<1>. QED
  BY <1>1, <1>2, <1>3, <1>4, <1>5, <1>6, <1>7, <1>8 DEF Owner

\* The parts of the network task outside of a session.
LEMMA RunType ==
  ASSUME TypeOK, ConnectionAssumption,
         RunTop \/ ConnectFails \/ ConnectSucceeds \/ SessionLost \/ Reject \/ BackoffEnds
  PROVE  TypeOK'
<1>. USE DEF shared, calls, sess, sock
<1>1. CASE RunTop
  <2>1. CASE closed
    <3>1. answer' \in [Ids -> Answers] /\ tx' = <<>> /\ net' = "done"
      BY <1>1, <2>1, TaskEndsType DEF RunTop
    <3>. QED BY <1>1, <2>1, <3>1 DEF RunTop, TypeOK
  <2>2. CASE ~closed
    BY <1>1, <2>2 DEF RunTop, TypeOK
  <2>. QED BY <2>1, <2>2
<1>2. CASE ConnectFails
  BY <1>2, AfterLossType DEF ConnectFails, TypeOK
<1>3. CASE ConnectSucceeds
  <2>1. {TreePending(generation + 1)} \subseteq Pendings
    BY DEF TypeOK, TreePending, Pendings, LoadKinds
  <2>2. <<WireAsk(TreePending(generation + 1))>> \in Seq(Wires)
    BY <2>1 DEF WireAsk, Wires
  <2>3. load' \in Loads
    BY <1>3 DEF ConnectSucceeds, TreeAsked, Loads
  <2>. QED BY <1>3, <2>1, <2>2, <2>3 DEF ConnectSucceeds, TypeOK
<1>4. CASE SessionLost
  BY <1>4, AfterLossType, EndSessionType DEF SessionLost, TypeOK
<1>5. CASE Reject
  <2>1. CASE Head(tx).kind = "close"
    <3>1. answer' \in [Ids -> Answers] /\ tx' = <<>> /\ net' = "done"
      BY <1>5, <2>1, TaskEndsType DEF Reject
    <3>. QED BY <1>5, <2>1, <3>1 DEF Reject, TypeOK
  <2>2. CASE Head(tx).kind # "close"
    <3>1. answer' \in [Ids -> Answers]
      BY <1>5, <2>2, AnsweredType DEF Reject, TypeOK
    <3>2. tx' \in Seq(Requests)
      <4>1. tx \in Seq(Requests) /\ tx # <<>> /\ tx' = Tail(tx)
        BY <1>5, <2>2 DEF Reject, TypeOK
      <4>. QED BY <4>1, Dequeued
    <3>. QED BY <1>5, <2>2, <3>1, <3>2, SMTT(30) DEF Reject, TypeOK
  <2>. QED BY <2>1, <2>2
<1>6. CASE BackoffEnds
  BY <1>6 DEF BackoffEnds, TypeOK
<1>. QED
  BY <1>1, <1>2, <1>3, <1>4, <1>5, <1>6

\* The request handling of a session.
LEMMA RequestType ==
  ASSUME TypeOK, ConnectionAssumption,
         HandleClose \/ HandleSend \/ RefuseReadPost \/ HandleAsk \/ QueueDrained \/ WriteOut
  PROVE  TypeOK'
<1>. USE DEF shared, calls, sess, sock
<1>0. ASSUME tx # <<>>
      PROVE  Head(tx) \in Requests /\ Tail(tx) \in Seq(Requests)
  BY <1>0, Dequeued DEF TypeOK
<1>1. CASE HandleClose
  <2>1. answer' \in [Ids -> Answers] /\ tx' = <<>> /\ net' = "done"
    BY <1>1, TaskEndsType DEF HandleClose
  <2>. QED BY <1>1, <2>1, EndSessionType, SMTT(30) DEF HandleClose, TypeOK
<1>2. CASE HandleSend
  <2>. DEFINE w == WireSend(Head(tx))
  <2>1. w \in Wires
    BY <1>0, <1>2 DEF HandleSend, TakesRequest, WireSend, Wires, Requests, SendRequest,
                      ReplyRequest, CloseRequest
  <2>2. out' = out \/ out' = Append(out, w)
    BY <1>2, Zenon DEF HandleSend
  <2>3. out \in Seq(Wires)
    BY DEF TypeOK
  <2>. HIDE DEF w
  <2>4. out' \in Seq(Wires)
    BY <2>1, <2>2, <2>3, SMTT(30)
  <2>5. tx # <<>> /\ tx' = Tail(tx) /\ net' = "drain"
        /\ UNCHANGED <<shared, calls, answer, sessionGen, pending, load, batch, sock>>
    BY <1>2 DEF HandleSend, TakesRequest
  <2>6. tx' \in Seq(Requests)
    BY <1>0, <2>5
  <2>. QED BY <2>4, <2>5, <2>6, SMTT(30) DEF TypeOK
<1>3. CASE RefuseReadPost
  <2>1. answer' \in [Ids -> Answers]
    BY <1>3, AnsweredType DEF RefuseReadPost
  <2>. QED BY <1>0, <1>3, <2>1 DEF RefuseReadPost, TakesRequest, TypeOK
<1>4. CASE HandleAsk
  <2>. DEFINE p == Reply(Head(tx).id, Head(tx).path)
              w == WireAsk(p)
  <2>1. p \in Pendings
    BY <1>0, <1>4 DEF TypeOK, HandleAsk, TakesRequest, Reply, Pendings, Requests, SendRequest,
                      ReplyRequest, CloseRequest
  <2>2. w \in Wires
    BY <2>1 DEF WireAsk, Wires
  <2>3. out' = Append(out, w) /\ pending' = pending \cup {p}
    BY <1>4, Zenon DEF HandleAsk
  <2>4. out \in Seq(Wires)
    BY DEF TypeOK
  <2>. HIDE DEF w, p
  <2>5. out' \in Seq(Wires)
    BY <2>2, <2>3, <2>4
  <2>6. pending' \subseteq Pendings
    BY <2>1, <2>3 DEF TypeOK
  <2>. QED BY <1>0, <1>4, <2>5, <2>6 DEF HandleAsk, TakesRequest, TypeOK
<1>5. CASE QueueDrained
  BY <1>5 DEF QueueDrained, TypeOK
<1>6. CASE WriteOut
  BY <1>6 DEF WriteOut, TypeOK
<1>. QED
  BY <1>1, <1>2, <1>3, <1>4, <1>5, <1>6

\* What a frame does to the request it answers, whatever the frame.
LEMMA ResolveType ==
  ASSUME TypeOK, NEW f \in Frames, NEW p \in pending,
         \/ f.kind = "reply" \/ f.kind = "pathError",
         ResolveReply(p, f) \/ ResolveTree(p, f) \/ ResolveStub(p, f)
  PROVE  /\ state' \in States /\ pending' \subseteq Pendings /\ load' \in Loads
         /\ out' \in Seq(Wires) /\ answer' \in [Ids -> Answers]
         /\ \A i \in DOMAIN out' : out'[i].kind = "send" => i \in DOMAIN out /\ out'[i] = out[i]
<1>. DEFINE P == pending \ {p}
<1>1. P \in SUBSET Pendings
  BY DEF TypeOK
<1>2. Counted(load) \in Loads /\ load \in Loads
  <2>1. load \in Loads
    BY DEF TypeOK
  <2>2. load.outstanding \in Nat
    BY <2>1 DEF Loads
  <2>3. (IF load.outstanding = 0 THEN 0 ELSE load.outstanding - 1) \in Nat
    BY <2>2
  <2>. QED BY <2>1, <2>3 DEF Counted, Loads
<1>3. CASE ResolveReply(p, f)
  BY <1>3, AnsweredType DEF ResolveReply, TypeOK
<1>4. CASE ResolveTree(p, f)
  <2>1. CASE Good(f)
    <3>. DEFINE l == [Counted(load) EXCEPT !.stubs = f.stubs]
    <3>1. f.stubs \in Int
      BY <2>1 DEF Good, Frames, PushFrame
    <3>2. l \in Loads
      BY <1>2, <3>1 DEF Loads
    <3>3. WalkStubs(l, P) /\ answer' = answer
      BY <1>4, <2>1, Zenon DEF ResolveTree
    <3>. HIDE DEF l
    <3>. QED BY <1>1, <3>2, <3>3, WalkStubsType DEF TypeOK
  <2>2. CASE ~Good(f)
    <3>1. load' = [Counted(load) EXCEPT !.failed = TRUE] /\ pending' = P
          /\ UNCHANGED <<out, state, answer>>
      BY <1>4, <2>2, Zenon DEF ResolveTree
    <3>2. load' \in Loads
      BY <1>2, <3>1 DEF Loads
    <3>. QED BY <1>1, <3>1, <3>2 DEF TypeOK
  <2>. QED BY <2>1, <2>2
<1>5. CASE ResolveStub(p, f)
  <2>. DEFINE g == [Counted(load) EXCEPT !.stubs = @ - 1 + f.stubs]
              l == IF Good(f) THEN g ELSE Counted(load)
  <2>1. Good(f) => f.stubs \in Int
    BY DEF Good, Frames, PushFrame
  <2>2. Good(f) => g \in Loads
    BY <1>2, <2>1 DEF Loads
  <2>3. WalkStubs(l, P) /\ answer' = answer
    BY <1>5, Zenon DEF ResolveStub
  <2>. HIDE DEF g
  <2>4. l \in Loads
    BY <1>2, <2>2
  <2>. HIDE DEF l
  <2>. QED BY <1>1, <2>3, <2>4, WalkStubsType DEF TypeOK
<1>. QED BY <1>3, <1>4, <1>5

\* Reading, time and the engine.
LEMMA FrameType ==
  ASSUME TypeOK, ConnectionAssumption, Read \/ IngestFrame \/ IngestEnds \/ Tick
  PROVE  TypeOK'
<1>. USE DEF shared, calls, sess, sock
<1>1. CASE Read
  <2>1. batch' \in 0..Len(down)
    BY <1>1 DEF Read, TypeOK
  <2>. QED BY <1>1, <2>1 DEF Read, TypeOK
<1>2. CASE IngestFrame
  <2>. DEFINE f == Head(down)
  <2>1. down # <<>> /\ down \in Seq(Frames) /\ batch \in 1..Len(down)
    BY <1>2 DEF IngestFrame, TypeOK
  <2>2. f \in Frames /\ down' = Tail(down) /\ down' \in Seq(Frames) /\ batch' \in 0..Len(down')
    BY <1>2, <2>1, Dequeued, SMTT(30) DEF IngestFrame
  <2>3. CASE Waiting(f) = {} /\ UNCHANGED <<pending, load, out, state, answer>>
    BY <1>2, <2>2, <2>3 DEF IngestFrame, TypeOK
  <2>4. ASSUME NEW p \in Waiting(f), ResolveReply(p, f) \/ ResolveTree(p, f) \/ ResolveStub(p, f)
        PROVE  TypeOK'
    <3>1. p \in pending /\ (f.kind = "reply" \/ f.kind = "pathError")
      BY <2>4 DEF Waiting, PendingForPath
    <3>2. /\ state' \in States /\ pending' \subseteq Pendings /\ load' \in Loads
          /\ out' \in Seq(Wires) /\ answer' \in [Ids -> Answers]
      BY <2>2, <2>4, <3>1, ResolveType
    <3>. HIDE DEF f
    <3>. QED BY <1>2, <2>2, <3>2 DEF IngestFrame, TypeOK
  <2>. QED BY <1>2, <2>3, <2>4 DEF IngestFrame
<1>3. CASE IngestEnds
  <2>1. CASE load.failed
    <3>1. AfterLoss(WaitingIds(pending)) /\ EndSession
      BY <1>3, <2>1 DEF IngestEnds
    <3>. QED BY <1>3, <3>1, AfterLossType, EndSessionType DEF IngestEnds, TypeOK
  <2>2. CASE ~load.failed
    BY <1>3, <2>2 DEF IngestEnds, TypeOK
  <2>. QED BY <2>1, <2>2
<1>4. CASE Tick
  <2>1. PICK p \in pending : Expire(p)
    BY <1>4 DEF Tick
  <2>2. CASE p.kind = "reply"
    <3>1. answer' \in [Ids -> Answers]
      <4>1. answer' = Answered({p.id}, "timeout")
        BY <2>1, <2>2 DEF Expire
      <4>. QED BY <4>1, AnsweredType DEF TypeOK
    <3>. QED BY <2>1, <2>2, <3>1 DEF Expire, TypeOK
  <2>3. CASE p.kind # "reply"
    <3>1. AfterLoss(WaitingIds(pending \ {p})) /\ EndSession
      BY <2>1, <2>3 DEF Expire
    <3>. QED BY <2>1, <3>1, AfterLossType, EndSessionType DEF Expire, TypeOK
  <2>. QED BY <2>2, <2>3
<1>. QED BY <1>1, <1>2, <1>3, <1>4

LEMMA EngineType ==
  ASSUME TypeOK, ConnectionAssumption, EngineServe \/ EngineVanishes
  PROVE  TypeOK'
<1>. USE DEF shared, calls, sess, sock
<1>1. CASE EngineServe
  <2>. DEFINE c == Head(up)
  <2>1. up # <<>> /\ up \in Seq(Wires) /\ down \in Seq(Frames) /\ batch \in 0..Len(down)
    BY <1>1 DEF EngineServe, TypeOK
  <2>2. c \in Wires /\ up' \in Seq(Wires)
    BY <1>1, <2>1, Dequeued DEF EngineServe
  <2>3. down' = down \/ \E f \in Frames : down' = Append(down, f)
    <3>1. PushFrame \in Frames
      BY DEF Frames
    <3>2. c.kind = "send" => PathErrorFrame(c.path) \in Frames
      BY <2>2 DEF Frames, PathErrorFrame, Wires
    <3>3. c.kind # "send" => \A ok \in BOOLEAN, n \in 0..MaxStubs :
                               ReplyFrame(c.about, ok, n) \in Frames
      BY <2>2 DEF Frames, ReplyFrame, Wires, ConnectionAssumption
    <3>4. CASE c.kind = "send"
      BY <1>1, <3>1, <3>2, <3>4, Zenon DEF EngineServe
    <3>5. CASE c.kind # "send"
      BY <1>1, <3>3, <3>5, Zenon DEF EngineServe
    <3>. QED BY <3>4, <3>5
  <2>4. down' \in Seq(Frames) /\ Len(down') >= Len(down)
    <3>1. ASSUME NEW f \in Frames, down' = Append(down, f)
          PROVE  down' \in Seq(Frames) /\ Len(down') = Len(down) + 1
      BY <2>1, <3>1, AppendProperties
    <3>. QED BY <2>1, <2>3, <3>1
  <2>5. batch' \in 0..Len(down')
    BY <1>1, <2>1, <2>4 DEF EngineServe
  <2>. QED BY <1>1, <2>2, <2>4, <2>5, SMTT(30) DEF EngineServe, TypeOK
<1>2. CASE EngineVanishes
  <2>1. PICK n \in 0..Len(down) : n >= batch /\ down' = SubSeq(down, 1, n)
    BY <1>2 DEF EngineVanishes
  <2>2. down \in Seq(Frames) /\ batch \in 0..Len(down)
    BY DEF TypeOK
  <2>3. down' \in Seq(Frames) /\ Len(down') = n
    BY <2>1, <2>2
  <2>4. batch' \in 0..Len(down')
    BY <1>2, <2>1, <2>2, <2>3 DEF EngineVanishes
  <2>. QED BY <1>2, <2>3, <2>4 DEF EngineVanishes, TypeOK
<1>. QED BY <1>1, <1>2

LEMMA TypeStep == ASSUME ConnectionAssumption, TypeOK, [Next]_vars PROVE TypeOK'
<1>1. CASE UNCHANGED vars
  BY <1>1 DEF vars, shared, calls, sess, sock, TypeOK
<1>2. CASE Network
  BY <1>2, RunType, RequestType, FrameType DEF Network
<1>. QED
  BY <1>1, <1>2, OwnerType, EngineType DEF Next

\* Every variable keeps its type: in particular only typed requests travel on
\* the channel, only typed frames on the socket, and a batch never counts more
\* frames than have arrived.
THEOREM TypeCorrect == Spec => []TypeOK
<1>1. Init => TypeOK
  BY InitType, ConnectionAssumption
<1>2. TypeOK /\ [Next]_vars => TypeOK'
  BY TypeStep, ConnectionAssumption
<1>. QED BY <1>1, <1>2, PTL DEF Spec

------------------------------------------------------------------------------
\* NoReplay.

\* How the generation travels: it is read before the command goes into the
\* channel, and it never falls.
Stamped ==
  /\ owner.pc = "stamped" => owner.req.gen <= generation
  /\ \A i \in DOMAIN tx : tx[i].kind # "close" =>
       tx[i].gen <= tx[i].sentIn /\ tx[i].sentIn <= generation

\* A session runs under the current generation; outside of one nothing is
\* written and nothing is on the socket.
Current ==
  /\ net \in InSession => sessionGen = generation
  /\ net \notin InSession => out = <<>> /\ up = <<>>

ReplayInv == Stamped /\ Current /\ NoReplay

\* A command that passes the check of a session was put into the channel in
\* that session: its own generation is at most the one it was queued in.
LEMMA AdmittedHere ==
  ASSUME TypeOK, Stamped, Current, net \in InSession, tx # <<>>,
         Head(tx).kind = "send", Admits(Head(tx))
  PROVE  Head(tx).sentIn = sessionGen
<1>1. Head(tx) \in SendRequest /\ Head(tx) = tx[1] /\ 1 \in DOMAIN tx
  BY SMTT(30) DEF TypeOK, Requests, SendRequest, ReplyRequest, CloseRequest
<1>2. tx[1].gen <= tx[1].sentIn /\ tx[1].sentIn <= generation
  BY <1>1 DEF Stamped
<1>3. Head(tx).gen = sessionGen /\ sessionGen = generation
  BY DEF Admits, Current
<1>. QED BY <1>1, <1>2, <1>3 DEF SendRequest, TypeOK

\* Stamped survives when the channel only loses its front and the generation
\* does not fall.
LEMMA StampedDequeue ==
  ASSUME TypeOK, Stamped, tx' = <<>> \/ tx' = tx \/ (tx # <<>> /\ tx' = Tail(tx)),
         owner' = owner, generation' \in {generation, generation + 1}
  PROVE  Stamped'
<1>1. generation \in Nat /\ tx \in Seq(Requests)
  BY DEF TypeOK
<1>2. owner'.pc = "stamped" => owner'.req.gen <= generation'
  BY <1>1, SMTT(30) DEF Stamped, TypeOK, SendRequest, ReplyRequest
<1>3. ASSUME NEW i \in DOMAIN tx', tx'[i].kind # "close"
      PROVE  tx'[i].gen <= tx'[i].sentIn /\ tx'[i].sentIn <= generation'
  <2>1. PICK j \in DOMAIN tx : tx'[i] = tx[j]
    BY <1>1, <1>3, Dequeued
  <2>2. tx[j] \in SendRequest \cup ReplyRequest
    BY <1>1, <1>3, <2>1 DEF Requests, CloseRequest
  <2>3. tx[j].gen <= tx[j].sentIn /\ tx[j].sentIn <= generation
    BY <1>3, <2>1 DEF Stamped
  <2>4. tx[j].sentIn \in Nat
    BY <2>2 DEF SendRequest, ReplyRequest
  <2>. QED BY <1>1, <2>1, <2>3, <2>4
<1>. QED BY <1>2, <1>3 DEF Stamped

\* The end of a session, for whatever reason.
LEMMA ReplayEnd ==
  ASSUME TypeOK, ReplayInv, owner' = owner, generation' = generation,
         tx' = <<>> \/ tx' = tx, net' \notin InSession, out' = <<>>, up' = <<>>
  PROVE  ReplayInv'
<1>1. Stamped'
  BY StampedDequeue DEF ReplayInv
<1>. QED BY <1>1 DEF ReplayInv, Current, NoReplay, SentIn

LEMMA AfterLossReplay ==
  ASSUME NEW ids, AfterLoss(ids)
  PROVE  (tx' = <<>> \/ tx' = tx) /\ net' \notin InSession
BY DEF AfterLoss, TaskEnds, InSession

\* A step that leaves the session's output and the socket alone.
LEMMA ReplaySame ==
  ASSUME TypeOK, ReplayInv, UNCHANGED <<owner, generation, sessionGen, out, up>>,
         tx' = tx \/ (tx # <<>> /\ tx' = Tail(tx)) \/ tx' = <<>>,
         net \in InSession <=> net' \in InSession
  PROVE  ReplayInv'
<1>1. Stamped'
  BY StampedDequeue DEF ReplayInv
<1>. QED BY <1>1 DEF ReplayInv, Current, NoReplay, SentIn

LEMMA OwnerReplay == ASSUME TypeOK, ReplayInv, Owner PROVE ReplayInv'
<1>. USE DEF shared, calls, sess, sock
<1>0. UNCHANGED <<generation, net, sessionGen, out, up>>
  BY DEF Owner, OwnerSendCheck, OwnerRequestCheck, OwnerStamp, OwnerEnqueue, SetAllowWrites,
         CloseFlag, CloseRequested, CloseJoined
<1>1. Current' /\ NoReplay'
  BY <1>0 DEF ReplayInv, Current, NoReplay, SentIn
<1>2. Stamped'
  <2>1. CASE OwnerStamp
    <3>1. owner.req \in SendRequest \cup ReplyRequest /\ generation \in Nat
      BY <2>1 DEF OwnerStamp, TypeOK
    <3>2. owner'.req.gen = generation
      BY <2>1, <3>1 DEF OwnerStamp, SendRequest, ReplyRequest
    <3>. QED BY <1>0, <2>1, <3>1, <3>2 DEF OwnerStamp, ReplayInv, Stamped
  <2>2. CASE OwnerEnqueue
    <3>. DEFINE r == [owner.req EXCEPT !.sentIn = generation]
    <3>1. owner.req \in SendRequest \cup ReplyRequest /\ owner.req.gen <= generation
      BY <2>2 DEF OwnerEnqueue, TypeOK, ReplayInv, Stamped
    <3>6. r \in Requests /\ r.gen = owner.req.gen /\ r.sentIn = generation
          /\ generation \in Nat
      BY <3>1 DEF Requests, SendRequest, ReplyRequest, TypeOK
    <3>2. r \in Requests /\ r.gen <= r.sentIn /\ r.sentIn <= generation
      BY <3>1, <3>6
    <3>3. tx' = tx \/ tx' = Append(tx, r)
      BY <2>2, Zenon DEF OwnerEnqueue
    <3>4. tx \in Seq(Requests) /\ owner'.pc = "idle"
      BY <2>2 DEF OwnerEnqueue, TypeOK
    <3>. HIDE DEF r
    <3>5. ASSUME NEW i \in DOMAIN tx', tx'[i].kind # "close"
          PROVE  tx'[i].gen <= tx'[i].sentIn /\ tx'[i].sentIn <= generation
      <4>1. tx'[i] = r \/ (i \in DOMAIN tx /\ tx'[i] = tx[i])
        BY <3>2, <3>3, <3>4, Enqueued
      <4>. QED BY <3>2, <3>5, <4>1 DEF ReplayInv, Stamped
    <3>. QED BY <1>0, <3>4, <3>5 DEF Stamped
  <2>3. CASE CloseRequested
    <3>1. tx' = tx \/ tx' = Append(tx, CloseRequest)
      BY <2>3 DEF CloseRequested
    <3>2. tx \in Seq(Requests) /\ CloseRequest \in Requests /\ owner'.pc = "joining"
      BY <2>3 DEF CloseRequested, TypeOK, Requests
    <3>3. ASSUME NEW i \in DOMAIN tx', tx'[i].kind # "close"
          PROVE  i \in DOMAIN tx /\ tx'[i] = tx[i]
      <4>1. tx'[i] = CloseRequest \/ (i \in DOMAIN tx /\ tx'[i] = tx[i])
        BY <3>1, <3>2, Enqueued
      <4>. QED BY <3>3, <4>1 DEF CloseRequest
    <3>. QED BY <1>0, <3>2, <3>3 DEF ReplayInv, Stamped
  <2>4. CASE ~(OwnerStamp \/ OwnerEnqueue \/ CloseRequested)
    <3>1. tx' = tx /\ (owner' = owner \/ owner'.pc # "stamped")
      BY <2>4 DEF Owner, OwnerSendCheck, OwnerRequestCheck, SetAllowWrites, CloseFlag, CloseJoined
    <3>. QED BY <1>0, <3>1 DEF ReplayInv, Stamped
  <2>. QED BY <2>1, <2>2, <2>3, <2>4
<1>. QED BY <1>1, <1>2 DEF ReplayInv

LEMMA NetworkReplay == ASSUME TypeOK, ReplayInv, Network PROVE ReplayInv'
<1>. USE DEF shared, calls, sess, sock
<1>1. CASE RunTop
  <2>1. (tx' = tx \/ tx' = <<>>) /\ net \notin InSession /\ net' \notin InSession
    BY <1>1 DEF RunTop, TaskEnds, InSession
  <2>. QED BY <1>1, <2>1, ReplaySame DEF RunTop
<1>2. CASE ConnectFails
  <2>1. (tx' = tx \/ tx' = <<>>) /\ net \notin InSession /\ net' \notin InSession
    BY <1>2, AfterLossReplay DEF ConnectFails, InSession
  <2>. QED BY <1>2, <2>1, ReplaySame DEF ConnectFails
<1>3. CASE ConnectSucceeds
  <2>1. Stamped'
    BY <1>3, StampedDequeue DEF ConnectSucceeds, ReplayInv
  <2>2. net' \in InSession /\ sessionGen' = generation'
    BY <1>3 DEF ConnectSucceeds, InSession
  <2>3. SentIn(sessionGen', out') /\ SentIn(sessionGen', up')
    BY <1>3 DEF ConnectSucceeds, SentIn, WireAsk
  <2>. QED BY <2>1, <2>2, <2>3 DEF ReplayInv, Current, NoReplay
<1>4. CASE SessionLost
  BY <1>4, AfterLossReplay, EndSessionType, ReplayEnd DEF SessionLost
<1>5. CASE Reject
  <2>1. (tx' = <<>> \/ (tx # <<>> /\ tx' = Tail(tx))) /\ net \notin InSession /\ net' \notin InSession
    BY <1>5 DEF Reject, TaskEnds, InSession
  <2>. QED BY <1>5, <2>1, ReplaySame DEF Reject
<1>6. CASE BackoffEnds \/ QueueDrained
  BY <1>6, ReplaySame DEF BackoffEnds, QueueDrained, InSession
<1>7. CASE HandleClose
  <2>1. net' \notin InSession /\ tx' = <<>>
    BY <1>7 DEF HandleClose, TaskEnds, InSession
  <2>. QED BY <1>7, <2>1, EndSessionType, ReplayEnd DEF HandleClose
<1>8. CASE HandleSend
  <2>. DEFINE w == WireSend(Head(tx))
  <2>1. tx # <<>> /\ Head(tx).kind = "send" /\ net \in InSession /\ net' \in InSession
    BY <1>8 DEF HandleSend, TakesRequest, InSession
  <2>2. Stamped'
    BY <1>8, <2>1, StampedDequeue DEF HandleSend, ReplayInv
  <2>3. out' = out \/ (Admits(Head(tx)) /\ out' = Append(out, w))
    BY <1>8, Zenon DEF HandleSend
  <2>4. out \in Seq(Wires) /\ w \in Wires /\ SentIn(sessionGen, out)
    <3>1. out \in Seq(Wires) /\ tx \in Seq(Requests) /\ SentIn(sessionGen, out)
      BY DEF TypeOK, ReplayInv, NoReplay
    <3>2. Head(tx) \in Requests
      BY <2>1, <3>1, Dequeued, Zenon
    <3>3. Head(tx) \in SendRequest
      BY <2>1, <3>2 DEF Requests, SendRequest, ReplyRequest, CloseRequest
    <3>4. w \in Wires
      BY <3>3 DEF SendRequest, WireSend, Wires
    <3>. QED BY <3>1, <3>4
  <2>5. Admits(Head(tx)) => w.sentIn = sessionGen
    BY <2>1, AdmittedHere DEF WireSend, ReplayInv
  <2>. HIDE DEF w
  <2>6. ASSUME NEW i \in DOMAIN out', out'[i].kind = "send"
        PROVE  out'[i].sentIn = sessionGen
    <3>1. (i \in DOMAIN out /\ out'[i] = out[i]) \/ (Admits(Head(tx)) /\ out'[i] = w)
      BY <2>3, <2>4, Enqueued
    <3>. QED BY <2>4, <2>5, <2>6, <3>1 DEF SentIn
  <2>7. Current' /\ NoReplay'
    BY <1>8, <2>1, <2>6 DEF HandleSend, ReplayInv, Current, NoReplay, SentIn
  <2>. QED BY <2>2, <2>7 DEF ReplayInv
<1>9. CASE RefuseReadPost
  BY <1>9, ReplaySame DEF RefuseReadPost, TakesRequest, InSession
<1>10. CASE HandleAsk
  <2>. DEFINE p == Reply(Head(tx).id, Head(tx).path)
              w == WireAsk(p)
  <2>1. tx # <<>> /\ net \in InSession /\ net' \in InSession
    BY <1>10 DEF HandleAsk, TakesRequest, InSession
  <2>2. Stamped'
    BY <1>10, <2>1, StampedDequeue DEF HandleAsk, ReplayInv
  <2>3. out' = Append(out, w) /\ w.kind = "ask"
    BY <1>10, Zenon DEF HandleAsk, WireAsk
  <2>. HIDE DEF w
  <2>4. out \in Seq(Wires)
    BY DEF TypeOK
  <2>5. ASSUME NEW i \in DOMAIN out', out'[i].kind = "send"
        PROVE  i \in DOMAIN out /\ out'[i] = out[i]
    BY <2>3, <2>4, <2>5
  <2>6. Current' /\ NoReplay'
    BY <1>10, <2>1, <2>5 DEF HandleAsk, ReplayInv, Current, NoReplay, SentIn
  <2>. QED BY <2>2, <2>6 DEF ReplayInv
<1>11. CASE WriteOut
  <2>1. net \in InSession /\ net' \in InSession
    BY <1>11 DEF WriteOut, InSession
  <2>2. Stamped'
    BY <1>11, StampedDequeue DEF WriteOut, ReplayInv
  <2>3. up \in Seq(Wires) /\ out \in Seq(Wires)
    BY DEF TypeOK
  <2>4. up' = up \/ up' = up \o out
    BY <1>11 DEF WriteOut
  <2>5. ASSUME NEW i \in DOMAIN up'
        PROVE  \/ i \in DOMAIN up /\ up'[i] = up[i]
               \/ \E j \in DOMAIN out : up'[i] = out[j]
    <3>1. CASE up' = up
      BY <3>1
    <3>2. CASE up' = up \o out
      <4>1. i \in 1..(Len(up) + Len(out))
        BY <2>3, <3>2, ConcatProperties
      <4>2. up'[i] = IF i <= Len(up) THEN up[i] ELSE out[i - Len(up)]
        BY <2>3, <3>2, <4>1, ConcatProperties
      <4>3. CASE i <= Len(up)
        BY <2>3, <4>1, <4>2, <4>3
      <4>4. CASE ~(i <= Len(up))
        <5>1. i - Len(up) \in DOMAIN out
          BY <2>3, <4>1, <4>4
        <5>. QED BY <4>2, <4>4, <5>1
      <4>. QED BY <4>3, <4>4
    <3>. QED BY <2>4, <3>1, <3>2
  <2>6. Current' /\ NoReplay'
    BY <1>11, <2>1, <2>5 DEF WriteOut, ReplayInv, Current, NoReplay, SentIn
  <2>. QED BY <2>2, <2>6 DEF ReplayInv
<1>12. CASE Read
  BY <1>12, ReplaySame DEF Read, InSession
<1>13. CASE IngestFrame
  <2>1. net \in InSession /\ net' \in InSession
    BY <1>13 DEF IngestFrame, InSession
  <2>2. Stamped'
    BY <1>13, StampedDequeue DEF IngestFrame, ReplayInv
  <2>3. \A i \in DOMAIN out' : out'[i].kind = "send" => i \in DOMAIN out /\ out'[i] = out[i]
    <3>. DEFINE f == Head(down)
    <3>1. f \in Frames
      BY <1>13, Dequeued DEF IngestFrame, TypeOK
    <3>2. CASE Waiting(f) = {} /\ UNCHANGED out
      BY <3>2
    <3>3. ASSUME NEW p \in Waiting(f), ResolveReply(p, f) \/ ResolveTree(p, f) \/ ResolveStub(p, f)
          PROVE  \A i \in DOMAIN out' : out'[i].kind = "send" => i \in DOMAIN out /\ out'[i] = out[i]
      <4>1. p \in pending /\ (f.kind = "reply" \/ f.kind = "pathError")
        BY <3>3 DEF Waiting, PendingForPath
      <4>. QED BY <3>1, <3>3, <4>1, ResolveType
    <3>. QED BY <1>13, <3>2, <3>3 DEF IngestFrame
  <2>4. Current' /\ NoReplay'
    BY <1>13, <2>1, <2>3 DEF IngestFrame, ReplayInv, Current, NoReplay, SentIn
  <2>. QED BY <2>2, <2>4 DEF ReplayInv
<1>14. CASE IngestEnds
  <2>1. CASE load.failed
    <3>1. AfterLoss(WaitingIds(pending)) /\ EndSession
      BY <1>14, <2>1 DEF IngestEnds
    <3>. QED BY <1>14, <3>1, AfterLossReplay, EndSessionType, ReplayEnd DEF IngestEnds
  <2>2. CASE ~load.failed
    BY <1>14, <2>2, ReplaySame DEF IngestEnds, InSession
  <2>. QED BY <2>1, <2>2
<1>15. CASE Tick
  <2>1. PICK p \in pending : Expire(p)
    BY <1>15 DEF Tick
  <2>2. CASE p.kind = "reply"
    BY <2>1, <2>2, ReplaySame DEF Expire
  <2>3. CASE p.kind # "reply"
    <3>1. AfterLoss(WaitingIds(pending \ {p})) /\ EndSession
      BY <2>1, <2>3 DEF Expire
    <3>. QED BY <2>1, <3>1, AfterLossReplay, EndSessionType, ReplayEnd DEF Expire
  <2>. QED BY <2>2, <2>3
<1>. QED
  BY <1>1, <1>2, <1>3, <1>4, <1>5, <1>6, <1>7, <1>8, <1>9, <1>10, <1>11, <1>12, <1>13, <1>14, <1>15
     DEF Network

LEMMA EngineReplay == ASSUME TypeOK, ReplayInv, EngineServe \/ EngineVanishes PROVE ReplayInv'
<1>. USE DEF shared, calls, sess, sock
<1>0. UNCHANGED <<generation, owner, tx, net, sessionGen, out>>
  BY DEF EngineServe, EngineVanishes
<1>1. ASSUME NEW i \in DOMAIN up' PROVE \E j \in DOMAIN up : up'[i] = up[j]
  <2>1. up \in Seq(Wires)
    BY DEF TypeOK
  <2>2. CASE EngineServe
    BY <1>1, <2>1, <2>2, Dequeued DEF EngineServe
  <2>3. CASE EngineVanishes
    BY <1>1, <2>3 DEF EngineVanishes
  <2>. QED BY <2>2, <2>3
<1>2. up = <<>> => up' = <<>>
  BY DEF EngineServe, EngineVanishes
<1>. QED BY <1>0, <1>1, <1>2 DEF ReplayInv, Stamped, Current, NoReplay, SentIn

\* A command this session writes, or has written and the engine has yet to
\* read, was put into the channel while this very session was the connection:
\* no command is replayed into a later one (EngineHandle::send).
THEOREM NeverReplayed == Spec => []NoReplay
<1>1. Init => ReplayInv
  BY DEF Init, ReplayInv, Stamped, Current, NoReplay, SentIn, InSession
<1>2. TypeOK /\ ReplayInv /\ [Next]_vars => ReplayInv'
  <2>1. ASSUME TypeOK, ReplayInv, UNCHANGED vars PROVE ReplayInv'
    BY <2>1 DEF vars, shared, calls, sess, sock, ReplayInv, Stamped, Current, NoReplay, SentIn
  <2>. QED BY <2>1, OwnerReplay, NetworkReplay, EngineReplay DEF Next
<1>3. ReplayInv => NoReplay
  BY DEF ReplayInv
<1>. QED BY <1>1, <1>2, <1>3, TypeCorrect, PTL DEF Spec
------------------------------------------------------------------------------
\* OnePlace and AnsweredOnce.

Asks   == {"get", "readPost"}
Queued == RequestsWithReply(tx)
Waits  == WaitingIds(pending)
Done   == {i \in Ids : answer[i] # "none"}

\* A request is on the channel once and in the pending map once, so that taking
\* it out takes it out of its place; nothing is pending outside of a session and
\* nothing is queued for a task that has ended.
Once ==
  /\ \A i, j \in DOMAIN tx : tx[i].kind \in Asks /\ tx[j].kind \in Asks /\ tx[i].id = tx[j].id => i = j
  /\ \A p, q \in pending : p.kind = "reply" /\ q.kind = "reply" /\ p.id = q.id => p = q
  /\ net \notin InSession => pending = {}
  /\ net = "done" => tx = <<>>
  /\ nextId <= MaxId + 1

PlaceInv == OnePlace /\ Once

\* What AnsweredOnce asks of one step.
KeepsAnswers == \A i \in Ids : answer[i] # "none" => answer'[i] = answer[i]

LEMMA OnePlaceIs ==
  ASSUME NEW n, n = nextId
  PROVE  OnePlace <=>
         /\ InHand \cap (Queued \cup Waits \cup Done) = {}
         /\ Queued \cap (Waits \cup Done) = {} /\ Waits \cap Done = {}
         /\ 1..(n - 1) = InHand \cup Queued \cup Waits \cup Done
BY DEF OnePlace, Queued, Waits, Done

\* Every request that is somewhere has been given an id.
LEMMA PlacedIds ==
  ASSUME TypeOK, PlaceInv
  PROVE  /\ InHand \cup Queued \cup Waits \cup Done \subseteq Ids
         /\ nextId \notin InHand \cup Queued \cup Waits \cup Done
<1>1. nextId \in Nat \ {0} /\ nextId <= MaxId + 1 /\ MaxId \in Nat
  BY ConnectionAssumption DEF TypeOK, PlaceInv, Once
<1>2. 1..(nextId - 1) = InHand \cup Queued \cup Waits \cup Done
  BY OnePlaceIs DEF PlaceInv
<1>. QED BY <1>1, <1>2

\* Answering the requests in `ids`.
LEMMA AnsweredIds ==
  ASSUME TypeOK, NEW ids \in SUBSET Ids, NEW what \in Answers \ {"none"},
         answer' = Answered(ids, what)
  PROVE  /\ Done' = Done \cup ids
         /\ ids \cap Done = {} => KeepsAnswers
BY DEF Answered, Done, KeepsAnswers, TypeOK

\* The ids on the channel, after a request was taken from it or put into it.
LEMMA DequeuedIds ==
  ASSUME TypeOK, Once, tx # <<>>, tx' = Tail(tx)
  PROVE  /\ Head(tx).kind \in Asks => /\ Queued' = Queued \ {Head(tx).id}
                                     /\ Head(tx).id \in Queued
         /\ Head(tx).kind \notin Asks => Queued' = Queued
         /\ \A i, j \in DOMAIN tx' :
              tx'[i].kind \in Asks /\ tx'[j].kind \in Asks /\ tx'[i].id = tx'[j].id => i = j
<1>. DEFINE n == Len(tx)
            h == Head(tx)
<1>1. /\ n \in Nat /\ n >= 1 /\ DOMAIN tx = 1..n /\ tx[1] = h
      /\ DOMAIN tx' = 1..(n - 1) /\ \A i \in 1..(n - 1) : i + 1 \in 1..n /\ tx'[i] = tx[i + 1]
  BY Dequeued DEF TypeOK
<1>2. Queued = {tx[i].id : i \in {j \in 1..n : tx[j].kind \in Asks}}
  BY <1>1 DEF Queued, RequestsWithReply, Asks
<1>3. Queued' = {tx'[i].id : i \in {j \in 1..(n - 1) : tx'[j].kind \in Asks}}
  BY <1>1 DEF Queued, RequestsWithReply, Asks
<1>. HIDE DEF n, h
<1>4. \A i \in 2..n : i - 1 \in 1..(n - 1) /\ tx'[i - 1] = tx[i]
  BY <1>1
<1>5. Queued' = {tx[i].id : i \in {j \in 2..n : tx[j].kind \in Asks}}
  <2>1. ASSUME NEW x \in Queued' PROVE x \in {tx[i].id : i \in {j \in 2..n : tx[j].kind \in Asks}}
    <3>1. PICK i \in 1..(n - 1) : tx'[i].kind \in Asks /\ x = tx'[i].id
      BY <1>3, <2>1
    <3>2. i + 1 \in 2..n /\ tx'[i] = tx[i + 1]
      BY <1>1, <3>1
    <3>. QED BY <3>1, <3>2
  <2>2. ASSUME NEW i \in 2..n, tx[i].kind \in Asks PROVE tx[i].id \in Queued'
    BY <1>3, <1>4, <2>2
  <2>. QED BY <2>1, <2>2
<1>6. 1..n = {1} \cup 2..n /\ 1 \notin 2..n
  BY <1>1
<1>7. \A i \in 2..n : h.kind \in Asks /\ tx[i].kind \in Asks => tx[i].id # h.id
  BY <1>1, <1>6 DEF Once
<1>8. h.kind \in Asks => Queued' = Queued \ {h.id} /\ h.id \in Queued
  BY <1>1, <1>2, <1>5, <1>6, <1>7
<1>9. h.kind \notin Asks => Queued' = Queued
  BY <1>1, <1>2, <1>5, <1>6
<1>10. \A i, j \in DOMAIN tx' :
         tx'[i].kind \in Asks /\ tx'[j].kind \in Asks /\ tx'[i].id = tx'[j].id => i = j
  <2>. SUFFICES ASSUME NEW i \in 1..(n - 1), NEW j \in 1..(n - 1), tx'[i].kind \in Asks,
                       tx'[j].kind \in Asks, tx'[i].id = tx'[j].id
                PROVE  i = j
    BY <1>1
  <2>1. i + 1 \in DOMAIN tx /\ j + 1 \in DOMAIN tx /\ tx'[i] = tx[i + 1] /\ tx'[j] = tx[j + 1]
    BY <1>1
  <2>2. i + 1 = j + 1
    BY <2>1 DEF Once
  <2>. QED BY <2>2
<1>. QED BY <1>8, <1>9, <1>10 DEF h

LEMMA EnqueuedIds ==
  ASSUME TypeOK, Once, NEW r \in Requests, tx' = Append(tx, r),
         r.kind \in Asks => r.id \notin Queued
  PROVE  /\ r.kind \in Asks => Queued' = Queued \cup {r.id}
         /\ r.kind \notin Asks => Queued' = Queued
         /\ \A i, j \in DOMAIN tx' :
              tx'[i].kind \in Asks /\ tx'[j].kind \in Asks /\ tx'[i].id = tx'[j].id => i = j
<1>. DEFINE n == Len(tx)
<1>1. /\ n \in Nat /\ DOMAIN tx = 1..n /\ DOMAIN tx' = 1..(n + 1) /\ tx'[n + 1] = r
      /\ \A i \in 1..n : tx'[i] = tx[i]
  BY Enqueued DEF TypeOK
<1>2. Queued = {tx[i].id : i \in {j \in 1..n : tx[j].kind \in Asks}}
  BY <1>1 DEF Queued, RequestsWithReply, Asks
<1>3. Queued' = {tx'[i].id : i \in {j \in 1..(n + 1) : tx'[j].kind \in Asks}}
  BY <1>1 DEF Queued, RequestsWithReply, Asks
<1>. HIDE DEF n
<1>4. 1..(n + 1) = 1..n \cup {n + 1} /\ n + 1 \notin 1..n
  BY <1>1
<1>5. r.kind \in Asks => Queued' = Queued \cup {r.id}
  BY <1>1, <1>2, <1>3, <1>4
<1>6. r.kind \notin Asks => Queued' = Queued
  BY <1>1, <1>2, <1>3, <1>4
<1>7. \A i, j \in DOMAIN tx' :
        tx'[i].kind \in Asks /\ tx'[j].kind \in Asks /\ tx'[i].id = tx'[j].id => i = j
  <2>. SUFFICES ASSUME NEW i \in 1..(n + 1), NEW j \in 1..(n + 1), tx'[i].kind \in Asks,
                       tx'[j].kind \in Asks, tx'[i].id = tx'[j].id
                PROVE  i = j
    BY <1>1
  <2>1. \A k \in 1..n : tx'[k].kind \in Asks => tx'[k].id \in Queued
    BY <1>1, <1>2
  <2>2. CASE i \in 1..n /\ j \in 1..n
    BY <1>1, <2>2 DEF Once
  <2>3. CASE i = n + 1 \/ j = n + 1
    BY <1>1, <1>4, <2>1, <2>3
  <2>. QED BY <1>4, <2>2, <2>3
<1>. QED BY <1>5, <1>6, <1>7

\* The ids in the pending map, after one of its entries was resolved.
LEMMA ResolvedIds ==
  ASSUME Once, NEW p \in pending, NEW P, P = pending \ {p}
  PROVE  /\ p.kind = "reply" => WaitingIds(P) = Waits \ {p.id} /\ p.id \in Waits
         /\ p.kind # "reply" => WaitingIds(P) = Waits
BY DEF Once, Waits, WaitingIds

\* The four places, after a step that keeps the owner's request where it is.
LEMMA PlacesMoved ==
  ASSUME TypeOK, PlaceInv, InHand' = InHand, nextId' = nextId, Once',
         Queued' \cup Waits' \cup Done' = Queued \cup Waits \cup Done,
         Queued' \cap (Waits' \cup Done') = {}, Waits' \cap Done' = {}
  PROVE  PlaceInv'
<1>1. /\ InHand \cap (Queued \cup Waits \cup Done) = {}
      /\ 1..(nextId - 1) = InHand \cup Queued \cup Waits \cup Done
  BY OnePlaceIs DEF PlaceInv
<1>2. OnePlace' <=>
         /\ InHand' \cap (Queued' \cup Waits' \cup Done') = {}
         /\ Queued' \cap (Waits' \cup Done') = {} /\ Waits' \cap Done' = {}
         /\ 1..(nextId' - 1) = InHand' \cup Queued' \cup Waits' \cup Done'
  BY DEF OnePlace, Queued, Waits, Done
<1>. HIDE DEF InHand, Queued, Waits, Done, Once
<1>3. OnePlace'
  BY <1>1, <1>2, Zenon
<1>. QED BY <1>3 DEF PlaceInv

\* A step that touches none of what the four places are read from.
LEMMA PlacesSame ==
  ASSUME PlaceInv, UNCHANGED <<nextId, answer, owner, tx, pending>>,
         net' \in InSession \/ pending = {}, net' = "done" => net = "done"
  PROVE  PlaceInv' /\ KeepsAnswers
<1>1. OnePlace'
  <2>1. InHand' = InHand /\ RequestsWithReply(tx') = RequestsWithReply(tx)
        /\ WaitingIds(pending') = WaitingIds(pending)
    BY DEF InHand
  <2>2. {i \in Ids : answer'[i] # "none"} = {i \in Ids : answer[i] # "none"}
        /\ nextId' = nextId
    OBVIOUS
  <2>. QED BY <2>1, <2>2 DEF PlaceInv, OnePlace
<1>2. Once'
  BY DEF PlaceInv, Once
<1>3. KeepsAnswers
  BY DEF KeepsAnswers
<1>. QED BY <1>1, <1>2, <1>3 DEF PlaceInv

\* The end of the task answers what is queued and what is pending.
LEMMA TaskEndsPlaces ==
  ASSUME TypeOK, PlaceInv, NEW what \in Answers \ {"none"},
         TaskEnds(Waits, what), pending' = {}, UNCHANGED <<nextId, owner>>
  PROVE  PlaceInv' /\ KeepsAnswers
<1>1. Waits \subseteq Ids /\ Queued \subseteq Ids
  BY PlacedIds
<1>2. /\ Queued \cap (Waits \cup Done) = {} /\ Waits \cap Done = {}
  BY OnePlaceIs DEF PlaceInv
<1>3. tx' = <<>> /\ net' = "done"
      /\ answer' = [i \in Ids |-> IF i \in Waits THEN what
                                  ELSE IF i \in Queued THEN "closed" ELSE answer[i]]
  BY DEF TaskEnds, Queued
<1>. HIDE DEF Ids, Answers
<1>4. Done' = Done \cup Waits \cup Queued
  <2>1. Done' = {i \in Ids : answer'[i] # "none"}
    BY DEF Done
  <2>. HIDE DEF Waits, Queued
  <2>. QED BY <1>1, <1>3, <2>1 DEF Done
<1>5. Queued' = {} /\ Waits' = {}
  BY <1>3 DEF Queued, RequestsWithReply, Waits, WaitingIds
<1>6. KeepsAnswers
  <2>. HIDE DEF Waits, Queued
  <2>. QED BY <1>2, <1>3 DEF KeepsAnswers, Done
<1>7. Once'
  BY <1>3 DEF Once, PlaceInv
<1>8. InHand' = InHand
  BY DEF InHand
<1>9. PlaceInv'
  <2>. HIDE DEF Waits, Queued, Done, InHand, Once
  <2>. QED BY <1>4, <1>5, <1>7, <1>8, PlacesMoved
<1>. QED BY <1>6, <1>9

LEMMA AfterLossPlaces ==
  ASSUME TypeOK, PlaceInv, AfterLoss(Waits), pending' = {}, UNCHANGED <<nextId, owner>>
  PROVE  PlaceInv' /\ KeepsAnswers
<1>1. CASE closed
  BY <1>1, TaskEndsPlaces DEF AfterLoss
<1>2. CASE ~closed
  <2>1. tx' = tx /\ net' \in {"backoff", "failed"} /\ answer' = Answered(Waits, "disconnected")
    BY <1>2 DEF AfterLoss
  <2>2. Waits \subseteq Ids
    BY PlacedIds
  <2>3. /\ Queued \cap (Waits \cup Done) = {} /\ Waits \cap Done = {}
    BY OnePlaceIs DEF PlaceInv
  <2>4. Done' = Done \cup Waits /\ KeepsAnswers
    BY <2>1, <2>2, <2>3, AnsweredIds
  <2>5. Queued' = Queued /\ Waits' = {} /\ InHand' = InHand
    BY <2>1 DEF Queued, RequestsWithReply, Waits, WaitingIds, InHand
  <2>6. Once'
    BY <2>1 DEF Once, PlaceInv
  <2>. HIDE DEF Waits, Queued, Done, InHand, Once
  <2>. QED BY <2>3, <2>4, <2>5, <2>6, PlacesMoved
<1>. QED BY <1>1, <1>2

\* The owner's calls.
LEMMA OwnerPlaces ==
  ASSUME ConnectionAssumption, TypeOK, PlaceInv, Owner
  PROVE  PlaceInv' /\ KeepsAnswers
<1>0. /\ InHand \cap (Queued \cup Waits \cup Done) = {}
      /\ Queued \cap (Waits \cup Done) = {} /\ Waits \cap Done = {}
      /\ 1..(nextId - 1) = InHand \cup Queued \cup Waits \cup Done
  BY OnePlaceIs DEF PlaceInv
<1>a. OnePlace' <=>
         /\ InHand' \cap (Queued' \cup Waits' \cup Done') = {}
         /\ Queued' \cap (Waits' \cup Done') = {} /\ Waits' \cap Done' = {}
         /\ 1..(nextId' - 1) = InHand' \cup Queued' \cup Waits' \cup Done'
  BY DEF OnePlace, Queued, Waits, Done
<1>b. /\ InHand \cup Queued \cup Waits \cup Done \subseteq Ids
      /\ nextId \notin InHand \cup Queued \cup Waits \cup Done
  BY PlacedIds
<1>c. Once
  BY DEF PlaceInv
<1>d. nextId \in Nat \ {0} /\ MaxId \in Nat
  BY ConnectionAssumption DEF TypeOK
<1>1. CASE OwnerSendCheck
  <2>1. InHand = {} /\ InHand' = {}
    BY <1>1 DEF OwnerSendCheck, InHand
  <2>2. UNCHANGED <<nextId, answer, tx, pending, net>>
    BY <1>1 DEF OwnerSendCheck, sess
  <2>3. Queued' = Queued /\ Waits' = Waits /\ Done' = Done /\ Once' /\ KeepsAnswers
    BY <2>2, <1>c DEF Queued, RequestsWithReply, Waits, WaitingIds, Done, Once, KeepsAnswers
  <2>. HIDE DEF Waits, Queued, Done, InHand, Once
  <2>. QED BY <1>0, <2>1, <2>2, <2>3, PlacesMoved
<1>2. CASE OwnerRequestCheck
  <2>1. /\ nextId' = nextId + 1 /\ nextId \in Ids /\ owner.pc = "idle"
        /\ UNCHANGED <<tx, net, pending>>
    BY <1>2, <1>d DEF OwnerRequestCheck, sess
  <2>2. InHand = {} /\ 1..(nextId' - 1) = (1..(nextId - 1)) \cup {nextId}
    BY <2>1, <1>d DEF InHand
  <2>3. Queued' = Queued /\ Waits' = Waits /\ Once'
    BY <2>1, <1>c, <1>d DEF Queued, RequestsWithReply, Waits, WaitingIds, Once
  <2>4. CASE InHand' = {nextId} /\ answer' = answer
    <3>1. Done' = Done /\ KeepsAnswers
      BY <2>4 DEF Done, KeepsAnswers
    <3>2. OnePlace'
      <4>. HIDE DEF Waits, Queued, Done, InHand, Once, Ids
      <4>. QED BY <1>0, <1>a, <1>b, <2>2, <2>3, <2>4, <3>1
    <3>. QED BY <2>3, <3>1, <3>2 DEF PlaceInv
  <2>5. CASE InHand' = {} /\ answer' = Answered({nextId}, "notConnected")
    <3>1. Done' = Done \cup {nextId} /\ KeepsAnswers
      <4>1. {nextId} \cap Done = {} /\ {nextId} \in SUBSET Ids
        BY <1>b, <2>1
      <4>. QED BY <4>1, <2>5, AnsweredIds
    <3>2. OnePlace'
      <4>. HIDE DEF Waits, Queued, Done, InHand, Once, Ids
      <4>. QED BY <1>0, <1>a, <1>b, <2>2, <2>3, <2>5, <3>1
    <3>. QED BY <2>3, <3>1, <3>2 DEF PlaceInv
  <2>6. \/ InHand' = {nextId} /\ answer' = answer
        \/ InHand' = {} /\ answer' = Answered({nextId}, "notConnected")
    BY <1>2 DEF OwnerRequestCheck, InHand
  <2>. QED BY <2>4, <2>5, <2>6
<1>3. CASE OwnerStamp
  <2>1. InHand' = InHand
    BY <1>3 DEF OwnerStamp, InHand, TypeOK, SendRequest, ReplyRequest
  <2>2. UNCHANGED <<nextId, answer, tx, pending, net>>
    BY <1>3 DEF OwnerStamp, sess
  <2>3. Queued' = Queued /\ Waits' = Waits /\ Done' = Done /\ Once' /\ KeepsAnswers
    BY <2>2, <1>c DEF Queued, RequestsWithReply, Waits, WaitingIds, Done, Once, KeepsAnswers
  <2>. HIDE DEF Waits, Queued, Done, InHand, Once
  <2>. QED BY <1>0, <2>1, <2>2, <2>3, PlacesMoved
<1>4. CASE OwnerEnqueue
  <2>. DEFINE r == owner.req
              e == [owner.req EXCEPT !.sentIn = generation]
  <2>1. /\ r \in SendRequest \cup ReplyRequest /\ e \in Requests
        /\ e.kind = r.kind /\ (r.kind \in Asks => e.id = r.id)
        /\ (r.kind \in Asks <=> r.kind # "send")
        /\ InHand' = {} /\ UNCHANGED <<nextId, pending, net>>
    BY <1>4 DEF OwnerEnqueue, TypeOK, SendRequest, ReplyRequest, Requests, Asks, InHand, sess
  <2>2. InHand = IF r.kind \in Asks THEN {r.id} ELSE {}
    BY <1>4, <2>1 DEF OwnerEnqueue, InHand
  <2>3. Waits' = Waits
    BY <2>1 DEF Waits, WaitingIds
  <2>4. CASE net # "done"
    <3>1. tx' = Append(tx, e) /\ answer' = answer
      BY <1>4, <2>4 DEF OwnerEnqueue
    <3>2. e.kind \in Asks => e.id \notin Queued
      BY <1>0, <2>1, <2>2
    <3>3. /\ e.kind \in Asks => Queued' = Queued \cup {e.id}
          /\ e.kind \notin Asks => Queued' = Queued
          /\ \A i, j \in DOMAIN tx' :
               tx'[i].kind \in Asks /\ tx'[j].kind \in Asks /\ tx'[i].id = tx'[j].id => i = j
      <4>. HIDE DEF e, r, Once
      <4>. QED BY <1>c, <2>1, <3>1, <3>2, EnqueuedIds
    <3>4. Done' = Done /\ KeepsAnswers
      BY <3>1 DEF Done, KeepsAnswers
    <3>5. Once'
      BY <1>c, <2>1, <2>4, <3>3 DEF Once
    <3>6. OnePlace'
      <4>. HIDE DEF Waits, Queued, Done, InHand, Once, Ids, e, r
      <4>. QED BY <1>0, <1>a, <2>1, <2>2, <2>3, <3>3, <3>4
    <3>. QED BY <3>4, <3>5, <3>6 DEF PlaceInv
  <2>5. CASE net = "done"
    <3>1. tx' = tx /\ answer' = IF r.kind = "send" THEN answer ELSE Answered({r.id}, "closed")
      BY <1>4, <2>5 DEF OwnerEnqueue
    <3>2. Queued' = Queued /\ Once'
      BY <1>c, <2>1, <3>1 DEF Queued, RequestsWithReply, Once
    <3>3. Done' = Done \cup InHand /\ KeepsAnswers
      <4>1. CASE r.kind \in Asks
        <5>1. answer' = Answered({r.id}, "closed") /\ {r.id} \in SUBSET Ids /\ {r.id} \cap Done = {}
          BY <1>0, <1>b, <2>1, <2>2, <3>1, <4>1
        <5>. QED BY <2>2, <4>1, <5>1, AnsweredIds
      <4>2. CASE r.kind \notin Asks
        BY <2>1, <2>2, <3>1, <4>2 DEF Done, KeepsAnswers
      <4>. QED BY <4>1, <4>2
    <3>4. OnePlace'
      <4>. HIDE DEF Waits, Queued, Done, InHand, Once, Ids, e, r
      <4>. QED BY <1>0, <1>a, <2>1, <2>3, <3>2, <3>3
    <3>. QED BY <3>2, <3>3, <3>4 DEF PlaceInv
  <2>. QED BY <2>4, <2>5
<1>5. CASE SetAllowWrites
  <2>1. UNCHANGED <<nextId, answer, owner, tx, pending, net>>
    BY <1>5 DEF SetAllowWrites, sess, calls
  <2>. QED BY <2>1, <1>c, PlacesSame DEF Once
<1>6. CASE CloseFlag \/ CloseJoined
  <2>1. InHand = {} /\ InHand' = {}
    BY <1>6 DEF CloseFlag, CloseJoined, InHand
  <2>2. UNCHANGED <<nextId, answer, tx, pending, net>>
    BY <1>6 DEF CloseFlag, CloseJoined, sess
  <2>3. Queued' = Queued /\ Waits' = Waits /\ Done' = Done /\ Once' /\ KeepsAnswers
    BY <2>2, <1>c DEF Queued, RequestsWithReply, Waits, WaitingIds, Done, Once, KeepsAnswers
  <2>. HIDE DEF Waits, Queued, Done, InHand, Once
  <2>. QED BY <1>0, <2>1, <2>2, <2>3, PlacesMoved
<1>7. CASE CloseRequested
  <2>1. InHand = {} /\ InHand' = {} /\ UNCHANGED <<nextId, answer, pending, net>>
    BY <1>7 DEF CloseRequested, InHand, sess
  <2>2. Waits' = Waits /\ Done' = Done /\ KeepsAnswers
    BY <2>1 DEF Waits, WaitingIds, Done, KeepsAnswers
  <2>3. Queued' = Queued /\ Once'
    <3>1. CASE net = "done"
      BY <1>7, <1>c, <2>1, <3>1 DEF CloseRequested, Queued, RequestsWithReply, Once
    <3>2. CASE net # "done"
      <4>1. tx' = Append(tx, CloseRequest) /\ CloseRequest \in Requests /\ CloseRequest.kind \notin Asks
        BY <1>7, <3>2 DEF CloseRequested, Requests, CloseRequest, Asks
      <4>2. /\ Queued' = Queued
            /\ \A i, j \in DOMAIN tx' :
                 tx'[i].kind \in Asks /\ tx'[j].kind \in Asks /\ tx'[i].id = tx'[j].id => i = j
        <5>. HIDE DEF CloseRequest, Once, Asks
        <5>. QED BY <1>c, <4>1, EnqueuedIds
      <4>. QED BY <1>c, <2>1, <3>2, <4>2 DEF Once
    <3>. QED BY <3>1, <3>2
  <2>. HIDE DEF Waits, Queued, Done, InHand, Once
  <2>. QED BY <1>0, <2>1, <2>2, <2>3, PlacesMoved
<1>. QED BY <1>1, <1>2, <1>3, <1>4, <1>5, <1>6, <1>7 DEF Owner

\* What a reply, an error or a deadline resolves leaves the pending map once.
LEMMA ResolvedPlaces ==
  ASSUME TypeOK, PlaceInv, NEW p \in pending, p.kind = "reply", NEW what \in Answers \ {"none"},
         answer' = Answered({p.id}, what), pending' = pending \ {p},
         UNCHANGED <<nextId, owner, tx, net>>
  PROVE  PlaceInv' /\ KeepsAnswers
<1>1. Waits' = Waits \ {p.id} /\ p.id \in Waits
  BY ResolvedIds DEF PlaceInv, Waits
<1>2. Waits \subseteq Ids
  BY PlacedIds
<1>3. /\ Queued \cap (Waits \cup Done) = {} /\ Waits \cap Done = {}
  BY OnePlaceIs DEF PlaceInv
<1>4. Done' = Done \cup {p.id} /\ KeepsAnswers
  <2>1. {p.id} \in SUBSET Ids /\ {p.id} \cap Done = {}
    BY <1>1, <1>2, <1>3
  <2>. QED BY <2>1, AnsweredIds
<1>5. Queued' = Queued /\ InHand' = InHand /\ Once'
  BY DEF Queued, RequestsWithReply, InHand, Once, PlaceInv
<1>. HIDE DEF Waits, Queued, Done, InHand, Once
<1>. QED BY <1>1, <1>3, <1>4, <1>5, PlacesMoved

\* A tree or stub request is resolved, or more of them are asked.
LEMMA LoadPlaces ==
  ASSUME TypeOK, PlaceInv, UNCHANGED <<nextId, answer, owner, tx, net>>, net \in InSession,
         Waits' = Waits,
         \A q \in pending' : q.kind = "reply" => q \in pending
  PROVE  PlaceInv' /\ KeepsAnswers
<1>1. Queued' = Queued /\ InHand' = InHand /\ Done' = Done /\ Once' /\ KeepsAnswers
  BY DEF Queued, RequestsWithReply, InHand, Done, Once, PlaceInv, KeepsAnswers, InSession
<1>2. /\ Queued \cap (Waits \cup Done) = {} /\ Waits \cap Done = {}
  BY OnePlaceIs DEF PlaceInv
<1>. HIDE DEF Waits, Queued, Done, InHand, Once
<1>. QED BY <1>1, <1>2, PlacesMoved

\* Walking the stubs neither forgets nor adds a request that waits.
LEMMA WalkStubsWaits ==
  ASSUME NEW l, NEW P, WalkStubs(l, P)
  PROVE  /\ WaitingIds(pending') = WaitingIds(P)
         /\ \A q \in pending' : q.kind = "reply" => q \in P
<1>1. CASE l.outstanding > 0
  BY <1>1 DEF WalkStubs
<1>2. CASE ~(l.outstanding > 0) /\ l.stubs > 0 /\ l.rounds < MaxRounds
  <2>1. pending' = P \cup {StubPending(i) : i \in 1..l.stubs}
    BY <1>2 DEF WalkStubs
  <2>2. \A i \in 1..l.stubs : StubPending(i).kind = "stub"
    BY DEF StubPending
  <2>. QED BY <2>1, <2>2 DEF WaitingIds
<1>3. CASE ~(l.outstanding > 0) /\ ~(l.stubs > 0 /\ l.rounds < MaxRounds)
  BY <1>3 DEF WalkStubs
<1>. QED BY <1>1, <1>2, <1>3

LEMMA FramePlaces ==
  ASSUME TypeOK, PlaceInv, IngestFrame
  PROVE  PlaceInv' /\ KeepsAnswers
<1>. DEFINE f == Head(down)
<1>1. UNCHANGED <<nextId, owner, tx, net>> /\ net = "ingest"
  BY DEF IngestFrame, calls
<1>2. CASE UNCHANGED <<pending, answer>>
  BY <1>1, <1>2, PlacesSame DEF InSession
<1>3. ASSUME NEW p \in Waiting(f), ResolveReply(p, f) PROVE PlaceInv' /\ KeepsAnswers
  <2>1. p \in pending
    BY DEF Waiting, PendingForPath
  <2>2. /\ p.kind = "reply" /\ pending' = pending \ {p}
        /\ \E what \in Answers \ {"none"} : answer' = Answered({p.id}, what)
    BY <1>3 DEF ResolveReply
  <2>. QED BY <1>1, <2>1, <2>2, ResolvedPlaces
<1>4. ASSUME NEW p \in Waiting(f), ResolveTree(p, f) \/ ResolveStub(p, f) PROVE PlaceInv' /\ KeepsAnswers
  <2>1. p \in pending
    BY DEF Waiting, PendingForPath
  <2>2. /\ p.kind # "reply" /\ answer' = answer
        /\ \/ pending' = pending \ {p}
           \/ \E l : WalkStubs(l, pending \ {p})
    BY <1>4 DEF ResolveTree, ResolveStub
  <2>3. WaitingIds(pending \ {p}) = Waits
    BY <2>1, <2>2, ResolvedIds DEF PlaceInv
  <2>4. /\ Waits' = WaitingIds(pending \ {p})
        /\ \A q \in pending' : q.kind = "reply" => q \in pending
    BY <2>2, WalkStubsWaits DEF Waits
  <2>. HIDE DEF Waits
  <2>. QED BY <1>1, <2>2, <2>3, <2>4, LoadPlaces DEF InSession
<1>. HIDE DEF f
<1>5. \/ UNCHANGED <<pending, answer>>
      \/ \E p \in Waiting(f) : ResolveReply(p, f) \/ ResolveTree(p, f) \/ ResolveStub(p, f)
  BY DEF IngestFrame, f
<1>. QED BY <1>2, <1>3, <1>4, <1>5

\* The session's requests.
LEMMA RequestPlaces ==
  ASSUME TypeOK, PlaceInv, HandleClose \/ HandleSend \/ RefuseReadPost \/ HandleAsk
  PROVE  PlaceInv' /\ KeepsAnswers
<1>. DEFINE r == Head(tx)
<1>0. /\ Queued \cap (Waits \cup Done) = {} /\ Waits \cap Done = {}
      /\ InHand \cup Queued \cup Waits \cup Done \subseteq Ids /\ Once
  BY OnePlaceIs, PlacedIds DEF PlaceInv
<1>1. CASE HandleClose
  BY <1>1, TaskEndsPlaces DEF HandleClose, EndSession, calls, Waits
<1>2. CASE HandleSend
  <2>1. /\ tx # <<>> /\ tx' = Tail(tx) /\ r.kind = "send" /\ net' = "drain"
        /\ UNCHANGED <<nextId, answer, owner, pending>>
    BY <1>2 DEF HandleSend, TakesRequest, calls
  <2>2. Queued' = Queued /\ Once'
    BY <1>0, <2>1, DequeuedIds DEF Once, Asks, InSession
  <2>3. Waits' = Waits /\ Done' = Done /\ InHand' = InHand /\ KeepsAnswers
    BY <2>1 DEF Waits, WaitingIds, Done, InHand, KeepsAnswers
  <2>. HIDE DEF Waits, Queued, Done, InHand, Once
  <2>. QED BY <1>0, <2>1, <2>2, <2>3, PlacesMoved
<1>3. CASE RefuseReadPost
  <2>1. /\ tx # <<>> /\ tx' = Tail(tx) /\ r.kind \in Asks /\ net' = "drain"
        /\ answer' = Answered({r.id}, "disconnected")
        /\ UNCHANGED <<nextId, owner, pending>>
    BY <1>3 DEF RefuseReadPost, TakesRequest, StaleReadPost, calls, sess, Asks
  <2>2. Queued' = Queued \ {r.id} /\ r.id \in Queued /\ Once'
    BY <1>0, <2>1, DequeuedIds DEF Once, InSession
  <2>3. Waits' = Waits /\ InHand' = InHand
    BY <2>1 DEF Waits, WaitingIds, InHand
  <2>4. Done' = Done \cup {r.id} /\ KeepsAnswers
    <3>1. {r.id} \in SUBSET Ids /\ {r.id} \cap Done = {}
      BY <1>0, <2>2
    <3>. QED BY <2>1, <3>1, AnsweredIds
  <2>. HIDE DEF Waits, Queued, Done, InHand, Once
  <2>. QED BY <1>0, <2>1, <2>2, <2>3, <2>4, PlacesMoved
<1>4. CASE HandleAsk
  <2>1. /\ tx # <<>> /\ tx' = Tail(tx) /\ r.kind \in Asks /\ net' = "drain"
        /\ pending' = pending \cup {Reply(r.id, r.path)}
        /\ UNCHANGED <<nextId, owner, answer>>
    BY <1>4 DEF HandleAsk, TakesRequest, calls, Asks
  <2>2. Queued' = Queued \ {r.id} /\ r.id \in Queued
    BY <1>0, <2>1, DequeuedIds
  <2>3. Reply(r.id, r.path).kind = "reply" /\ Reply(r.id, r.path).id = r.id
    BY DEF Reply
  <2>4. Waits' = Waits \cup {r.id}
    BY <2>1, <2>3 DEF Waits, WaitingIds
  <2>5. Once'
    <3>1. \A q \in pending : q.kind = "reply" => q.id # r.id
      BY <1>0, <2>2 DEF Waits, WaitingIds
    <3>2. \A i, j \in DOMAIN tx' :
            tx'[i].kind \in Asks /\ tx'[j].kind \in Asks /\ tx'[i].id = tx'[j].id => i = j
      BY <1>0, <2>1, DequeuedIds
    <3>. HIDE DEF r, Asks
    <3>. QED BY <1>0, <2>1, <2>3, <3>1, <3>2 DEF Once, InSession
  <2>6. Done' = Done /\ InHand' = InHand /\ KeepsAnswers
    BY <2>1 DEF Done, InHand, KeepsAnswers
  <2>. HIDE DEF Waits, Queued, Done, InHand, Once
  <2>. QED BY <1>0, <2>1, <2>2, <2>4, <2>5, <2>6, PlacesMoved
<1>. QED BY <1>1, <1>2, <1>3, <1>4

\* The rest of the network task, outside of a session and around it.
LEMMA TaskPlaces ==
  ASSUME TypeOK, PlaceInv,
         RunTop \/ ConnectFails \/ ConnectSucceeds \/ SessionLost \/ Reject
         \/ BackoffEnds \/ QueueDrained \/ WriteOut \/ Read \/ IngestEnds
  PROVE  PlaceInv' /\ KeepsAnswers
<1>0. Once
  BY DEF PlaceInv
<1>a. pending = {} => Waits = {}
  BY DEF Waits, WaitingIds
<1>1. CASE RunTop
  <2>1. pending = {} /\ pending' = {} /\ UNCHANGED <<nextId, owner>>
    BY <1>0, <1>1 DEF RunTop, Once, InSession, sess, calls
  <2>2. CASE closed
    BY <1>a, <1>1, <2>1, <2>2, TaskEndsPlaces DEF RunTop
  <2>3. CASE ~closed
    BY <1>1, <2>1, <2>3, PlacesSame DEF RunTop
  <2>. QED BY <2>2, <2>3
<1>2. CASE ConnectFails
  <2>1. pending = {} /\ pending' = {} /\ UNCHANGED <<nextId, owner>>
    BY <1>0, <1>2 DEF ConnectFails, Once, InSession, sess, calls
  <2>. QED BY <1>a, <1>2, <2>1, AfterLossPlaces DEF ConnectFails
<1>3. CASE ConnectSucceeds
  <2>1. /\ pending = {} /\ pending' = {TreePending(generation + 1)} /\ TreePending(generation + 1).kind = "tree" /\ net' = "write"
        /\ UNCHANGED <<nextId, owner, answer, tx>>
    BY <1>0, <1>3 DEF ConnectSucceeds, Once, InSession, TreePending, calls
  <2>2. /\ Queued' = Queued /\ Waits' = {} /\ Waits = {} /\ Done' = Done /\ InHand' = InHand
        /\ Once' /\ KeepsAnswers
    BY <1>0, <2>1 DEF Queued, RequestsWithReply, Waits, WaitingIds, Done, InHand, Once, KeepsAnswers, InSession
  <2>3. /\ Queued \cap (Waits \cup Done) = {} /\ Waits \cap Done = {}
    BY OnePlaceIs DEF PlaceInv
  <2>. HIDE DEF Waits, Queued, Done, InHand, Once
  <2>. QED BY <2>1, <2>2, <2>3, PlacesMoved
<1>4. CASE SessionLost
  BY <1>4, AfterLossPlaces DEF SessionLost, EndSession, calls, Waits
<1>5. CASE Reject
  <2>1. /\ pending = {} /\ pending' = {} /\ UNCHANGED <<nextId, owner>> /\ tx # <<>>
        /\ net \in {"backoff", "failed"}
    BY <1>0, <1>5 DEF Reject, Once, InSession, sess, calls
  <2>2. CASE Head(tx).kind = "close"
    BY <1>a, <1>5, <2>1, <2>2, TaskEndsPlaces DEF Reject
  <2>3. CASE Head(tx).kind # "close"
    <3>. DEFINE r == Head(tx)
    <3>1. /\ tx' = Tail(tx) /\ net' = net
          /\ answer' = IF r.kind = "send" THEN answer ELSE Answered({r.id}, "notConnected")
      BY <1>5, <2>3 DEF Reject
    <3>2. r.kind \in Asks \/ r.kind = "send"
      BY <2>1, <2>3, Dequeued DEF TypeOK, Requests, SendRequest, ReplyRequest, CloseRequest, Asks
    <3>3. /\ Queued \cap (Waits \cup Done) = {} /\ Waits \cap Done = {}
          /\ InHand \cup Queued \cup Waits \cup Done \subseteq Ids
      BY OnePlaceIs, PlacedIds DEF PlaceInv
    <3>4. InHand' = InHand /\ Waits' = Waits
      BY <2>1 DEF InHand, Waits, WaitingIds
    <3>5. Once'
      BY <1>0, <2>1, <3>1, DequeuedIds DEF Once, InSession
    <3>6. CASE r.kind \in Asks
      <4>1. Queued' = Queued \ {r.id} /\ r.id \in Queued
        BY <1>0, <2>1, <3>1, <3>6, DequeuedIds
      <4>2. Done' = Done \cup {r.id} /\ KeepsAnswers
        <5>1. {r.id} \in SUBSET Ids /\ {r.id} \cap Done = {} /\ answer' = Answered({r.id}, "notConnected")
          BY <3>1, <3>3, <3>6, <4>1 DEF Asks
        <5>. QED BY <5>1, AnsweredIds
      <4>. HIDE DEF Waits, Queued, Done, InHand, Once, r
      <4>. QED BY <2>1, <3>3, <3>4, <3>5, <4>1, <4>2, PlacesMoved
    <3>7. CASE r.kind = "send"
      <4>1. Queued' = Queued
        BY <1>0, <2>1, <3>1, <3>7, DequeuedIds DEF Asks
      <4>2. Done' = Done /\ KeepsAnswers
        BY <3>1, <3>7 DEF Done, KeepsAnswers
      <4>. HIDE DEF Waits, Queued, Done, InHand, Once, r
      <4>. QED BY <2>1, <3>3, <3>4, <3>5, <4>1, <4>2, PlacesMoved
    <3>. QED BY <3>2, <3>6, <3>7
  <2>. QED BY <2>2, <2>3
<1>6. CASE BackoffEnds
  <2>1. pending = {} /\ UNCHANGED <<nextId, answer, owner, tx, pending>> /\ net' = "top"
    BY <1>0, <1>6 DEF BackoffEnds, Once, InSession, sess, calls
  <2>. QED BY <2>1, PlacesSame
<1>7. CASE QueueDrained \/ WriteOut \/ Read
  <2>1. UNCHANGED <<nextId, answer, owner, tx, pending>> /\ net' \in InSession
    BY <1>7 DEF QueueDrained, WriteOut, Read, InSession, sess, calls
  <2>. QED BY <2>1, PlacesSame DEF InSession
<1>8. CASE IngestEnds
  <2>1. CASE load.failed
    BY <1>8, <2>1, AfterLossPlaces DEF IngestEnds, EndSession, calls, Waits
  <2>2. CASE ~load.failed
    BY <1>8, <2>2, PlacesSame DEF IngestEnds, InSession, sess, calls
  <2>. QED BY <2>1, <2>2
<1>. QED BY <1>1, <1>2, <1>3, <1>4, <1>5, <1>6, <1>7, <1>8

\* A deadline.
LEMMA TickPlaces ==
  ASSUME TypeOK, PlaceInv, Tick
  PROVE  PlaceInv' /\ KeepsAnswers
<1>1. PICK p \in pending : Expire(p)
  BY DEF Tick
<1>2. UNCHANGED <<nextId, owner>>
  BY <1>1 DEF Expire, calls
<1>3. CASE p.kind = "reply"
  <2>1. /\ pending' = pending \ {p} /\ answer' = Answered({p.id}, "timeout")
        /\ UNCHANGED <<net, tx>>
    BY <1>1, <1>3 DEF Expire
  <2>. QED BY <1>2, <1>3, <2>1, ResolvedPlaces
<1>4. CASE p.kind # "reply"
  <2>1. WaitingIds(pending \ {p}) = Waits
    BY <1>4, ResolvedIds DEF PlaceInv
  <2>2. AfterLoss(Waits) /\ pending' = {}
    <3>. HIDE DEF Waits
    <3>. QED BY <1>1, <1>4, <2>1 DEF Expire, EndSession
  <2>. QED BY <1>2, <2>2, AfterLossPlaces
<1>. QED BY <1>3, <1>4

LEMMA PlaceStep ==
  ASSUME ConnectionAssumption, TypeOK, PlaceInv, [Next]_vars
  PROVE  PlaceInv' /\ KeepsAnswers
<1>1. CASE Owner
  BY <1>1, OwnerPlaces
<1>2. CASE Network
  BY <1>2, RequestPlaces, FramePlaces, TaskPlaces, TickPlaces DEF Network
<1>3. CASE EngineServe \/ EngineVanishes \/ UNCHANGED vars
  <2>1. UNCHANGED <<nextId, answer, owner, tx, pending, net>>
    BY <1>3 DEF EngineServe, EngineVanishes, vars, calls, sess
  <2>. QED BY <2>1, PlacesSame DEF PlaceInv, Once
<1>. QED BY <1>1, <1>2, <1>3 DEF Next

LEMMA PlaceInit == ASSUME ConnectionAssumption, Init PROVE PlaceInv
<1>1. /\ nextId = 1 /\ tx = <<>> /\ pending = {} /\ owner.pc = "idle" /\ net = "top"
      /\ answer = [i \in Ids |-> "none"] /\ MaxId \in Nat
  BY ConnectionAssumption DEF Init
<1>2. InHand = {} /\ Queued = {} /\ Waits = {} /\ Done = {}
  BY <1>1 DEF InHand, Queued, RequestsWithReply, Waits, WaitingIds, Done
<1>3. 1..(nextId - 1) = {}
  BY <1>1
<1>4. OnePlace
  <2>. HIDE DEF InHand, Queued, Waits, Done
  <2>. QED BY <1>2, <1>3, OnePlaceIs
<1>5. Once
  BY <1>1 DEF Once, InSession
<1>. QED BY <1>4, <1>5 DEF PlaceInv

LEMMA PlaceAlways == Spec => [](TypeOK /\ PlaceInv)
<1>1. ConnectionAssumption
  BY ConnectionAssumption
<1>2. Init => TypeOK /\ PlaceInv
  BY <1>1, InitType, PlaceInit
<1>3. TypeOK /\ PlaceInv /\ [Next]_vars => TypeOK' /\ PlaceInv'
  BY <1>1, TypeStep, PlaceStep
<1>. QED BY <1>2, <1>3, PTL DEF Spec

\* A request with a reply is in one place at a time - with the owner, on the
\* channel, in the pending map or answered - and none that was given an id is
\* in none of them: nothing is lost between the threads (PendingReply).
THEOREM InOnePlace == Spec => []OnePlace
<1>1. PlaceInv => OnePlace
  BY DEF PlaceInv
<1>. QED BY <1>1, PlaceAlways, PTL

\* What is pending was asked for in the session that is on.
Asked == \A p \in pending : p.askedIn = sessionGen

LEMMA AskedStep == ASSUME Asked, [Next]_vars PROVE Asked'
<1>. USE DEF shared, calls, sess, sock
<1>1. CASE Owner \/ EngineServe \/ EngineVanishes \/ UNCHANGED vars
  <2>1. UNCHANGED <<pending, sessionGen>>
    BY <1>1 DEF Owner, OwnerSendCheck, OwnerRequestCheck, OwnerStamp, OwnerEnqueue, SetAllowWrites,
                CloseFlag, CloseRequested, CloseJoined, EngineServe, EngineVanishes, vars
  <2>. QED BY <2>1 DEF Asked
<1>2. CASE ConnectSucceeds
  BY <1>2 DEF ConnectSucceeds, Asked, TreePending
<1>3. CASE HandleAsk
  BY <1>3 DEF HandleAsk, Asked, Reply
<1>4. CASE IngestFrame
  <2>1. sessionGen' = sessionGen
    BY <1>4 DEF IngestFrame
  <2>2. ASSUME NEW P \in SUBSET pending, NEW l, WalkStubs(l, P)
        PROVE  Asked'
    BY <2>1, <2>2 DEF WalkStubs, StubPending, Asked
  <2>3. ASSUME pending' \in SUBSET pending
        PROVE  Asked'
    BY <2>1, <2>3 DEF Asked
  <2>4. ASSUME NEW p, NEW f, ResolveReply(p, f) \/ ResolveTree(p, f) \/ ResolveStub(p, f)
        PROVE  Asked'
    <3>1. pending \ {p} \in SUBSET pending
      OBVIOUS
    <3>2. pending' = pending \ {p} \/ \E l : WalkStubs(l, pending \ {p})
      BY <2>4, Zenon DEF ResolveReply, ResolveTree, ResolveStub
    <3>. QED BY <2>2, <2>3, <3>1, <3>2
  <2>. QED BY <1>4, <2>3, <2>4, Zenon DEF IngestFrame
<1>5. CASE Network /\ ~ConnectSucceeds /\ ~HandleAsk /\ ~IngestFrame
  <2>1. pending' \in SUBSET pending /\ sessionGen' = sessionGen
    BY <1>5 DEF Network, RunTop, ConnectFails, SessionLost, Reject, BackoffEnds, HandleClose,
                HandleSend, RefuseReadPost, QueueDrained, WriteOut, Read, IngestEnds, Tick, Expire,
                EndSession
  <2>. QED BY <2>1 DEF Asked
<1>. QED BY <1>1, <1>2, <1>3, <1>4, <1>5 DEF Next

\* What AnsweredOnce asks of an answer the engine gave.
ByEngine == {"ok", "engineError"}
FromThisSession(i) ==
  \E p \in pending :
    /\ p.kind = "reply" /\ p.id = i /\ p.askedIn = sessionGen /\ p \notin pending'
    /\ answer'[i] = "ok" => Head(down).kind = "reply" /\ Head(down).about = p

\* Answers of the console itself.
LEMMA OwnAnswer ==
  ASSUME NEW ids, NEW what, what \notin ByEngine, answer' = Answered(ids, what), NEW i \in Ids
  PROVE  answer'[i] = answer[i] \/ answer'[i] \notin ByEngine
BY DEF Answered

LEMMA TaskEndsAnswer ==
  ASSUME NEW ids, NEW what, what \notin ByEngine, TaskEnds(ids, what), NEW i \in Ids
  PROVE  answer'[i] = answer[i] \/ answer'[i] \notin ByEngine
BY DEF TaskEnds, ByEngine

LEMMA AfterLossAnswer ==
  ASSUME NEW ids, AfterLoss(ids), NEW i \in Ids
  PROVE  answer'[i] = answer[i] \/ answer'[i] \notin ByEngine
<1>1. "disconnected" \notin ByEngine
  BY DEF ByEngine
<1>. QED BY <1>1, OwnAnswer, TaskEndsAnswer DEF AfterLoss

\* Only a frame answers in the engine's name.
LEMMA EngineAnswers ==
  ASSUME Asked, [Next]_vars, NEW i \in Ids, answer'[i] # answer[i], answer'[i] \in ByEngine
  PROVE  FromThisSession(i)
<1>. USE DEF shared, calls, sess, sock
<1>0. {"notConnected", "closed", "disconnected", "timeout"} \cap ByEngine = {}
  BY DEF ByEngine
<1>1. CASE Owner
  <2>1. \/ answer' = answer
        \/ \E ids : \E what \in {"notConnected", "closed"} : answer' = Answered(ids, what)
    BY <1>1 DEF Owner, OwnerSendCheck, OwnerRequestCheck, OwnerStamp, OwnerEnqueue, SetAllowWrites,
                CloseFlag, CloseRequested, CloseJoined
  <2>. QED BY <1>0, <2>1, OwnAnswer
<1>2. CASE EngineServe \/ EngineVanishes \/ UNCHANGED vars
  BY <1>2 DEF EngineServe, EngineVanishes, vars
<1>3. CASE RunTop \/ ConnectFails \/ SessionLost \/ HandleClose \/ IngestEnds
  <2>1. \/ answer' = answer
        \/ \E ids : AfterLoss(ids)
        \/ \E ids : TaskEnds(ids, "closed")
    BY <1>3 DEF RunTop, ConnectFails, SessionLost, HandleClose, IngestEnds
  <2>. QED BY <1>0, <2>1, AfterLossAnswer, TaskEndsAnswer
<1>4. CASE Reject \/ RefuseReadPost
  <2>1. \/ answer' = answer
        \/ \E ids : TaskEnds(ids, "closed")
        \/ \E ids : \E what \in {"notConnected", "disconnected"} : answer' = Answered(ids, what)
    BY <1>4 DEF Reject, RefuseReadPost
  <2>. QED BY <1>0, <2>1, OwnAnswer, TaskEndsAnswer
<1>5. CASE Tick
  <2>1. \/ \E ids : answer' = Answered(ids, "timeout")
        \/ \E ids : AfterLoss(ids)
    BY <1>5 DEF Tick, Expire
  <2>. QED BY <1>0, <2>1, OwnAnswer, AfterLossAnswer
<1>6. CASE ConnectSucceeds \/ BackoffEnds \/ HandleSend \/ HandleAsk \/ QueueDrained \/ WriteOut \/ Read
  BY <1>6 DEF ConnectSucceeds, BackoffEnds, HandleSend, HandleAsk, QueueDrained, WriteOut, Read
<1>7. CASE IngestFrame
  <2>. DEFINE f == Head(down)
  <2>1. PICK p \in Waiting(f) : ResolveReply(p, f)
    BY <1>7 DEF IngestFrame, ResolveTree, ResolveStub
  <2>2. p \in pending /\ (f.kind = "reply" => f.about = p)
    BY <2>1 DEF Waiting, PendingForPath
  <2>3. p.id = i /\ p.kind = "reply" /\ p \notin pending'
    BY <2>1 DEF ResolveReply, Answered
  <2>4. answer'[i] = "ok" => f.kind = "reply"
    BY <2>1, <2>3 DEF ResolveReply, Answered, Good
  <2>. QED BY <2>2, <2>3, <2>4 DEF FromThisSession, Asked
<1>. QED BY <1>1, <1>2, <1>3, <1>4, <1>5, <1>6, <1>7 DEF Next, Network

\* An answer, once given, is never replaced: the one-shot reply channel is
\* used once, by whichever of reply, error, deadline, lost session, refusal or
\* end of the task comes first; and what the engine answers is taken from the
\* pending map of the session that asked, a good reply by its own frame.
THEOREM NeverAnsweredTwice == Spec => AnsweredOnce
<1>1. ConnectionAssumption
  BY ConnectionAssumption
<1>2. Init => Asked
  BY DEF Init, Asked
<1>3. Asked /\ [Next]_vars => Asked'
  BY AskedStep
<1>4. TypeOK /\ PlaceInv /\ Asked /\ [Next]_vars =>
        [\A i \in Ids :
           /\ answer[i] # "none" => answer'[i] = answer[i]
           /\ answer'[i] # answer[i] /\ answer'[i] \in {"ok", "engineError"} =>
                \E p \in pending :
                  /\ p.kind = "reply" /\ p.id = i /\ p.askedIn = sessionGen /\ p \notin pending'
                  /\ answer'[i] = "ok" => Head(down).kind = "reply" /\ Head(down).about = p]_vars
  BY <1>1, PlaceStep, EngineAnswers DEF KeepsAnswers, FromThisSession, ByEngine
<1>. QED BY <1>2, <1>3, <1>4, PlaceAlways, PTL DEF Spec, AnsweredOnce
------------------------------------------------------------------------------
\* LoadAccounting.

LoadOf(P) == {p \in P : p.kind \in LoadKinds}
LoadInv == IsFiniteSet(LoadOf(pending)) /\ LoadAccounting

LEMMA LoadAccountingIs == LoadAccounting <=> load.outstanding = Cardinality(LoadOf(pending))
BY DEF LoadAccounting, LoadOf

\* One request for each stub of a round.
LEMMA StubsCounted ==
  ASSUME NEW n \in Nat, NEW S, S = {StubPending(i) : i \in 1..n}
  PROVE  IsFiniteSet(S) /\ Cardinality(S) = n
<1>. DEFINE f == [i \in 1..n |-> StubPending(i)]
<1>1. f \in [1..n -> S]
  OBVIOUS
<1>2. \A i, j \in 1..n : f[i] = f[j] => i = j
  BY DEF StubPending
<1>3. \A s \in S : \E i \in 1..n : f[i] = s
  OBVIOUS
<1>. HIDE DEF f
<1>4. f \in Injection(1..n, S)
  BY <1>1, <1>2 DEF Injection, IsInjective
<1>5. f \in Surjection(1..n, S)
  BY <1>1, <1>3 DEF Surjection
<1>6. ExistsBijection(1..n, S)
  BY <1>4, <1>5 DEF ExistsBijection, Bijection
<1>7. IsFiniteSet(1..n) /\ Cardinality(1..n) = n
  BY FS_Interval
<1>. QED BY <1>6, <1>7, FS_Bijection

\* The stubs that are asked for are counted, whichever way the walk goes on.
LEMMA WalkStubsCounts ==
  ASSUME NEW l \in Loads, NEW P, WalkStubs(l, P),
         IsFiniteSet(LoadOf(P)), Cardinality(LoadOf(P)) = l.outstanding
  PROVE  LoadInv'
<1>1. l.outstanding \in Nat /\ l.stubs \in Int
  BY DEF Loads
<1>2. CASE l.outstanding > 0
  <2>1. load' = l /\ pending' = P
    BY <1>2 DEF WalkStubs
  <2>. QED BY <2>1 DEF LoadInv, LoadAccounting, LoadOf
<1>3. CASE ~(l.outstanding > 0)
  <2>1. LoadOf(P) = {}
    BY <1>1, <1>3, FS_EmptySet
  <2>2. CASE l.stubs > 0 /\ l.rounds < MaxRounds
    <3>. DEFINE S == {StubPending(i) : i \in 1..l.stubs}
    <3>1. pending' = P \cup S
      BY <1>3, <2>2 DEF WalkStubs
    <3>2. load'.outstanding = l.stubs
      BY <1>3, <2>2, Zenon DEF WalkStubs, Loads
    <3>3. l.stubs \in Nat
      BY <1>1, <2>2
    <3>4. \A p \in S : p.kind \in LoadKinds
      BY DEF StubPending, LoadKinds
    <3>5. IsFiniteSet(S) /\ Cardinality(S) = l.stubs
      BY <3>3, StubsCounted
    <3>. HIDE DEF S
    <3>6. LoadOf(pending') = S
      BY <2>1, <3>1, <3>4 DEF LoadOf
    <3>. QED BY <3>2, <3>5, <3>6 DEF LoadInv, LoadAccounting, LoadOf
  <2>3. CASE ~(l.stubs > 0 /\ l.rounds < MaxRounds)
    <3>1. load' = NoLoad /\ pending' = P
      BY <1>3, <2>3, Zenon DEF WalkStubs
    <3>. QED BY <2>1, <3>1, FS_EmptySet DEF LoadInv, LoadAccounting, LoadOf, NoLoad
  <2>. QED BY <2>2, <2>3
<1>. QED BY <1>2, <1>3

LEMMA ResolveCounts ==
  ASSUME TypeOK, LoadInv, NEW f \in Frames, NEW p \in pending,
         ResolveReply(p, f) \/ ResolveTree(p, f) \/ ResolveStub(p, f)
  PROVE  LoadInv'
<1>. DEFINE P == pending \ {p}
            n == Cardinality(LoadOf(pending))
<1>1. load \in Loads /\ load.outstanding = n /\ n \in Nat /\ IsFiniteSet(LoadOf(pending))
  BY FS_CardinalityType, LoadAccountingIs DEF TypeOK, LoadInv, Loads
<1>2. CASE ResolveReply(p, f)
  <2>1. LoadOf(P) = LoadOf(pending) /\ pending' = P /\ load' = load
    BY <1>2 DEF ResolveReply, LoadOf, LoadKinds
  <2>. QED BY <1>1, <2>1 DEF LoadInv, LoadAccounting, LoadOf
<1>3. CASE ResolveTree(p, f) \/ ResolveStub(p, f)
  <2>1. LoadOf(P) = LoadOf(pending) \ {p} /\ p \in LoadOf(pending)
    BY <1>3 DEF ResolveTree, ResolveStub, LoadOf, LoadKinds
  <2>2. IsFiniteSet(LoadOf(P)) /\ Cardinality(LoadOf(P)) = n - 1
    <3>. DEFINE Q == LoadOf(pending)
    <3>1. IsFiniteSet(Q) /\ p \in Q /\ LoadOf(P) = Q \ {p}
      BY <1>1, <2>1
    <3>. HIDE DEF Q
    <3>2. IsFiniteSet(Q \ {p}) /\ Cardinality(Q \ {p}) = Cardinality(Q) - 1
      BY <3>1, FS_RemoveElement, Zenon
    <3>. QED BY <3>1, <3>2 DEF Q
  <2>3. n # 0
    BY <1>1, <2>1, FS_EmptySet
  <2>. HIDE DEF n
  <2>4. Counted(load) \in Loads /\ Counted(load).outstanding = n - 1
    <3>1. Counted(load) = [load EXCEPT !.outstanding = n - 1]
      BY <1>1, <2>3 DEF Counted
    <3>2. n - 1 \in Nat
      BY <1>1, <2>3
    <3>. QED BY <1>1, <3>1, <3>2 DEF Loads
  <2>5. Good(f) => f.stubs \in Int
    BY DEF Good, Frames, PushFrame
  <2>. DEFINE c == Counted(load)
              t == [c EXCEPT !.stubs = f.stubs]
              g == [c EXCEPT !.stubs = @ - 1 + f.stubs]
              b == [c EXCEPT !.failed = TRUE]
  <2>7. \/ load' = b /\ pending' = P
        \/ Good(f) /\ WalkStubs(t, P)
        \/ Good(f) /\ WalkStubs(g, P)
        \/ WalkStubs(c, P)
    BY <1>3, Zenon DEF ResolveTree, ResolveStub
  <2>8. c \in Loads /\ c.outstanding = n - 1
    BY <2>4
  <2>. HIDE DEF c, P
  <2>10. b \in Loads /\ b.outstanding = n - 1
    BY <2>8 DEF Loads
  <2>11. Good(f) => t \in Loads /\ t.outstanding = n - 1
    BY <2>5, <2>8 DEF Loads
  <2>12. Good(f) => g \in Loads /\ g.outstanding = n - 1
    BY <2>5, <2>8 DEF Loads
  <2>. HIDE DEF t, g, b
  <2>9. CASE load' = b /\ pending' = P
    BY <2>2, <2>10, <2>9 DEF LoadInv, LoadAccounting, LoadOf
  <2>. QED BY <2>2, <2>7, <2>8, <2>9, <2>11, <2>12, WalkStubsCounts
<1>. QED BY <1>2, <1>3

LEMMA LoadSame ==
  ASSUME LoadInv, LoadOf(pending') = LoadOf(pending), load' = load
  PROVE  LoadInv'
BY DEF LoadInv, LoadAccounting, LoadOf

LEMMA LoadOver == ASSUME pending' = {}, load' = NoLoad PROVE LoadInv'
<1>1. LoadOf(pending') = {}
  BY DEF LoadOf
<1>. QED BY <1>1, FS_EmptySet DEF LoadInv, LoadAccounting, LoadOf, NoLoad

LEMMA LoadStep == ASSUME TypeOK, LoadInv, [Next]_vars PROVE LoadInv'
<1>. USE DEF shared, calls, sess, sock
<1>1. CASE Owner
  BY <1>1, LoadSame DEF Owner, OwnerSendCheck, OwnerRequestCheck, OwnerStamp, OwnerEnqueue,
                        SetAllowWrites, CloseFlag, CloseRequested, CloseJoined
<1>2. CASE RunTop \/ ConnectFails \/ Reject \/ BackoffEnds \/ HandleSend \/ RefuseReadPost
           \/ QueueDrained \/ WriteOut \/ Read
  BY <1>2, LoadSame DEF RunTop, ConnectFails, Reject, BackoffEnds, HandleSend, RefuseReadPost,
                        QueueDrained, WriteOut, Read
<1>3. CASE ConnectSucceeds
  <2>1. LoadOf(pending') = {TreePending(generation + 1)} /\ load'.outstanding = 1
    BY <1>3 DEF ConnectSucceeds, LoadOf, TreePending, LoadKinds, TreeAsked
  <2>2. IsFiniteSet({TreePending(generation + 1)}) /\ Cardinality({TreePending(generation + 1)}) = 1
    BY FS_Singleton
  <2>. QED BY <2>1, <2>2 DEF LoadInv, LoadAccounting, LoadOf
<1>4. CASE SessionLost \/ HandleClose
  BY <1>4, LoadOver DEF SessionLost, HandleClose, EndSession
<1>5. CASE HandleAsk
  <2>1. \E p : p.kind = "reply" /\ pending' = pending \cup {p} /\ load' = load
    BY <1>5 DEF HandleAsk, Reply
  <2>2. LoadOf(pending') = LoadOf(pending)
    BY <2>1 DEF LoadOf, LoadKinds
  <2>. QED BY <2>1, <2>2, LoadSame
<1>6. CASE IngestFrame
  <2>1. down # <<>> /\ down \in Seq(Frames)
    BY <1>6 DEF IngestFrame, TypeOK
  <2>2. Head(down) \in Frames
    BY <2>1, Dequeued
  <2>3. CASE UNCHANGED <<pending, load>>
    BY <2>3, LoadSame
  <2>4. ASSUME NEW p \in Waiting(Head(down)),
               \/ ResolveReply(p, Head(down)) \/ ResolveTree(p, Head(down))
               \/ ResolveStub(p, Head(down))
        PROVE  LoadInv'
    <3>1. p \in pending
      BY DEF Waiting, PendingForPath
    <3>. QED BY <2>2, <2>4, <3>1, ResolveCounts
  <2>. QED BY <1>6, <2>3, <2>4 DEF IngestFrame
<1>7. CASE IngestEnds
  BY <1>7, LoadOver, LoadSame DEF IngestEnds, EndSession
<1>8. CASE Tick
  <2>1. PICK p \in pending : Expire(p)
    BY <1>8 DEF Tick
  <2>2. CASE p.kind = "reply"
    <3>1. LoadOf(pending') = LoadOf(pending) /\ load' = load
      BY <2>1, <2>2 DEF Expire, LoadOf, LoadKinds
    <3>. QED BY <3>1, LoadSame
  <2>3. CASE p.kind # "reply"
    BY <2>1, <2>3, LoadOver DEF Expire, EndSession
  <2>. QED BY <2>2, <2>3
<1>9. CASE EngineServe \/ EngineVanishes \/ UNCHANGED vars
  BY <1>9, LoadSame DEF EngineServe, EngineVanishes, vars
<1>. QED BY <1>1, <1>2, <1>3, <1>4, <1>5, <1>6, <1>7, <1>8, <1>9 DEF Next, Network

\* The tree load counts exactly the tree and stub requests that are pending
\* (TreeLoad::outstanding): it neither delivers a tree that is still being read
\* nor waits for a request nobody will answer.
THEOREM LoadCounted == Spec => []LoadAccounting
<1>1. Init => LoadInv
  BY LoadOver, FS_EmptySet DEF Init, LoadInv, LoadAccounting, LoadOf, NoLoad
<1>2. TypeOK /\ LoadInv /\ [Next]_vars => LoadInv'
  BY LoadStep
<1>3. LoadInv => LoadAccounting
  BY DEF LoadInv
<1>. QED BY <1>1, <1>2, <1>3, TypeCorrect, PTL DEF Spec
------------------------------------------------------------------------------
\* GateShut.

WriteCount(s) == Cardinality(WritesIn(s))
NoneWritten == WriteCount(out') + WriteCount(up') <= WriteCount(out) + WriteCount(up)

LEMMA WritesFinite ==
  ASSUME NEW s \in Seq(Wires)
  PROVE  IsFiniteSet(WritesIn(s)) /\ WriteCount(s) \in Nat
<1>1. WritesIn(s) \in SUBSET (1..Len(s)) /\ Len(s) \in Int
  BY DEF WritesIn
<1>2. IsFiniteSet(1..Len(s))
  BY <1>1, FS_Interval
<1>. QED BY <1>1, <1>2, FS_Subset, FS_CardinalityType DEF WriteCount

LEMMA WritesNone == WriteCount(<<>>) = 0
<1>1. WritesIn(<<>>) = {}
  BY DEF WritesIn
<1>. QED BY <1>1, FS_EmptySet DEF WriteCount

\* Whatever is put at the end of a queue and does not write adds no write.
LEMMA WritesAppended ==
  ASSUME NEW s \in Seq(Wires), NEW x \in Wires, x.kind = "send" => x.class # "gated"
  PROVE  WriteCount(Append(s, x)) = WriteCount(s)
<1>1. /\ DOMAIN Append(s, x) = 1..(Len(s) + 1) /\ DOMAIN s = 1..Len(s) /\ Len(s) \in Nat
      /\ \A i \in 1..(Len(s) + 1) : Append(s, x)[i] = IF i <= Len(s) THEN s[i] ELSE x
  BY Enqueued
<1>2. WritesIn(Append(s, x)) = WritesIn(s)
  <2>. DEFINE t == Append(s, x)
  <2>. HIDE DEF t
  <2>1. \A i \in DOMAIN s : i \in DOMAIN t /\ t[i] = s[i]
    BY <1>1 DEF t
  <2>2. \A i \in DOMAIN t : i \in DOMAIN s \/ t[i] = x
    BY <1>1 DEF t
  <2>3. WritesIn(t) = WritesIn(s)
    BY <2>1, <2>2 DEF WritesIn
  <2>. QED BY <2>3 DEF t
<1>. QED BY <1>2 DEF WriteCount

LEMMA WritesKept ==
  ASSUME NEW s \in Seq(Wires), NEW t \in Seq(Wires),
         \A i \in DOMAIN t : t[i].kind = "send" => i \in DOMAIN s /\ t[i] = s[i]
  PROVE  WriteCount(t) <= WriteCount(s)
<1>1. WritesIn(t) \in SUBSET WritesIn(s)
  BY DEF WritesIn
<1>. QED BY <1>1, WritesFinite, FS_Subset DEF WriteCount

\* Counting a queue's writes further along.
LEMMA WritesShifted ==
  ASSUME NEW s \in Seq(Wires), NEW k \in Int, NEW S, S = {i + k : i \in WritesIn(s)}
  PROVE  IsFiniteSet(S) /\ Cardinality(S) = WriteCount(s)
<1>. DEFINE W == WritesIn(s)
            f == [i \in W |-> i + k]
<1>1. W \subseteq Int
  BY DEF WritesIn
<1>2. IsFiniteSet(W) /\ Cardinality(W) = WriteCount(s)
  BY WritesFinite DEF WriteCount
<1>. HIDE DEF W
<1>3. f \in [W -> S] /\ (\A t \in S : \E i \in W : f[i] = t)
  BY DEF W
<1>a. \A i \in W : f[i] = i + k
  OBVIOUS
<1>. HIDE DEF f
<1>4. \A i, j \in W : f[i] = f[j] => i = j
  <2>. SUFFICES ASSUME NEW i \in W, NEW j \in W, f[i] = f[j] PROVE i = j
    OBVIOUS
  <2>1. i \in Int /\ j \in Int /\ i + k = j + k
    BY <1>1, <1>a
  <2>. QED BY <2>1
<1>5. f \in Injection(W, S)
  BY <1>3, <1>4 DEF Injection, IsInjective
<1>6. f \in Surjection(W, S)
  BY <1>3 DEF Surjection
<1>7. ExistsBijection(W, S)
  BY <1>5, <1>6 DEF ExistsBijection, Bijection
<1>. QED BY <1>2, <1>7, FS_Bijection

LEMMA WritesConcat ==
  ASSUME NEW s \in Seq(Wires), NEW t \in Seq(Wires)
  PROVE  WriteCount(s \o t) <= WriteCount(s) + WriteCount(t)
<1>. DEFINE c == s \o t
            S == {i + Len(s) : i \in WritesIn(t)}
<1>1. /\ Len(s) \in Nat /\ Len(t) \in Nat /\ DOMAIN s = 1..Len(s) /\ DOMAIN t = 1..Len(t)
      /\ DOMAIN c = 1..(Len(s) + Len(t))
      /\ \A i \in 1..(Len(s) + Len(t)) : c[i] = IF i <= Len(s) THEN s[i] ELSE t[i - Len(s)]
  BY ConcatProperties
<1>. HIDE DEF c
<1>2. WritesIn(c) \subseteq WritesIn(s) \cup S
  <2>. SUFFICES ASSUME NEW i \in WritesIn(c) PROVE i \in WritesIn(s) \cup S
    OBVIOUS
  <2>1. i \in 1..(Len(s) + Len(t)) /\ c[i].kind = "send" /\ c[i].class = "gated"
    BY <1>1 DEF WritesIn
  <2>2. CASE i <= Len(s)
    BY <1>1, <2>1, <2>2 DEF WritesIn
  <2>3. CASE ~(i <= Len(s))
    <3>1. i - Len(s) \in WritesIn(t)
      BY <1>1, <2>1, <2>3 DEF WritesIn
    <3>2. i = (i - Len(s)) + Len(s)
      BY <1>1, <2>1
    <3>. QED BY <3>1, <3>2
  <2>. QED BY <2>2, <2>3
<1>3. IsFiniteSet(S) /\ Cardinality(S) = WriteCount(t)
  BY <1>1, WritesShifted
<1>4. IsFiniteSet(WritesIn(s)) /\ WriteCount(s) \in Nat /\ WriteCount(t) \in Nat
  BY WritesFinite
<1>. HIDE DEF S
<1>5. /\ IsFiniteSet(WritesIn(s) \cup S)
      /\ Cardinality(WritesIn(s) \cup S)
           = Cardinality(WritesIn(s)) + Cardinality(S) - Cardinality(WritesIn(s) \cap S)
  BY <1>3, <1>4, FS_Union
<1>6. Cardinality(WritesIn(s) \cap S) \in Nat
  <2>1. WritesIn(s) \cap S \in SUBSET S
    OBVIOUS
  <2>. QED BY <1>3, <2>1, FS_Subset, FS_CardinalityType
<1>7. Cardinality(WritesIn(c)) <= Cardinality(WritesIn(s) \cup S)
  BY <1>2, <1>5, FS_Subset
<1>8. Cardinality(WritesIn(c)) \in Nat
  <2>1. IsFiniteSet(WritesIn(c))
    BY <1>2, <1>5, FS_Subset
  <2>. QED BY <2>1, FS_CardinalityType
<1>. QED BY <1>3, <1>4, <1>5, <1>6, <1>7, <1>8 DEF WriteCount, c

LEMMA WritesTail ==
  ASSUME NEW s \in Seq(Wires), s # <<>>
  PROVE  WriteCount(Tail(s)) <= WriteCount(s)
<1>. DEFINE t == Tail(s)
            S == {i + 1 : i \in WritesIn(t)}
<1>1. /\ t \in Seq(Wires) /\ DOMAIN t = 1..Len(t) /\ DOMAIN s = 1..Len(s)
      /\ \A i \in 1..Len(t) : i + 1 \in 1..Len(s) /\ t[i] = s[i + 1]
  BY Dequeued
<1>. HIDE DEF t
<1>2. S \in SUBSET WritesIn(s)
  BY <1>1 DEF WritesIn
<1>3. Cardinality(S) = WriteCount(t)
  <2>1. 1 \in Int /\ t \in Seq(Wires)
    BY <1>1
  <2>. QED BY <2>1, WritesShifted, Zenon
<1>. HIDE DEF S
<1>4. Cardinality(S) <= Cardinality(WritesIn(s))
  BY <1>2, WritesFinite, FS_Subset
<1>. QED BY <1>3, <1>4 DEF WriteCount, t

LEMMA WritesSame ==
  ASSUME TypeOK, UNCHANGED <<out, up>>
  PROVE  NoneWritten
<1>1. WriteCount(out) \in Nat /\ WriteCount(up) \in Nat
  BY WritesFinite DEF TypeOK
<1>2. WriteCount(out') = WriteCount(out) /\ WriteCount(up') = WriteCount(up)
  BY DEF WriteCount, WritesIn
<1>. HIDE DEF WriteCount
<1>. QED BY <1>1, <1>2 DEF NoneWritten

LEMMA WritesGone ==
  ASSUME TypeOK, WriteCount(out') = 0, up' = <<>>
  PROVE  NoneWritten
<1>1. WriteCount(out) \in Nat /\ WriteCount(up) \in Nat
  BY WritesFinite DEF TypeOK
<1>2. WriteCount(up') = 0
  BY WritesNone DEF WriteCount, WritesIn
<1>. HIDE DEF WriteCount
<1>. QED BY <1>1, <1>2 DEF NoneWritten

\* The session's end drops what was on its way.
LEMMA WritesEnded ==
  ASSUME TypeOK, EndSession
  PROVE  NoneWritten
<1>1. out' = <<>> /\ up' = <<>>
  BY DEF EndSession
<1>2. WriteCount(out') = 0
  BY <1>1, WritesNone DEF WriteCount, WritesIn
<1>. QED BY <1>1, <1>2, WritesGone

\* Only `out` changes, and what it counts does not grow.
LEMMA WritesOut ==
  ASSUME TypeOK, WriteCount(out') <= WriteCount(out), WriteCount(out') \in Nat, up' = up
  PROVE  NoneWritten
<1>1. WriteCount(out) \in Nat /\ WriteCount(up) \in Nat
  BY WritesFinite DEF TypeOK
<1>2. WriteCount(up') = WriteCount(up)
  BY DEF WriteCount, WritesIn
<1>. HIDE DEF WriteCount
<1>. QED BY <1>1, <1>2 DEF NoneWritten

LEMMA GateStep ==
  ASSUME TypeOK, TypeOK', [Next]_vars, ~allowWrites, ~allowWrites'
  PROVE  NoneWritten
<1>. USE DEF shared, calls, sess, sock
<1>0. out \in Seq(Wires) /\ up \in Seq(Wires) /\ out' \in Seq(Wires) /\ up' \in Seq(Wires)
  BY DEF TypeOK
<1>a. WriteCount(out') \in Nat /\ WriteCount(out) \in Nat /\ WriteCount(up) \in Nat
  BY <1>0, WritesFinite
<1>1. CASE Owner
  BY <1>1, WritesSame DEF Owner, OwnerSendCheck, OwnerRequestCheck, OwnerStamp, OwnerEnqueue,
                          SetAllowWrites, CloseFlag, CloseRequested, CloseJoined
<1>2. CASE RunTop \/ ConnectFails \/ Reject \/ BackoffEnds \/ RefuseReadPost
           \/ QueueDrained \/ Read \/ UNCHANGED vars
  BY <1>2, WritesSame DEF RunTop, ConnectFails, Reject, BackoffEnds, RefuseReadPost,
                          QueueDrained, Read, vars
<1>3. CASE ConnectSucceeds
  <2>1. out' = <<WireAsk(TreePending(generation + 1))>> /\ up' = <<>>
    BY <1>3 DEF ConnectSucceeds
  <2>2. WireAsk(TreePending(generation + 1)).kind = "ask"
    BY DEF WireAsk
  <2>3. WritesIn(out') = {}
    BY <2>1, <2>2 DEF WritesIn
  <2>. QED BY <2>1, <2>3, FS_EmptySet, WritesGone DEF WriteCount
<1>4. CASE SessionLost \/ HandleClose
  BY <1>4, WritesEnded DEF SessionLost, HandleClose
<1>5. CASE HandleSend
  <2>. DEFINE w == WireSend(Head(tx))
  <2>1. tx # <<>> /\ tx \in Seq(Requests) /\ Head(tx).kind = "send"
    BY <1>5 DEF HandleSend, TakesRequest, TypeOK
  <2>2. Head(tx) \in SendRequest
    <3>1. Head(tx) \in Requests
      BY <2>1, Dequeued
    <3>. QED BY <2>1, <3>1 DEF Requests, SendRequest, ReplyRequest, CloseRequest
  <2>3. w \in Wires /\ w.class = Head(tx).class
    BY <2>2 DEF WireSend, Wires, SendRequest
  <2>4. up' = up /\ (out' = out \/ (w.class # "gated" /\ out' = Append(out, w)))
    BY <1>5, <2>3 DEF HandleSend, Admits
  <2>. HIDE DEF w
  <2>5. CASE out' = out
    BY <2>4, <2>5, WritesSame
  <2>6. CASE w.class # "gated" /\ out' = Append(out, w)
    <3>1. WriteCount(Append(out, w)) = WriteCount(out)
      BY <1>0, <2>3, <2>6, WritesAppended
    <3>2. WriteCount(out') = WriteCount(out)
      BY <2>6, <3>1 DEF WriteCount, WritesIn
    <3>. HIDE DEF WriteCount
    <3>3. WriteCount(out') <= WriteCount(out)
      BY <1>a, <3>2
    <3>. QED BY <1>a, <2>4, <3>3, WritesOut
  <2>. QED BY <2>4, <2>5, <2>6
<1>6. CASE HandleAsk
  <2>. DEFINE w == WireAsk(Reply(Head(tx).id, Head(tx).path))
  <2>1. up' = up /\ out' = Append(out, w) /\ w.kind = "ask"
    BY <1>6 DEF HandleAsk, WireAsk
  <2>. HIDE DEF w
  <2>2. w \in Wires
    BY <1>0, <2>1, AppendProperties DEF Wires
  <2>3. WriteCount(Append(out, w)) = WriteCount(out)
    BY <1>0, <2>1, <2>2, WritesAppended
  <2>4. WriteCount(out') = WriteCount(out)
    BY <2>1, <2>3 DEF WriteCount, WritesIn
  <2>. HIDE DEF WriteCount
  <2>5. WriteCount(out') <= WriteCount(out)
    BY <1>a, <2>4
  <2>. QED BY <1>a, <2>1, <2>5, WritesOut
<1>7. CASE WriteOut
  <2>1. out' = <<>> /\ (up' = up \o out \/ up' = up)
    BY <1>7 DEF WriteOut
  <2>2. WriteCount(out') = 0
    BY <2>1, WritesNone DEF WriteCount, WritesIn
  <2>3. WriteCount(up') <= WriteCount(up) + WriteCount(out)
    <3>1. WriteCount(up \o out) <= WriteCount(up) + WriteCount(out)
      BY <1>0, WritesConcat
    <3>2. WriteCount(up') = WriteCount(up \o out) \/ WriteCount(up') = WriteCount(up)
      BY <2>1 DEF WriteCount, WritesIn
    <3>. HIDE DEF WriteCount
    <3>. QED BY <1>a, <3>1, <3>2
  <2>4. WriteCount(up') \in Nat
    BY <1>0, WritesFinite
  <2>. HIDE DEF WriteCount
  <2>. QED BY <1>a, <2>2, <2>3, <2>4 DEF NoneWritten
<1>8. CASE IngestFrame
  <2>. DEFINE f == Head(down)
  <2>1. down # <<>> /\ down \in Seq(Frames)
    BY <1>8 DEF IngestFrame, TypeOK
  <2>2. f \in Frames
    BY <2>1, Dequeued
  <2>3. up' = up
    BY <1>8 DEF IngestFrame
  <2>4. CASE out' = out
    BY <2>3, <2>4, WritesSame
  <2>5. ASSUME NEW p \in Waiting(f), ResolveReply(p, f) \/ ResolveTree(p, f) \/ ResolveStub(p, f)
        PROVE  NoneWritten
    <3>1. p \in pending /\ (f.kind = "reply" \/ f.kind = "pathError")
      BY <2>5 DEF Waiting, PendingForPath
    <3>2. \A i \in DOMAIN out' : out'[i].kind = "send" => i \in DOMAIN out /\ out'[i] = out[i]
      BY <2>2, <2>5, <3>1, ResolveType
    <3>3. WriteCount(out') <= WriteCount(out)
      BY <1>0, <3>2, WritesKept
    <3>. QED BY <1>a, <2>3, <3>3, WritesOut
  <2>. HIDE DEF f
  <2>6. out' = out \/ \E p \in Waiting(f) : ResolveReply(p, f) \/ ResolveTree(p, f) \/ ResolveStub(p, f)
    BY <1>8 DEF IngestFrame, f
  <2>. QED BY <2>4, <2>5, <2>6
<1>9. CASE IngestEnds
  BY <1>9, WritesEnded, WritesSame DEF IngestEnds
<1>10. CASE Tick
  BY <1>10, WritesEnded, WritesSame DEF Tick, Expire
<1>11. CASE EngineServe
  <2>1. up # <<>> /\ up' = Tail(up) /\ out' = out
    BY <1>11 DEF EngineServe
  <2>2. WriteCount(up') <= WriteCount(up)
    <3>1. WriteCount(Tail(up)) <= WriteCount(up)
      BY <1>0, <2>1, WritesTail
    <3>. QED BY <2>1, <3>1 DEF WriteCount, WritesIn
  <2>3. WriteCount(out') = WriteCount(out) /\ WriteCount(up') \in Nat
    BY <1>0, <2>1, WritesFinite DEF WriteCount, WritesIn
  <2>. HIDE DEF WriteCount
  <2>. QED BY <1>a, <2>2, <2>3 DEF NoneWritten
<1>12. CASE EngineVanishes
  <2>1. up' = <<>> /\ out' = out
    BY <1>12 DEF EngineVanishes
  <2>2. WriteCount(up') = 0 /\ WriteCount(out') = WriteCount(out)
    BY <2>1, WritesNone DEF WriteCount, WritesIn
  <2>. HIDE DEF WriteCount
  <2>. QED BY <1>a, <2>2 DEF NoneWritten
<1>. QED BY <1>1, <1>2, <1>3, <1>4, <1>5, <1>6, <1>7, <1>8, <1>9, <1>10, <1>11, <1>12
         DEF Next, Network

\* With the write gate shut nothing that writes is added to what is on its way
\* to the engine: not by the owner, not by a command that was queued while the
\* gate was open, not by the walk of the stubs (session's second look at
\* allow_writes).
THEOREM GateStaysShut == Spec => GateShut
<1>1. ConnectionAssumption
  BY ConnectionAssumption
<1>2. TypeOK /\ [Next]_vars
        => [~allowWrites /\ ~allowWrites' =>
              Cardinality(WritesIn(out')) + Cardinality(WritesIn(up'))
                <= Cardinality(WritesIn(out)) + Cardinality(WritesIn(up))]_vars
  BY <1>1, TypeStep, GateStep DEF NoneWritten, WriteCount
<1>. QED BY <1>2, TypeCorrect, PTL DEF Spec, GateShut
=============================================================================
