-------------------------------- MODULE SSEBus --------------------------------
(***************************************************************************)
(* The in-process event bus (sse/manager.py), the stream route that feeds  *)
(* a supervisor's cockpit from it (routes/sse.py), and the view the        *)
(* cockpit keeps (CockpitClient.tsx, reduceCockpit).                       *)
(*                                                                         *)
(* One topic: topics share nothing.  A fact is a complaint whose ingestion *)
(* publishes "complaint.received" and then commits; the snapshot counts    *)
(* the committed ones.  The bus lives in one process: a restart empties it *)
(* and its ids start again at 1.  Sending a frame and receiving it are one *)
(* step, since what a cut connection loses the client's last id does not   *)
(* cover.                                                                  *)
(***************************************************************************)
EXTENDS Naturals, Sequences, FiniteSets

CONSTANTS Viewers,     \* streams that clients of the topic open
          Facts,
          RingSize,    \* _RING_BUFFER_SIZE
          QueueSize,   \* _SUBSCRIBER_QUEUE_SIZE
          NoId,        \* no Last-Event-ID header
          MaxConnects, \* bound: streams opened
          MaxReboots   \* bound: restarts of the API process

ASSUME BusAssumption ==
  /\ RingSize \in Nat \ {0} /\ QueueSize \in Nat \ {0}
  /\ MaxConnects \in Nat /\ MaxReboots \in Nat
  /\ NoId \notin Nat

VARIABLES fact,              \* the request that ingests each fact
          ring, nextId,      \* the topic's state
          stream,            \* each client's stream on the server
          resume, snapshot,  \* what its route handler parsed and read
          backlog, queue,    \* what its generator has still to yield
          lastId, shown,     \* the client: last id seen, times it counts each fact
          received,          \* history: ids received over the current stream
          lossy,             \* history: the client may have lost an event
          era,               \* history: restarts, when the client's id was given
          connects, reboots

busVars == <<fact, ring, nextId, stream, resume, snapshot, backlog, queue, lastId,
             shown, received, lossy, era, connects, reboots>>
topicState == <<ring, nextId>>
opening == <<resume, snapshot>>
view == <<lastId, shown, era>>
bounds == <<connects, reboots>>

Stored == {f \in Facts : fact[f] = "stored"}
IsOpen(c) == stream[c] = "open"

BusInit ==
  /\ fact = [f \in Facts |-> "new"]
  /\ ring = <<>> /\ nextId = 1
  /\ stream = [c \in Viewers |-> "closed"]
  /\ resume = [c \in Viewers |-> NoId]
  /\ snapshot = [c \in Viewers |-> {}]
  /\ backlog = [c \in Viewers |-> <<>>]
  /\ queue = [c \in Viewers |-> <<>>]
  /\ lastId = [c \in Viewers |-> NoId]
  /\ shown = [c \in Viewers |-> [f \in Facts |-> 0]]
  /\ received = [c \in Viewers |-> <<>>]
  /\ lossy = [c \in Viewers |-> FALSE]
  /\ era = [c \in Viewers |-> 0]
  /\ connects = 0 /\ reboots = 0

-----------------------------------------------------------------------------
(* Publishing *)

\* deque(maxlen=...).append: the oldest event makes room.
Remember(r, e) ==
  LET all == Append(r, e) IN
  IF Len(all) > RingSize THEN Tail(all) ELSE all

\* put_nowait, QueueFull swallowed.
PutNowait(q, e) == IF Len(q) < QueueSize THEN Append(q, e) ELSE q

\* publish(), with the commit of the request that called it still to come.
\* There is no await between the lock and the fan-out.
Publish(f) ==
  LET e == [id |-> nextId, fact |-> f]
      full(c) == IsOpen(c) /\ Len(queue[c]) = QueueSize
      evicts == Len(ring) = RingSize IN
  /\ fact[f] = "new"
  /\ fact' = [fact EXCEPT ![f] = "published"]
  /\ nextId' = nextId + 1
  /\ ring' = Remember(ring, e)
  /\ queue' = [c \in Viewers |->
                 IF IsOpen(c) THEN PutNowait(queue[c], e) ELSE queue[c]]
  /\ lossy' = [c \in Viewers |->
                 \/ lossy[c]
                 \/ full(c)
                 \/ evicts /\ stream[c] = "greeted"]
  /\ UNCHANGED <<stream, opening, backlog, view, received, era, bounds>>

\* The request that published commits, or fails and is rolled back.
CommitFact(f) ==
  /\ fact[f] = "published"
  /\ \E end \in {"stored", "undone"} : fact' = [fact EXCEPT ![f] = end]
  /\ UNCHANGED <<topicState, stream, opening, backlog, queue, view, received, lossy, bounds>>

-----------------------------------------------------------------------------
(* A stream *)

\* History: an event has left the ring and is not in the client's snapshot.
GoneFor(c) == \E f \in Facts \ snapshot[c] : /\ fact[f] \in {"published", "stored"}
                                           /\ \A i \in DOMAIN ring : ring[i].fact # f

\* sse_stream: parses Last-Event-ID, if one is sent, and reads the snapshot.
\* useSSE makes a new EventSource, which sends none; other clients may.
Open(c) ==
  /\ stream[c] = "closed" /\ connects < MaxConnects
  /\ connects' = connects + 1
  /\ stream' = [stream EXCEPT ![c] = "opening"]
  /\ \E id \in {NoId, lastId[c]} : resume' = [resume EXCEPT ![c] = id]
  /\ snapshot' = [snapshot EXCEPT ![c] = Stored]
  /\ received' = [received EXCEPT ![c] = <<>>]
  /\ UNCHANGED <<fact, topicState, backlog, queue, view, lossy, reboots>>

\* The generator's first frame: a fresh client replaces its view.
Greet(c) ==
  /\ stream[c] = "opening"
  /\ stream' = [stream EXCEPT ![c] = "greeted"]
  /\ IF resume[c] = NoId
     THEN /\ lastId' = [lastId EXCEPT ![c] = 0]
          /\ shown' = [shown EXCEPT ![c] =
                         [f \in Facts |-> IF f \in snapshot[c] THEN 1 ELSE 0]]
          /\ era' = [era EXCEPT ![c] = reboots]
          /\ lossy' = [lossy EXCEPT ![c] = GoneFor(c)]
     ELSE UNCHANGED <<view, lossy>>
  /\ UNCHANGED <<fact, topicState, opening, backlog, queue, received, bounds>>

\* Mutant: the replay starts one event late.
NewerByTwo(id) ==
  LET old == {i \in DOMAIN ring : id # NoId /\ ring[i].id <= id + 1}
  IN  SubSeq(ring, Cardinality(old) + 1, Len(ring))

\* The backlog: every event, or those after the last one seen.  Ids grow along the
\* ring, so that these are its end.
Newer(id) ==
  LET old == {i \in DOMAIN ring : id # NoId /\ ring[i].id <= id}
  IN  SubSeq(ring, Cardinality(old) + 1, Len(ring))

\* subscribe(), at the generator's first anext: replay and attachment are one
\* critical section.
Subscribe(c) ==
  LET gap == /\ resume[c] # NoId
             /\ \/ era[c] # reboots
                \/ ring # <<>> /\ ring[1].id > resume[c] + 1 IN
  /\ stream[c] = "greeted"
  /\ stream' = [stream EXCEPT ![c] = "open"]
  /\ backlog' = [backlog EXCEPT ![c] = Newer(resume[c])]
  /\ queue' = [queue EXCEPT ![c] = <<>>]
  /\ lossy' = [lossy EXCEPT ![c] = @ \/ gap]
  /\ UNCHANGED <<fact, topicState, opening, view, received, bounds>>

\* The next event of the subscription: the backlog, then the queue.
NextEvent(c) == IF backlog[c] # <<>> THEN Head(backlog[c]) ELSE Head(queue[c])

\* Mutant: the stream stops sending after its backlog.
SubscriberDone(c) == IsOpen(c) /\ backlog[c] # <<>>

\* anext has an event to give.
HasEvent(c) == IsOpen(c) /\ backlog[c] \o queue[c] # <<>>

\* The stream yields one event; the client's reducer adds it to its view.
Send(c) ==
  LET e == NextEvent(c) IN
  /\ HasEvent(c)
  /\ IF backlog[c] # <<>>
     THEN backlog' = [backlog EXCEPT ![c] = Tail(@)] /\ queue' = queue
     ELSE queue' = [queue EXCEPT ![c] = Tail(@)] /\ backlog' = backlog
  /\ lastId' = [lastId EXCEPT ![c] = e.id]
  /\ shown' = [shown EXCEPT ![c][e.fact] = @ + 1]
  /\ era' = [era EXCEPT ![c] = reboots]
  /\ received' = [received EXCEPT ![c] = Append(@, e.id)]
  /\ UNCHANGED <<fact, topicState, stream, opening, lossy, bounds>>

\* The client goes away or the connection drops: the generator is cancelled
\* and its queue detached.
Close(c) ==
  /\ stream[c] # "closed"
  /\ stream' = [stream EXCEPT ![c] = "closed"]
  /\ backlog' = [backlog EXCEPT ![c] = <<>>]
  /\ queue' = [queue EXCEPT ![c] = <<>>]
  /\ UNCHANGED <<fact, topicState, opening, view, received, lossy, bounds>>

\* The API process restarts: the topic is gone, and with it every stream and
\* every request that had not committed.
BusRestart ==
  /\ reboots < MaxReboots
  /\ reboots' = reboots + 1
  /\ ring' = <<>> /\ nextId' = 1
  /\ stream' = [c \in Viewers |-> "closed"]
  /\ backlog' = [c \in Viewers |-> <<>>]
  /\ queue' = [c \in Viewers |-> <<>>]
  /\ fact' = [f \in Facts |-> IF fact[f] = "published" THEN "undone" ELSE fact[f]]
  /\ UNCHANGED <<opening, view, received, lossy, connects>>

BusNext ==
  \/ \E f \in Facts : Publish(f) \/ CommitFact(f)
  \/ \E c \in Viewers : Open(c) \/ Greet(c) \/ Subscribe(c) \/ Send(c) \/ Close(c)
  \/ BusRestart

\* What may happen, without the fairness below.
BusSpec == BusInit /\ [][BusNext]_busVars

\* The event loop runs every stream that has something to do.  Nothing makes
\* a client connect or stay, or a request publish.
BusFairness(c) == Greet(c) \/ Subscribe(c) \/ Send(c)

-----------------------------------------------------------------------------
(* Properties *)

\* Ids only grow: backlog and live queue never overlap.
StreamInOrder ==
  \A c \in Viewers : \A i, j \in DOMAIN received[c] : i < j => received[c][i] < received[c][j]

\* Nothing was taken from the client: it has all there is.
NothingMissedUnlessLossy ==
  \A c \in Viewers :
    IsOpen(c) /\ backlog[c] \o queue[c] = <<>> /\ ~lossy[c]
      => \A f \in Stored : shown[c][f] > 0

\* A snapshot may hold a complaint that the ring then replays.
CountedOnceUnlessReplayed ==
  \A c \in Viewers : \A f \in Facts :
    shown[c][f] <= IF f \in snapshot[c] THEN 2 ELSE 1

\* Within one stream no event is sent twice or out of order ("under a single lock
\* so no event is silently dropped between replay and live", manager.py).  A
\* client whose stream has caught up counts every complaint whose ingestion
\* committed, over however many reconnections, unless a full queue, a ring that
\* had moved on or a restart took an event from it; no frame tells it so, since
\* the code never emits resync-required.  It counts a complaint twice only when a
\* fresh stream replayed the ring over a snapshot that already held it.
ViewFollowsEvents == StreamInOrder /\ NothingMissedUnlessLossy /\ CountedOnceUnlessReplayed

\* A stream that stays open catches up with everything published.
StreamsCatchUp ==
  \A c \in Viewers :
    stream[c] # "closed" ~> (IsOpen(c) => backlog[c] \o queue[c] = <<>>)

=============================================================================
