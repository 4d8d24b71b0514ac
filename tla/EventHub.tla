------------------------------ MODULE EventHub ------------------------------
(***************************************************************************)
(* The fan-out of traffic events (src/msgate/events/hub.py) to the sockets *)
(* of src/msgate/api/routes/ws.py.  publish_sync runs on any thread and    *)
(* takes no lock; subscribe and unsubscribe run on the API's event loop    *)
(* under an asyncio lock.  A step is what happens between two points where *)
(* another thread can act on the history, the set of subscribers or a      *)
(* queue; asyncio.Queue is made for one thread, so between the test of its *)
(* put_nowait for a full queue and the put other threads may put as well.  *)
(* Events are numbered in the order they enter the history.                *)
(***************************************************************************)
EXTENDS Integers, Sequences, FiniteSets

CONSTANTS
    Publishers,     \* threads that call publish_sync
    Sockets,        \* one connection of traffic_ws each
    HistorySize,    \* maxlen of _history
    QueueSize,      \* maxsize of a subscriber's queue
    MaxEvents       \* bound: events published

NoOne == "nobody"

ASSUME HubAssumption ==
    /\ HistorySize \in Nat \ {0}
    /\ QueueSize \in Nat \ {0}
    /\ MaxEvents \in Nat
    /\ IsFiniteSet(Publishers)
    /\ NoOne \notin Sockets

VARIABLES
    published,      \* events in the history so far; it keeps the last HistorySize
    subscribers,    \* _subscribers
    lock,           \* _lock: the socket that holds it, or NoOne
    conn,           \* where each socket is in traffic_ws
    start,          \* published when the replay to the socket began
    next,           \* the event the replay puts next
    put,            \* every event put in the socket's queue, in order
    taken,          \* how many of them were taken out and sent
    pub             \* what each publisher is doing

vars == <<published, subscribers, lock, conn, start, next, put, taken, pub>>

Events == 1..MaxEvents
Oldest == IF published > HistorySize THEN published - HistorySize + 1 ELSE 1

ConnStates == {"away", "locked", "registered", "replaying", "fetched", "offered",
               "putting", "open", "closing", "closed", "failed"}

(* A publisher has appended an event, is putting it, or is at rest; into   *)
(* is the socket whose queue it has found with room.                       *)
Idle == [at |-> "idle", event |-> 0, todo |-> {}, dead |-> {}, into |-> NoOne]

QueueLen(s) == Len(put[s]) - taken[s]
Enqueue(s, e) == put' = [put EXCEPT ![s] = Append(@, e)]

Init ==
    /\ published = 0
    /\ subscribers = {}
    /\ lock = NoOne
    /\ conn = [s \in Sockets |-> "away"]
    /\ start = [s \in Sockets |-> 0]
    /\ next = [s \in Sockets |-> 0]
    /\ put = [s \in Sockets |-> <<>>]
    /\ taken = [s \in Sockets |-> 0]
    /\ pub = [p \in Publishers |-> Idle]

-----------------------------------------------------------------------------
(* publish_sync *)

AppendHistory(p) ==
    /\ pub[p].at = "idle"
    /\ published < MaxEvents
    /\ published' = published + 1
    /\ pub' = [pub EXCEPT ![p] = [Idle EXCEPT !.at = "appended", !.event = published + 1]]
    /\ UNCHANGED <<subscribers, lock, conn, start, next, put, taken>>

(* list(self._subscribers) *)
ListSubscribers(p) ==
    /\ pub[p].at = "appended"
    /\ pub' = [pub EXCEPT ![p].at = "putting", ![p].todo = subscribers]
    /\ UNCHANGED <<published, subscribers, lock, conn, start, next, put, taken>>

(* The next queue of the list, which put_nowait has not tested yet. *)
Turn(p, s) ==
    /\ pub[p].at = "putting"
    /\ pub[p].into = NoOne
    /\ s \in pub[p].todo

(* Mutated TestRoom: the queue has no limit. *)
TestRoomUnbounded(p, s) ==
    /\ Turn(p, s)
    /\ pub' = [pub EXCEPT ![p].todo = @ \ {s}, ![p].into = s]
    /\ UNCHANGED <<published, subscribers, lock, conn, start, next, put, taken>>

(* Mutated TestRoom: a full queue is skipped and stays subscribed. *)
TestRoomSkipping(p, s) ==
    /\ Turn(p, s)
    /\ IF QueueLen(s) < QueueSize
       THEN pub' = [pub EXCEPT ![p].todo = @ \ {s}, ![p].into = s]
       ELSE pub' = [pub EXCEPT ![p].todo = @ \ {s}]
    /\ UNCHANGED <<published, subscribers, lock, conn, start, next, put, taken>>

TestRoom(p, s) ==
    /\ Turn(p, s)
    /\ IF QueueLen(s) < QueueSize
       THEN pub' = [pub EXCEPT ![p].todo = @ \ {s}, ![p].into = s]
       ELSE pub' = [pub EXCEPT ![p].todo = @ \ {s}, ![p].dead = @ \cup {s}]
    /\ UNCHANGED <<published, subscribers, lock, conn, start, next, put, taken>>

(* The queue that was found with room may be full by now. *)
PutEvent(p) ==
    /\ pub[p].into # NoOne
    /\ Enqueue(pub[p].into, pub[p].event)
    /\ pub' = [pub EXCEPT ![p].into = NoOne]
    /\ UNCHANGED <<published, subscribers, lock, conn, start, next, taken>>

(* Subscribers whose queue was full are discarded; no one tells the socket. *)
DiscardDead(p) ==
    /\ pub[p].at = "putting"
    /\ pub[p].todo = {}
    /\ pub[p].into = NoOne
    /\ subscribers' = subscribers \ pub[p].dead
    /\ pub' = [pub EXCEPT ![p] = Idle]
    /\ UNCHANGED <<published, lock, conn, start, next, put, taken>>

-----------------------------------------------------------------------------
(* subscribe *)

Move(s, from, to) ==
    /\ conn[s] = from
    /\ conn' = [conn EXCEPT ![s] = to]

TakeLock(s) ==
    /\ Move(s, "away", "locked")
    /\ lock = NoOne
    /\ lock' = s
    /\ UNCHANGED <<published, subscribers, start, next, put, taken, pub>>

Register(s) ==
    /\ Move(s, "locked", "registered")
    /\ subscribers' = subscribers \cup {s}
    /\ UNCHANGED <<published, lock, start, next, put, taken, pub>>

StartReplay(s) ==
    /\ Move(s, "registered", "replaying")
    /\ start' = [start EXCEPT ![s] = published]
    /\ next' = [next EXCEPT ![s] = Oldest]
    /\ UNCHANGED <<published, subscribers, lock, put, taken, pub>>

(* Mutated FetchEvent: the replay follows the history as it grows. *)
FetchEventLive(s) ==
    /\ Move(s, "replaying", "fetched")
    /\ next[s] <= published
    /\ UNCHANGED <<published, subscribers, lock, start, next, put, taken, pub>>

FetchEvent(s) ==
    /\ Move(s, "replaying", "fetched")
    /\ published = start[s]
    /\ next[s] <= start[s]
    /\ UNCHANGED <<published, subscribers, lock, start, next, put, taken, pub>>

(* q.put waits while the queue is full, with the lock held... *)
FindRoom(s) ==
    /\ Move(s, "fetched", "offered")
    /\ QueueLen(s) < QueueSize
    /\ UNCHANGED <<published, subscribers, lock, start, next, put, taken, pub>>

(* ... and calls put_nowait, which tests the queue for itself. *)
RetestRoom(s) ==
    /\ Move(s, "offered", "putting")
    /\ QueueLen(s) < QueueSize
    /\ UNCHANGED <<published, subscribers, lock, start, next, put, taken, pub>>

ReplayEvent(s) ==
    /\ Move(s, "putting", "replaying")
    /\ Enqueue(s, next[s])
    /\ next' = [next EXCEPT ![s] = @ + 1]
    /\ UNCHANGED <<published, subscribers, lock, start, taken, pub>>

(* Filled between the two tests: QueueFull leaves subscribe as any other   *)
(* exception does, the socket still subscribed.                            *)
ReplayRefused(s) ==
    /\ Move(s, "offered", "failed")
    /\ QueueLen(s) >= QueueSize
    /\ lock' = NoOne
    /\ UNCHANGED <<published, subscribers, start, next, put, taken, pub>>

EndReplay(s) ==
    /\ Move(s, "replaying", "open")
    /\ published = start[s]
    /\ next[s] > start[s]
    /\ lock' = NoOne
    /\ UNCHANGED <<published, subscribers, start, next, put, taken, pub>>

(* Mutated ReplayBroken: the lock is released on success only. *)
ReplayBrokenLocked(s) ==
    /\ Move(s, "replaying", "failed")
    /\ published # start[s]
    /\ UNCHANGED <<published, subscribers, lock, start, next, put, taken, pub>>

(* A deque that changed under its iterator raises: the lock is released,   *)
(* the socket ends outside the try block that would unsubscribe it.        *)
ReplayBroken(s) ==
    /\ Move(s, "replaying", "failed")
    /\ published # start[s]
    /\ lock' = NoOne
    /\ UNCHANGED <<published, subscribers, start, next, put, taken, pub>>

-----------------------------------------------------------------------------
(* traffic_ws *)

(* Mutated SendNext: an empty queue gives an event as well. *)
SendNextBlind(s) ==
    /\ conn[s] = "open"
    /\ taken' = [taken EXCEPT ![s] = @ + 1]
    /\ UNCHANGED <<published, subscribers, lock, conn, start, next, put, pub>>

SendNext(s) ==
    /\ conn[s] = "open"
    /\ QueueLen(s) > 0
    /\ taken' = [taken EXCEPT ![s] = @ + 1]
    /\ UNCHANGED <<published, subscribers, lock, conn, start, next, put, pub>>

Disconnect(s) ==
    /\ Move(s, "open", "closing")
    /\ UNCHANGED <<published, subscribers, lock, start, next, put, taken, pub>>

(* Mutated Unsubscribe: the queue is left with the hub. *)
UnsubscribeLeaving(s) ==
    /\ Move(s, "closing", "closed")
    /\ lock = NoOne
    /\ UNCHANGED <<published, subscribers, lock, start, next, put, taken, pub>>

(* unsubscribe takes the lock and gives it back without waiting in between. *)
Unsubscribe(s) ==
    /\ Move(s, "closing", "closed")
    /\ lock = NoOne
    /\ subscribers' = subscribers \ {s}
    /\ UNCHANGED <<published, lock, start, next, put, taken, pub>>

PublisherStep(p) ==
    \/ AppendHistory(p) \/ ListSubscribers(p) \/ DiscardDead(p)
    \/ PutEvent(p) \/ \E s \in Sockets : TestRoom(p, s)

Subscribe(s) ==
    \/ Register(s) \/ StartReplay(s) \/ FetchEvent(s) \/ FindRoom(s) \/ RetestRoom(s)
    \/ ReplayEvent(s) \/ EndReplay(s) \/ ReplayBroken(s) \/ ReplayRefused(s)

Next ==
    \/ \E p \in Publishers : PublisherStep(p)
    \/ \E s \in Sockets :
        \/ TakeLock(s) \/ Subscribe(s) \/ SendNext(s)
        \/ Disconnect(s) \/ Unsubscribe(s)

Spec == Init /\ [][Next]_vars

(* The event loop runs what can run, and so do the threads that publish. *)
Fairness ==
    /\ \A s \in Sockets : WF_vars(Subscribe(s) \/ Unsubscribe(s))
    /\ \A p \in Publishers : WF_vars(PublisherStep(p) /\ ~AppendHistory(p))

FairSpec == Spec /\ Fairness

-----------------------------------------------------------------------------
(* Every variable has its type, and nothing is taken out of a queue that   *)
(* was not put there.                                                      *)
TypeOK ==
    /\ published \in 0..MaxEvents
    /\ subscribers \subseteq Sockets
    /\ lock \in Sockets \cup {NoOne}
    /\ conn \in [Sockets -> ConnStates]
    /\ start \in [Sockets -> 0..MaxEvents]
    /\ next \in [Sockets -> 0..MaxEvents + 1]
    /\ put \in [Sockets -> Seq(Events)]
    /\ taken \in [Sockets -> Nat]
    /\ \A s \in Sockets : taken[s] <= Len(put[s])
    /\ pub \in [Publishers -> [at : {"idle", "appended", "putting"},
                               event : 0..MaxEvents,
                               todo : SUBSET Sockets,
                               dead : SUBSET Sockets,
                               into : Sockets \cup {NoOne}]]

(* The queue of a socket that does not read does not grow without limit:   *)
(* put_nowait takes no lock, so a queue may exceed its maxsize, by what    *)
(* the threads and the replay had tested it for before the last place was  *)
(* taken, and by no more however many events are published.                *)
OverrunBounded == \A s \in Sockets : QueueLen(s) <= QueueSize + Cardinality(Publishers)

Put(s) == {put[s][i] : i \in 1..Len(put[s])}
Times(s, e) == Cardinality({i \in 1..Len(put[s]) : put[s][i] = e})

(* An event still on its way to a socket, or lost to it as its queue was full. *)
Underway(s, e) ==
    \E p \in Publishers :
        /\ pub[p].event = e
        /\ pub[p].at = "appended" \/ s \in pub[p].todo \cup pub[p].dead \cup {pub[p].into}

(* An open socket that was not discarded misses nothing: whatever was in   *)
(* the history when its replay began, and everything published since, is   *)
(* in its queue or was sent, or is being put there.                        *)
NothingMissed ==
    \A s \in Sockets : conn[s] = "open" /\ s \in subscribers =>
        \A e \in Events :
            /\ e <= published
            /\ e > start[s] - HistorySize
            => e \in Put(s) \/ Underway(s, e)

(* An event reaches a socket twice only if it entered the history before   *)
(* the replay and was put there after the registration, and never more.    *)
TwiceOnlyAcrossReplay ==
    \A s \in Sockets : \A e \in Events :
        /\ Times(s, e) <= 2
        /\ Times(s, e) = 2 => e <= start[s]

(* A closed socket leaves nothing behind: no queue that only the next 256  *)
(* events would get rid of.                                                *)
ClosedIsGone == \A s \in Sockets : conn[s] = "closed" => s \notin subscribers

WaitsForRoom(s) == conn[s] = "fetched" /\ QueueLen(s) >= QueueSize

(* The lock the other sockets need to come and go is given back, however   *)
(* a replay ends; only one that waits in q.put for room keeps it, room no  *)
(* one will make, as the socket reads nothing before it is open.           *)
LockReleased == \A s \in Sockets : lock = s ~> lock # s \/ WaitsForRoom(s)

=============================================================================
