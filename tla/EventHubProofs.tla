--------------------------- MODULE EventHubProofs ---------------------------
(* What EventHub promises, for any number of publishers, sockets and       *)
(* events and every size of the history and of the queues.  The inductive  *)
(* invariant says which events are on whose way, how far each replay is,   *)
(* and counts, for every socket and event, the places the event has or may *)
(* still get in the socket's queue.                                        *)
EXTENDS EventHub, FiniteSetTheorems, TLAPS

Publications == [at : {"idle", "appended", "putting"}, event : 0..MaxEvents,
                 todo : SUBSET Sockets, dead : SUBSET Sockets, into : Sockets \cup {NoOne}]

Unreplayed == {"away", "locked", "registered"}

(* An event of the history has been taken up. *)
Replaying == {"fetched", "offered", "putting"}

(* No two publishers have the same event in hand. *)
PublishersOK ==
    /\ published \in 0..MaxEvents
    /\ pub \in [Publishers -> Publications]
    /\ \A p \in Publishers :
        /\ pub[p].event <= published
        /\ pub[p].at = "idle" <=> pub[p].event = 0
        /\ pub[p].at # "putting" => pub[p].todo = {} /\ pub[p].dead = {} /\ pub[p].into = NoOne
        /\ pub[p].into \notin pub[p].todo
    /\ \A p, q \in Publishers : pub[p].event = pub[q].event /\ pub[p].event # 0 => p = q

(* A replay does not go beyond the history it began with, which is not     *)
(* ahead of the present one.                                               *)
SocketsOK ==
    /\ subscribers \subseteq Sockets
    /\ lock \in Sockets \cup {NoOne}
    /\ conn \in [Sockets -> ConnStates]
    /\ start \in [Sockets -> 0..MaxEvents]
    /\ next \in [Sockets -> 0..MaxEvents + 1]
    /\ \A s \in Sockets :
        /\ start[s] <= published
        /\ next[s] <= start[s] + 1
        /\ conn[s] \in Unreplayed <=> next[s] = 0
        /\ conn[s] \in Replaying => next[s] <= start[s]
        /\ conn[s] = "open" => next[s] > start[s]
        /\ conn[s] \in {"away", "locked", "closed"} => s \notin subscribers

QueuesOK ==
    /\ put \in [Sockets -> Seq(Events)]
    /\ taken \in [Sockets -> Nat]
    /\ \A s \in Sockets : taken[s] <= Len(put[s])

(* Who has found room in a queue and will put an event there, whatever the *)
(* queue holds by then.                                                    *)
Holders(s) == {p \in Publishers : pub[p].into = s}
Offered(s) == IF conn[s] = "putting" THEN 1 ELSE 0
Load(s) == QueueLen(s) + Cardinality(Holders(s)) + Offered(s)

LoadsBounded == \A s \in Sockets : Load(s) <= QueueSize + Cardinality(Publishers)

(* An event takes one place in a queue once it is published, held for it   *)
(* as long as its publisher may put it there, and one once the replay has  *)
(* passed it.                                                              *)
Coming(s, e) == \E p \in Publishers : pub[p].event = e /\ (pub[p].at = "appended" \/ s \in pub[p].todo \cup {pub[p].into})
Places(s, e) == (IF e <= published THEN 1 ELSE 0) + (IF e < next[s] THEN 1 ELSE 0)

TimesCounted ==
    \A s \in Sockets : \A e \in Events :
        Times(s, e) + (IF Coming(s, e) THEN 1 ELSE 0) <= Places(s, e)

(* NothingMissed from the beginning of the replay on: what it has passed   *)
(* and what was published since.                                           *)
Due(s, e) ==
    /\ s \in subscribers
    /\ conn[s] \in Replaying \cup {"replaying", "open"}
    /\ e <= published
    /\ e > start[s] - HistorySize
    /\ e < next[s] \/ e > start[s]

AllKept == \A s \in Sockets : \A e \in Events : Due(s, e) => e \in Put(s) \/ Underway(s, e)

IInv == PublishersOK /\ SocketsOK /\ QueuesOK /\ LoadsBounded /\ TimesCounted /\ AllKept


-----------------------------------------------------------------------------
(* The publishers.                                                         *)

(* No step gives one event to two publishers, or a publisher work it       *)
(* should not have.                                                        *)
LEMMA PublishersStep ==
  ASSUME PublishersOK, subscribers \subseteq Sockets, [Next]_vars
  PROVE  PublishersOK'
<1>1. /\ published \in 0..MaxEvents /\ MaxEvents \in Nat
      /\ pub \in [Publishers -> Publications]
      /\ \A p \in Publishers :
            /\ pub[p].event <= published
            /\ pub[p].at = "idle" <=> pub[p].event = 0
            /\ pub[p].at # "putting" => pub[p].todo = {} /\ pub[p].dead = {} /\ pub[p].into = NoOne
            /\ pub[p].into \notin pub[p].todo
      /\ \A p, q \in Publishers : pub[p].event = pub[q].event /\ pub[p].event # 0 => p = q
  BY HubAssumption DEF PublishersOK
<1>2. ASSUME NEW p \in Publishers, AppendHistory(p) PROVE PublishersOK'
  <2> DEFINE r == [Idle EXCEPT !.at = "appended", !.event = published + 1]
  <2>1. /\ pub' = [pub EXCEPT ![p] = r] /\ published' = published + 1 /\ published < MaxEvents
    BY <1>2 DEF AppendHistory
  <2>2. published + 1 \in 0..MaxEvents /\ published' \in 0..MaxEvents
    BY <1>1, <2>1
  <2>3. /\ r \in Publications
        /\ r.event = published + 1 /\ r.at = "appended" /\ r.todo = {} /\ r.dead = {} /\ r.into = NoOne
    <3>1. Idle \in Publications /\ Idle.todo = {} /\ Idle.dead = {} /\ Idle.into = NoOne
      BY <1>1 DEF Publications, Idle
    <3>2. QED
      BY <2>2, <3>1 DEF Publications
  <2> HIDE DEF r
  <2>4. pub'[p] = r /\ \A q \in Publishers \ {p} : pub'[q] = pub[q] /\ pub[q].event \in 0..published
    <3>1. pub'[p] = r /\ \A q \in Publishers \ {p} : pub'[q] = pub[q]
      BY <1>1, <2>1
    <3>2. \A q \in Publishers : pub[q].event \in 0..MaxEvents /\ pub[q].event <= published
      BY <1>1 DEF Publications
    <3>3. QED
      BY <1>1, <3>1, <3>2
  <2>5. pub' \in [Publishers -> Publications]
    BY <1>1, <2>1, <2>3
  <2>6. \A q \in Publishers :
          /\ pub'[q].event <= published'
          /\ pub'[q].at = "idle" <=> pub'[q].event = 0
          /\ pub'[q].at # "putting" => pub'[q].todo = {} /\ pub'[q].dead = {} /\ pub'[q].into = NoOne
          /\ pub'[q].into \notin pub'[q].todo
    BY <1>1, <2>1, <2>3, <2>4
  <2>7. \A q, u \in Publishers : pub'[q].event = pub'[u].event /\ pub'[q].event # 0 => q = u
    BY <1>1, <2>3, <2>4
  <2>8. QED
    BY <2>2, <2>5, <2>6, <2>7 DEF PublishersOK
<1>3. ASSUME NEW p \in Publishers, NEW r \in Publications, pub' = [pub EXCEPT ![p] = r],
             r.at = "putting" /\ r.event = pub[p].event /\ r.into \notin r.todo, pub[p].at # "idle",
             published' = published
      PROVE  PublishersOK'
  BY <1>1, <1>3 DEF PublishersOK
<1>4. ASSUME NEW p \in Publishers, ListSubscribers(p) PROVE PublishersOK'
  <2>1. /\ pub[p].at = "appended" /\ published' = published
        /\ pub' = [pub EXCEPT ![p] = [pub[p] EXCEPT !.at = "putting", !.todo = subscribers]]
    BY <1>1, <1>4 DEF ListSubscribers
  <2>2. /\ [pub[p] EXCEPT !.at = "putting", !.todo = subscribers] \in Publications
        /\ [pub[p] EXCEPT !.at = "putting", !.todo = subscribers].at = "putting"
        /\ [pub[p] EXCEPT !.at = "putting", !.todo = subscribers].event = pub[p].event
        /\ [pub[p] EXCEPT !.at = "putting", !.todo = subscribers].into = NoOne
        /\ [pub[p] EXCEPT !.at = "putting", !.todo = subscribers].todo = subscribers
    BY <1>1, <2>1 DEF Publications
  <2>3. QED
    BY <1>3, <2>1, <2>2, HubAssumption
<1>5. ASSUME NEW p \in Publishers, NEW s \in Sockets, TestRoom(p, s) PROVE PublishersOK'
  <2>1. pub[p].at = "putting" /\ published' = published /\ pub[p].into = NoOne /\ s # NoOne
    BY <1>5, HubAssumption DEF TestRoom, Turn
  <2> DEFINE found == [pub[p] EXCEPT !.todo = @ \ {s}, !.into = s]
             full == [pub[p] EXCEPT !.todo = @ \ {s}, !.dead = @ \cup {s}]
  <2>2a. /\ pub[p] \in Publications /\ pub[p].todo \ {s} \in SUBSET Sockets
         /\ pub[p].dead \cup {s} \in SUBSET Sockets
    BY <1>1 DEF Publications
  <2>2. pub' = [pub EXCEPT ![p] = found] \/ pub' = [pub EXCEPT ![p] = full]
    BY <1>1, <1>5 DEF TestRoom
  <2>3. /\ found \in Publications
        /\ found.at = "putting" /\ found.event = pub[p].event
        /\ found.into = s /\ found.todo = pub[p].todo \ {s}
    <3>1. /\ found.at = "putting" /\ found.event = pub[p].event
          /\ found.into = s /\ found.todo = pub[p].todo \ {s}
      BY <2>1, <2>2a DEF Publications
    <3>2. found \in Publications
      BY <2>2a DEF Publications
    <3>3. QED
      BY <3>1, <3>2
  <2>4. /\ full \in Publications
        /\ full.at = "putting" /\ full.event = pub[p].event
        /\ full.into = NoOne /\ full.todo = pub[p].todo \ {s}
    <3>1. /\ full.at = "putting" /\ full.event = pub[p].event
          /\ full.into = NoOne /\ full.todo = pub[p].todo \ {s}
      BY <2>1, <2>2a DEF Publications
    <3>2. full \in Publications
      BY <2>2a DEF Publications
    <3>3. QED
      BY <3>1, <3>2
  <2> HIDE DEF found, full
  <2>5. NoOne \notin pub[p].todo \ {s}
    BY <1>1, <2>1
  <2>6. QED
    BY <1>3, <2>1, <2>2, <2>3, <2>4, <2>5
<1>5a. ASSUME NEW p \in Publishers, PutEvent(p) PROVE PublishersOK'
  <2>1. pub[p].at = "putting" /\ published' = published /\ pub' = [pub EXCEPT ![p] = [pub[p] EXCEPT !.into = NoOne]]
    BY <1>1, <1>5a DEF PutEvent
  <2>2. /\ [pub[p] EXCEPT !.into = NoOne] \in Publications
        /\ [pub[p] EXCEPT !.into = NoOne].at = "putting"
        /\ [pub[p] EXCEPT !.into = NoOne].event = pub[p].event
        /\ [pub[p] EXCEPT !.into = NoOne].into = NoOne
        /\ [pub[p] EXCEPT !.into = NoOne].todo = pub[p].todo
    BY <1>1, <2>1 DEF Publications
  <2>3. NoOne \notin pub[p].todo
    BY <1>1, HubAssumption DEF Publications
  <2>4. QED
    BY <1>3, <2>1, <2>2, <2>3
<1>6. ASSUME NEW p \in Publishers, DiscardDead(p) PROVE PublishersOK'
  <2>1. pub' = [pub EXCEPT ![p] = Idle] /\ published' = published
    BY <1>6 DEF DiscardDead
  <2>2. Idle \in Publications /\ Idle.at = "idle" /\ Idle.event = 0 /\ Idle.todo = {} /\ Idle.dead = {} /\ Idle.into = NoOne
    BY <1>1 DEF Publications, Idle
  <2>3. QED
    BY <1>1, <2>1, <2>2 DEF PublishersOK
<1>7. CASE UNCHANGED <<published, pub>>
  BY <1>7 DEF PublishersOK
<1>8. ASSUME NEW s \in Sockets, TakeLock(s) \/ Subscribe(s) \/ SendNext(s) \/ Disconnect(s) \/ Unsubscribe(s)
      PROVE  UNCHANGED <<published, pub>>
  BY <1>8 DEF TakeLock, Subscribe, SendNext, Disconnect, Unsubscribe, Register, StartReplay, FetchEvent,
     FindRoom, RetestRoom, ReplayEvent, EndReplay, ReplayBroken, ReplayRefused
<1>9. QED
  BY <1>2, <1>4, <1>5, <1>5a, <1>6, <1>7, <1>8 DEF Next, PublisherStep, vars

-----------------------------------------------------------------------------
(* The sockets.                                                            *)

(* Publishers take sockets out and let the history grow. *)
LEMMA PublisherLeavesSockets ==
  ASSUME NEW p \in Publishers, PublisherStep(p)
  PROVE  /\ UNCHANGED <<lock, conn, start, next, taken>>
         /\ published' \in {published, published + 1}
         /\ subscribers' \subseteq subscribers
  BY DEF PublisherStep, AppendHistory, ListSubscribers, TestRoom, PutEvent, DiscardDead

(* The oldest event of the history, or the next one to be published when   *)
(* there is none.                                                          *)
LEMMA OldestInHistory ==
  ASSUME published \in 0..MaxEvents
  PROVE  Oldest \in 1..published + 1 /\ Oldest <= MaxEvents + 1
         /\ (Oldest = 1 \/ Oldest = published - HistorySize + 1)
  BY HubAssumption DEF Oldest

(* A socket that moves moves alone. *)
LEMMA MoveAlone ==
  ASSUME conn \in [Sockets -> ConnStates], NEW s \in Sockets, NEW from, NEW to \in ConnStates, Move(s, from, to)
  PROVE  /\ conn' \in [Sockets -> ConnStates] /\ conn[s] = from /\ conn'[s] = to
         /\ \A u \in Sockets \ {s} : conn'[u] = conn[u]
  BY DEF Move

(* What has to be shown of the socket that moved. *)
SocketOK(s) ==
    /\ start[s] \in 0..MaxEvents /\ next[s] \in 0..MaxEvents + 1
    /\ start[s] <= published
    /\ next[s] <= start[s] + 1
    /\ conn[s] \in Unreplayed <=> next[s] = 0
    /\ conn[s] \in Replaying => next[s] <= start[s]
    /\ conn[s] = "open" => next[s] > start[s]
    /\ conn[s] \in {"away", "locked", "closed"} => s \notin subscribers

(* A step that moves one socket, and its replay by at most one event,      *)
(* concerns no other socket.                                               *)
LEMMA SocketsAlone ==
  ASSUME SocketsOK, NEW s \in Sockets, NEW from, NEW to \in ConnStates, Move(s, from, to), SocketOK(s)',
         published' = published, lock' \in Sockets \cup {NoOne}, subscribers' \subseteq subscribers \cup {s},
         \/ UNCHANGED <<start, next>>
         \/ start' = [start EXCEPT ![s] = published] /\ next' = [next EXCEPT ![s] = Oldest]
         \/ start' = start /\ next' = [next EXCEPT ![s] = @ + 1]
  PROVE  SocketsOK'
<1>1. /\ conn' \in [Sockets -> ConnStates] /\ \A u \in Sockets \ {s} : conn'[u] = conn[u]
      /\ start \in [Sockets -> 0..MaxEvents] /\ next \in [Sockets -> 0..MaxEvents + 1]
  BY MoveAlone DEF SocketsOK
<1>2. \A u \in Sockets \ {s} : start'[u] = start[u] /\ next'[u] = next[u]
  BY <1>1
<1>3. /\ start' = [u \in Sockets |-> start'[u]] /\ next' = [u \in Sockets |-> next'[u]]
  BY <1>1
<1>4. start' \in [Sockets -> 0..MaxEvents] /\ next' \in [Sockets -> 0..MaxEvents + 1]
  <2>1. \A u \in Sockets : start'[u] \in 0..MaxEvents /\ next'[u] \in 0..MaxEvents + 1
    BY <1>1, <1>2 DEF SocketOK
  <2>2. QED
    BY <1>3, <2>1
<1>5. \A u \in Sockets :
        /\ start'[u] <= published'
        /\ next'[u] <= start'[u] + 1
        /\ conn'[u] \in Unreplayed <=> next'[u] = 0
        /\ conn'[u] \in Replaying => next'[u] <= start'[u]
        /\ conn'[u] = "open" => next'[u] > start'[u]
        /\ conn'[u] \in {"away", "locked", "closed"} => u \notin subscribers'
  BY <1>1, <1>2 DEF SocketOK, SocketsOK
<1>6. QED
  BY <1>1, <1>4, <1>5 DEF SocketsOK

(* No step takes a replay beyond the history it began with.                *)
LEMMA SocketsStep ==
  ASSUME SocketsOK, published \in 0..MaxEvents, [Next]_vars
  PROVE  SocketsOK'
<1>1. /\ subscribers \subseteq Sockets /\ MaxEvents \in Nat
      /\ conn \in [Sockets -> ConnStates]
      /\ start \in [Sockets -> 0..MaxEvents] /\ next \in [Sockets -> 0..MaxEvents + 1]
      /\ lock \in Sockets \cup {NoOne}
      /\ \A s \in Sockets : SocketOK(s)
  BY HubAssumption DEF SocketsOK, SocketOK
<1>2. ASSUME NEW p \in Publishers, PublisherStep(p) PROVE SocketsOK'
  <2>1. /\ UNCHANGED <<lock, conn, start, next>> /\ subscribers' \subseteq subscribers
        /\ published' \in {published, published + 1}
    BY <1>2, PublisherLeavesSockets
  <2>2. \A s \in Sockets : start[s] <= published'
    BY <1>1, <2>1 DEF SocketOK
  <2>3. QED
    BY <1>1, <2>1, <2>2 DEF SocketsOK
<1> USE DEF ConnStates, Unreplayed, Replaying
<1>3. ASSUME NEW s \in Sockets, TakeLock(s) PROVE SocketsOK'
  <2>1. /\ Move(s, "away", "locked") /\ lock' = s /\ UNCHANGED <<published, subscribers, start, next>>
    BY <1>3 DEF TakeLock
  <2>2. SocketOK(s)'
    BY <1>1, <2>1 DEF Move, SocketOK
  <2>3. QED
    BY <2>1, <2>2, SocketsAlone
<1>4. ASSUME NEW s \in Sockets, Register(s) PROVE SocketsOK'
  <2>1. /\ Move(s, "locked", "registered") /\ subscribers' = subscribers \cup {s}
        /\ UNCHANGED <<published, lock, start, next>>
    BY <1>4 DEF Register
  <2>2. SocketOK(s)'
    BY <1>1, <2>1 DEF Move, SocketOK
  <2>3. QED
    BY <1>1, <2>1, <2>2, SocketsAlone
<1>5. ASSUME NEW s \in Sockets, StartReplay(s) PROVE SocketsOK'
  <2>1. /\ Move(s, "registered", "replaying") /\ UNCHANGED <<published, subscribers, lock>>
        /\ start' = [start EXCEPT ![s] = published] /\ next' = [next EXCEPT ![s] = Oldest]
    BY <1>5 DEF StartReplay
  <2>2. start'[s] = published /\ next'[s] = Oldest /\ conn'[s] = "replaying"
    BY <1>1, <2>1 DEF Move
  <2>3. SocketOK(s)'
    BY <1>1, <2>1, <2>2, OldestInHistory DEF SocketOK
  <2>4. QED
    BY <1>1, <2>1, <2>3, SocketsAlone
<1>6. ASSUME NEW s \in Sockets, FetchEvent(s) PROVE SocketsOK'
  <2>1. /\ Move(s, "replaying", "fetched") /\ UNCHANGED <<published, subscribers, lock, start, next>>
        /\ next[s] <= start[s]
    BY <1>6 DEF FetchEvent
  <2>2. SocketOK(s)'
    BY <1>1, <2>1 DEF Move, SocketOK
  <2>3. QED
    BY <1>1, <2>1, <2>2, SocketsAlone
<1>6a. ASSUME NEW s \in Sockets, NEW from \in Replaying, NEW to \in Replaying, Move(s, from, to),
              UNCHANGED <<published, subscribers, lock, start, next>>
       PROVE  SocketsOK'
  <2>1. SocketOK(s)'
    BY <1>1, <1>6a DEF Move, SocketOK
  <2>2. QED
    BY <1>1, <1>6a, <2>1, SocketsAlone
<1>6b. ASSUME NEW s \in Sockets, FindRoom(s) \/ RetestRoom(s) PROVE SocketsOK'
  BY <1>6a, <1>6b DEF FindRoom, RetestRoom
<1>7. ASSUME NEW s \in Sockets, ReplayEvent(s) PROVE SocketsOK'
  <2>1. /\ Move(s, "putting", "replaying") /\ UNCHANGED <<published, subscribers, lock, start>>
        /\ next' = [next EXCEPT ![s] = @ + 1]
    BY <1>7 DEF ReplayEvent
  <2>2. next'[s] = next[s] + 1 /\ conn[s] = "putting" /\ conn'[s] = "replaying"
    BY <1>1, <2>1 DEF Move
  <2>3. SocketOK(s)'
    BY <1>1, <2>1, <2>2 DEF SocketOK
  <2>4. QED
    BY <1>1, <2>1, <2>3, SocketsAlone
<1>8. ASSUME NEW s \in Sockets, EndReplay(s) PROVE SocketsOK'
  <2>1. /\ Move(s, "replaying", "open") /\ UNCHANGED <<published, subscribers, start, next>>
        /\ next[s] > start[s] /\ lock' = NoOne
    BY <1>8 DEF EndReplay
  <2>2. SocketOK(s)'
    BY <1>1, <2>1 DEF Move, SocketOK
  <2>3. QED
    BY <2>1, <2>2, SocketsAlone
<1>9. ASSUME NEW s \in Sockets, ReplayBroken(s) \/ ReplayRefused(s) PROVE SocketsOK'
  <2>1. /\ Move(s, "replaying", "failed") \/ Move(s, "offered", "failed")
        /\ UNCHANGED <<published, subscribers, start, next>> /\ lock' = NoOne
    BY <1>9 DEF ReplayBroken, ReplayRefused
  <2>2. SocketOK(s)'
    BY <1>1, <2>1 DEF Move, SocketOK
  <2>3. QED
    BY <2>1, <2>2, SocketsAlone
<1>10. ASSUME NEW s \in Sockets, Disconnect(s) PROVE SocketsOK'
  <2>1. Move(s, "open", "closing") /\ UNCHANGED <<published, subscribers, lock, start, next>>
    BY <1>10 DEF Disconnect
  <2>2. SocketOK(s)'
    BY <1>1, <2>1 DEF Move, SocketOK
  <2>3. QED
    BY <1>1, <2>1, <2>2, SocketsAlone
<1>11. ASSUME NEW s \in Sockets, Unsubscribe(s) PROVE SocketsOK'
  <2>1. /\ Move(s, "closing", "closed") /\ subscribers' = subscribers \ {s}
        /\ UNCHANGED <<published, lock, start, next>>
    BY <1>11 DEF Unsubscribe
  <2>2. SocketOK(s)'
    BY <1>1, <2>1 DEF Move, SocketOK
  <2>3. QED
    BY <1>1, <2>1, <2>2, SocketsAlone
<1>12. ASSUME UNCHANGED <<published, subscribers, lock, conn, start, next>> PROVE SocketsOK'
  BY <1>12 DEF SocketsOK
<1>13. ASSUME NEW s \in Sockets, SendNext(s) PROVE SocketsOK'
  BY <1>12, <1>13 DEF SendNext
<1>14. CASE UNCHANGED vars
  BY <1>12, <1>14 DEF vars
<1>15. QED
  BY <1>2, <1>3, <1>4, <1>5, <1>6, <1>6b, <1>7, <1>8, <1>9, <1>10, <1>11, <1>13, <1>14 DEF Next, Subscribe


-----------------------------------------------------------------------------
(* The queues.                                                             *)

(* A put adds one event at the end of one queue.                           *)
LEMMA AppendOne ==
  ASSUME QueuesOK, NEW s \in Sockets, NEW e \in Events, Enqueue(s, e)
  PROVE  /\ put' \in [Sockets -> Seq(Events)]
         /\ \A u \in Sockets \ {s} : put'[u] = put[u]
         /\ put'[s] = Append(put[s], e) /\ Len(put[s]) \in Nat
         /\ Len(put'[s]) = Len(put[s]) + 1 /\ put'[s][Len(put[s]) + 1] = e
         /\ \A i \in 1..Len(put[s]) : put'[s][i] = put[s][i]
<1>1. put[s] \in Seq(Events) /\ put \in [Sockets -> Seq(Events)]
  BY DEF QueuesOK
<1>2. /\ Append(put[s], e) \in Seq(Events) /\ Len(put[s]) \in Nat
      /\ Len(Append(put[s], e)) = Len(put[s]) + 1 /\ Append(put[s], e)[Len(put[s]) + 1] = e
      /\ \A i \in 1..Len(put[s]) : Append(put[s], e)[i] = put[s][i]
  BY <1>1
<1>3. put' = [put EXCEPT ![s] = Append(put[s], e)]
  BY DEF Enqueue
<1>4. put'[s] = Append(put[s], e) /\ \A u \in Sockets \ {s} : put'[u] = put[u]
  BY <1>1, <1>3
<1>5. put' \in [Sockets -> Seq(Events)]
  BY <1>1, <1>2, <1>3
<1>6. QED
  BY <1>2, <1>4, <1>5

(* The queues grow by what a publisher or the replay puts there, and by    *)
(* nothing else.                                                           *)
LEMMA PutKinds ==
  ASSUME PublishersOK, SocketsOK, [Next]_vars
  PROVE  \/ put' = put
         \/ \E p \in Publishers : \E s \in Sockets :
                /\ PutEvent(p) /\ s = pub[p].into /\ Enqueue(s, pub[p].event) /\ pub[p].event \in Events
                /\ taken' = taken
         \/ \E s \in Sockets : /\ ReplayEvent(s) /\ next[s] \in Events
                               /\ Enqueue(s, next[s]) /\ taken' = taken
<1>1. ASSUME NEW p \in Publishers, PutEvent(p)
      PROVE  /\ pub[p].into \in Sockets /\ Enqueue(pub[p].into, pub[p].event)
             /\ pub[p].event \in Events /\ taken' = taken
  <2>1. Enqueue(pub[p].into, pub[p].event) /\ taken' = taken /\ pub[p].into # NoOne
    BY <1>1 DEF PutEvent
  <2>2. pub[p].event \in 0..MaxEvents /\ pub[p].event # 0 /\ pub[p].into \in Sockets
    BY <2>1 DEF PublishersOK, Publications
  <2>3. pub[p].event \in Events
    BY <2>2, HubAssumption DEF Events
  <2>4. QED
    BY <2>1, <2>2, <2>3
<1>2. ASSUME NEW s \in Sockets, ReplayEvent(s)
      PROVE  next[s] \in Events /\ Enqueue(s, next[s]) /\ taken' = taken
  <2>1. conn[s] = "putting"
    BY <1>2 DEF ReplayEvent, Move
  <2>2. next[s] \in 0..MaxEvents + 1 /\ start[s] \in 0..MaxEvents /\ next[s] <= start[s] /\ next[s] # 0
    BY <2>1 DEF SocketsOK, Unreplayed, Replaying
  <2>3. QED
    BY <1>2, <2>2, HubAssumption DEF ReplayEvent, Events
<1>3. ASSUME NEW p \in Publishers,
             AppendHistory(p) \/ ListSubscribers(p) \/ DiscardDead(p) \/ \E s \in Sockets : TestRoom(p, s)
      PROVE  put' = put
  BY <1>3 DEF AppendHistory, ListSubscribers, DiscardDead, TestRoom
<1>4. ASSUME NEW s \in Sockets, ~ReplayEvent(s),
             TakeLock(s) \/ Subscribe(s) \/ SendNext(s) \/ Disconnect(s) \/ Unsubscribe(s)
      PROVE  put' = put
  BY <1>4 DEF TakeLock, Subscribe, SendNext, Disconnect, Unsubscribe, Register, StartReplay, FetchEvent,
     FindRoom, RetestRoom, EndReplay, ReplayBroken, ReplayRefused
<1>5. QED
  BY <1>1, <1>2, <1>3, <1>4 DEF Next, PublisherStep, vars

(* Only the socket that sends takes something out of its queue.            *)
LEMMA TakenKinds ==
  ASSUME [Next]_vars
  PROVE  taken' = taken \/ \E s \in Sockets : SendNext(s)
BY DEF Next, PublisherStep, AppendHistory, ListSubscribers, TestRoom, PutEvent, DiscardDead, TakeLock, Subscribe,
   Disconnect, Unsubscribe, Register, StartReplay, FetchEvent, FindRoom, RetestRoom, ReplayEvent, EndReplay,
   ReplayBroken, ReplayRefused, vars

(* An event sent leaves one less in its own queue.                         *)
LEMMA SendsOne ==
  ASSUME QueuesOK, NEW s \in Sockets, SendNext(s)
  PROVE  /\ put' = put /\ taken' \in [Sockets -> Nat]
         /\ taken'[s] = taken[s] + 1 /\ \A u \in Sockets \ {s} : taken'[u] = taken[u]
         /\ taken[s] \in Nat /\ Len(put[s]) \in Nat /\ taken[s] + 1 <= Len(put[s])
<1>1. put' = put /\ taken' = [taken EXCEPT ![s] = @ + 1] /\ QueueLen(s) > 0 /\ taken \in [Sockets -> Nat]
  BY DEF SendNext, QueuesOK
<1>2. Len(put[s]) \in Nat
  BY DEF QueuesOK
<1>3. QED
  BY <1>1, <1>2 DEF QueueLen

(* Only what was put is taken out.                                         *)
LEMMA QueuesStep ==
  ASSUME PublishersOK, SocketsOK, QueuesOK, [Next]_vars
  PROVE  QueuesOK'
<1>1. ASSUME NEW s \in Sockets, NEW e \in Events, Enqueue(s, e), taken' = taken
      PROVE  QueuesOK'
  <2>1. /\ \A u \in Sockets \ {s} : put'[u] = put[u]
        /\ Len(put[s]) \in Nat /\ Len(put'[s]) = Len(put[s]) + 1 /\ put' \in [Sockets -> Seq(Events)]
    BY <1>1, AppendOne
  <2>2. taken[s] \in Nat /\ taken[s] <= Len(put[s])
    BY DEF QueuesOK
  <2>3. \A u \in Sockets : taken'[u] <= Len(put'[u])
    <3>1. taken'[s] <= Len(put'[s])
      BY <1>1, <2>1, <2>2
    <3>2. ASSUME NEW u \in Sockets \ {s} PROVE taken'[u] <= Len(put'[u])
      <4>1. taken'[u] = taken[u] /\ put'[u] = put[u]
        BY <1>1, <2>1
      <4>2. QED
        BY <4>1 DEF QueuesOK
    <3>3. QED
      BY <3>1, <3>2
  <2>4. QED
    BY <1>1, <2>1, <2>3 DEF QueuesOK
<1>2. CASE put' # put
  BY <1>1, <1>2, PutKinds
<1>3. ASSUME NEW s \in Sockets, SendNext(s) PROVE QueuesOK'
  <2>1. \A u \in Sockets : taken'[u] <= Len(put'[u])
    BY <1>3, SendsOne DEF QueuesOK
  <2>2. QED
    BY <1>3, <2>1, SendsOne DEF QueuesOK
<1>4. CASE put' = put /\ taken' = taken
  BY <1>4 DEF QueuesOK
<1>5. QED
  BY <1>2, <1>3, <1>4, TakenKinds


-----------------------------------------------------------------------------
(* How far a queue is overrun.                                             *)

(* As many publishers as there are may have found room in a queue.         *)
LEMMA CountedPublishers ==
  ASSUME NEW H \in SUBSET Publishers
  PROVE  /\ IsFiniteSet(H) /\ Cardinality(H) \in Nat /\ Cardinality(Publishers) \in Nat
         /\ Cardinality(H) <= Cardinality(Publishers)
BY HubAssumption, FS_Subset, FS_CardinalityType

(* The length of a queue is a number.                                      *)
LEMMA LengthIsNat == QueuesOK => \A s \in Sockets : QueueLen(s) \in Nat
<1> SUFFICES ASSUME QueuesOK, NEW s \in Sockets PROVE QueueLen(s) \in Nat
  OBVIOUS
<1>1. Len(put[s]) \in Nat /\ taken[s] \in Nat /\ taken[s] <= Len(put[s])
  BY DEF QueuesOK
<1>2. QED
  BY <1>1 DEF QueueLen

(* No step brings a queue, with those who will put there, above its bound: *)
(* whoever joins them has found room, and may be the last of all           *)
(* publishers and the replay to do so; a put takes its putter off.         *)
LEMMA LoadsStep ==
  ASSUME PublishersOK, SocketsOK, QueuesOK, LoadsBounded, [Next]_vars
  PROVE  LoadsBounded'
<1> DEFINE N == Cardinality(Publishers)
<1> SUFFICES ASSUME NEW u \in Sockets PROVE Load(u)' <= QueueSize + N
  BY DEF LoadsBounded
<1>1. /\ Cardinality(Holders(u)) \in Nat /\ Cardinality(Holders(u)') \in Nat /\ N \in Nat
      /\ Cardinality(Holders(u)') <= N /\ IsFiniteSet(Holders(u))
  <2>1. Holders(u) \in SUBSET Publishers /\ Holders(u)' \in SUBSET Publishers
    BY DEF Holders
  <2>2. QED
    BY <2>1, CountedPublishers
<1>2. QueueLen(u) \in Nat /\ QueueLen(u)' \in Nat
  <2>1. QueueLen(u) \in Nat
    BY LengthIsNat
  <2>2. QueuesOK'
    BY QueuesStep
  <2>3. QueueLen(u)' \in Nat
    <3>1. Len(put'[u]) \in Nat /\ taken'[u] \in Nat /\ taken'[u] <= Len(put'[u])
      BY <2>2 DEF QueuesOK
    <3>2. QED
      BY <3>1 DEF QueueLen
  <2>4. QED
    BY <2>1, <2>3
<1>3. Offered(u) \in {0, 1} /\ Offered(u)' \in {0, 1} /\ QueueSize \in Nat
  BY HubAssumption DEF Offered
<1>4. /\ QueueLen(u) + Cardinality(Holders(u)) + Offered(u) <= QueueSize + N
      /\ Load(u)' = QueueLen(u)' + Cardinality(Holders(u)') + Offered(u)'
  BY DEF LoadsBounded, Load
<1> HIDE DEF N
<1>5. ASSUME QueueLen(u)' <= QueueLen(u), Holders(u)' = Holders(u), Offered(u)' <= Offered(u)
      PROVE  Load(u)' <= QueueSize + N
  BY <1>1, <1>2, <1>3, <1>4, <1>5
<1>6. ASSUME QueueLen(u)' < QueueSize
      PROVE  Load(u)' <= QueueSize + N
  BY <1>1, <1>2, <1>3, <1>4, <1>6
<1>7. /\ pub \in [Publishers -> Publications] /\ conn \in [Sockets -> ConnStates]
      /\ \A p \in Publishers : pub[p].at # "putting" => pub[p].into = NoOne
  BY DEF PublishersOK, SocketsOK
<1>8. u # NoOne
  BY HubAssumption
<1>9. ASSUME NEW p \in Publishers, \A q \in Publishers \ {p} : pub'[q] = pub[q], pub'[p].into = pub[p].into
      PROVE  Holders(u)' = Holders(u)
  BY <1>9 DEF Holders
<1>10. ASSUME NEW p \in Publishers, AppendHistory(p) \/ ListSubscribers(p) \/ DiscardDead(p)
       PROVE  Load(u)' <= QueueSize + N
  <2>1. UNCHANGED <<put, taken, conn>>
    BY <1>10 DEF AppendHistory, ListSubscribers, DiscardDead
  <2>2. \A q \in Publishers \ {p} : pub'[q] = pub[q]
    BY <1>7, <1>10 DEF AppendHistory, ListSubscribers, DiscardDead
  <2>3. pub'[p].into = pub[p].into
    <3>1. CASE AppendHistory(p)
      <4>1. pub[p].into = NoOne /\ pub' = [pub EXCEPT ![p] = [Idle EXCEPT !.at = "appended", !.event = published + 1]]
        BY <1>7, <3>1 DEF AppendHistory
      <4>2. [Idle EXCEPT !.at = "appended", !.event = published + 1].into = NoOne
        BY DEF Idle
      <4>3. QED
        BY <1>7, <4>1, <4>2
    <3>2. CASE ListSubscribers(p)
      BY <1>7, <3>2 DEF ListSubscribers, Publications
    <3>3. CASE DiscardDead(p)
      BY <1>7, <3>3 DEF DiscardDead, Idle
    <3>4. QED
      BY <1>10, <3>1, <3>2, <3>3
  <2>4. Holders(u)' = Holders(u)
    BY <1>9, <2>2, <2>3
  <2>5. QED
    BY <1>2, <1>3, <1>5, <2>1, <2>4 DEF QueueLen, Offered
<1>11. ASSUME NEW p \in Publishers, NEW s \in Sockets, TestRoom(p, s)
       PROVE  Load(u)' <= QueueSize + N
  <2>1. UNCHANGED <<put, taken, conn>> /\ pub[p].into = NoOne
    BY <1>11 DEF TestRoom, Turn
  <2>2. CASE u = s /\ QueueLen(s) < QueueSize
    BY <1>6, <2>1, <2>2 DEF QueueLen
  <2>3. CASE ~(u = s /\ QueueLen(s) < QueueSize)
    <3>1. \A q \in Publishers \ {p} : pub'[q] = pub[q]
      BY <1>7, <1>11 DEF TestRoom
    <3>2. pub'[p].into # u
      BY <1>7, <1>8, <1>11, <2>1, <2>3 DEF TestRoom, Publications
    <3>3. Holders(u)' = Holders(u)
      BY <1>8, <2>1, <3>1, <3>2 DEF Holders
    <3>4. QED
      BY <1>2, <1>3, <1>5, <2>1, <3>3 DEF QueueLen, Offered
  <2>4. QED
    BY <2>2, <2>3
<1>12. ASSUME NEW p \in Publishers, PutEvent(p)
       PROVE  Load(u)' <= QueueSize + N
  <2>1. UNCHANGED <<taken, conn>> /\ Enqueue(pub[p].into, pub[p].event)
    BY <1>12 DEF PutEvent
  <2>2. pub'[p].into = NoOne /\ \A q \in Publishers \ {p} : pub'[q] = pub[q]
    BY <1>7, <1>12 DEF PutEvent, Publications
  <2>3. pub[p].event \in Events /\ pub[p].into \in Sockets
    <3>1. pub[p].event \in 0..MaxEvents /\ pub[p].event # 0 /\ pub[p].into \in Sockets
      BY <1>12 DEF PutEvent, PublishersOK, Publications
    <3>2. QED
      BY <3>1, HubAssumption DEF Events
  <2>4. CASE u = pub[p].into
    <3>1. Holders(u)' = Holders(u) \ {p} /\ p \in Holders(u)
      BY <1>8, <2>2, <2>4 DEF Holders
    <3>2. Cardinality(Holders(u)') = Cardinality(Holders(u)) - 1
      BY <1>1, <3>1, FS_RemoveElement
    <3>3. Len(put'[u]) = Len(put[u]) + 1 /\ Len(put[u]) \in Nat /\ taken[u] \in Nat
      BY <2>1, <2>3, <2>4, AppendOne DEF QueuesOK
    <3>4. QueueLen(u)' = QueueLen(u) + 1
      BY <2>1, <3>3 DEF QueueLen
    <3>5. Offered(u)' = Offered(u)
      BY <2>1 DEF Offered
    <3>6. QED
      BY <1>1, <1>2, <1>3, <1>4, <3>2, <3>4, <3>5
  <2>5. CASE u # pub[p].into
    <3>1. Holders(u)' = Holders(u)
      BY <1>8, <2>2, <2>5 DEF Holders
    <3>2. put'[u] = put[u]
      BY <2>1, <2>3, <2>5, AppendOne
    <3>3. QED
      BY <1>2, <1>3, <1>5, <2>1, <3>1, <3>2 DEF QueueLen, Offered
  <2>6. QED
    BY <2>4, <2>5
<1>13. ASSUME NEW s \in Sockets, ReplayEvent(s)
       PROVE  Load(u)' <= QueueSize + N
  <2>1. UNCHANGED <<taken, pub>> /\ conn[s] = "putting" /\ conn' = [conn EXCEPT ![s] = "replaying"]
    BY <1>13 DEF ReplayEvent, Move
  <2>2. Holders(u)' = Holders(u)
    BY <2>1 DEF Holders
  <2>3. next[s] \in Events /\ Enqueue(s, next[s])
    <3>1. next[s] \in 0..MaxEvents + 1 /\ start[s] \in 0..MaxEvents /\ next[s] <= start[s] /\ next[s] # 0
      BY <2>1 DEF SocketsOK, Unreplayed, Replaying
    <3>2. QED
      BY <1>13, <3>1, HubAssumption DEF ReplayEvent, Events
  <2>4. CASE u = s
    <3>1. Len(put'[u]) = Len(put[u]) + 1 /\ Len(put[u]) \in Nat /\ taken[u] \in Nat
      BY <2>3, <2>4, AppendOne DEF QueuesOK
    <3>2. QueueLen(u)' = QueueLen(u) + 1
      BY <2>1, <3>1 DEF QueueLen
    <3>3. Offered(u) = 1 /\ Offered(u)' = 0
      BY <1>7, <2>1, <2>4 DEF Offered
    <3>4. QED
      BY <1>1, <1>2, <1>4, <2>2, <3>2, <3>3
  <2>5. CASE u # s
    <3>1. put'[u] = put[u] /\ conn'[u] = conn[u]
      BY <1>7, <2>1, <2>3, <2>5, AppendOne
    <3>2. QED
      BY <1>2, <1>3, <1>5, <2>1, <2>2, <3>1 DEF QueueLen, Offered
  <2>6. QED
    BY <2>4, <2>5
<1>14. ASSUME NEW s \in Sockets, RetestRoom(s)
       PROVE  Load(u)' <= QueueSize + N
  <2>1. UNCHANGED <<put, taken, pub>> /\ QueueLen(s) < QueueSize /\ conn' = [conn EXCEPT ![s] = "putting"]
    BY <1>14 DEF RetestRoom, Move
  <2>2. CASE u = s
    BY <1>6, <2>1, <2>2 DEF QueueLen
  <2>3. CASE u # s
    <3>1. conn'[u] = conn[u] /\ Holders(u)' = Holders(u)
      BY <1>7, <2>1, <2>3 DEF Holders
    <3>2. QED
      BY <1>2, <1>3, <1>5, <2>1, <3>1 DEF QueueLen, Offered
  <2>4. QED
    BY <2>2, <2>3
<1>15. ASSUME NEW s \in Sockets,
              \/ TakeLock(s) \/ Register(s) \/ StartReplay(s) \/ FetchEvent(s) \/ FindRoom(s) \/ EndReplay(s)
              \/ ReplayBroken(s) \/ ReplayRefused(s) \/ Disconnect(s) \/ Unsubscribe(s)
       PROVE  Load(u)' <= QueueSize + N
  <2>1. /\ UNCHANGED <<put, taken, pub>>
        /\ \E to \in ConnStates \ {"putting"} : conn' = [conn EXCEPT ![s] = to]
    BY <1>15 DEF TakeLock, Register, StartReplay, FetchEvent, FindRoom, EndReplay, ReplayBroken, ReplayRefused,
       Disconnect, Unsubscribe, Move, ConnStates
  <2>2. Holders(u)' = Holders(u)
    BY <2>1 DEF Holders
  <2>3. conn'[u] = conn[u] \/ conn'[u] # "putting"
    BY <1>7, <2>1
  <2>4. QED
    BY <1>2, <1>3, <1>5, <2>1, <2>2, <2>3 DEF QueueLen, Offered
<1>16. ASSUME NEW s \in Sockets, SendNext(s)
       PROVE  Load(u)' <= QueueSize + N
  <2>1. UNCHANGED <<conn, pub>>
    BY <1>16 DEF SendNext
  <2>2. Holders(u)' = Holders(u) /\ Offered(u)' = Offered(u)
    BY <2>1 DEF Holders, Offered
  <2>3. QueueLen(u)' <= QueueLen(u)
    BY <1>16, <1>2, SendsOne DEF QueueLen
  <2>4. QED
    BY <1>3, <1>5, <2>2, <2>3
<1>17. CASE UNCHANGED vars
  <2>1. Holders(u)' = Holders(u) /\ Offered(u)' = Offered(u) /\ QueueLen(u)' = QueueLen(u)
    BY <1>17 DEF vars, Holders, Offered, QueueLen
  <2>2. QED
    BY <1>2, <1>3, <1>5, <2>1
<1>18. QED
  BY <1>10, <1>11, <1>12, <1>13, <1>14, <1>15, <1>16, <1>17 DEF Next, PublisherStep, Subscribe


-----------------------------------------------------------------------------
(* How often an event is in a queue.                                       *)

Spots(s, e) == {i \in 1..Len(put[s]) : put[s][i] = e}

(* Times counts the finitely many places of an event in what was put.      *)
LEMMA TimesAreFinite ==
  ASSUME QueuesOK, NEW s \in Sockets, NEW e
  PROVE  IsFiniteSet(Spots(s, e)) /\ Times(s, e) = Cardinality(Spots(s, e)) /\ Times(s, e) \in Nat
<1>1. Len(put[s]) \in Nat
  BY DEF QueuesOK
<1>2. IsFiniteSet(1..Len(put[s]))
  BY <1>1, FS_Interval
<1>3. Spots(s, e) \subseteq 1..Len(put[s])
  BY DEF Spots
<1>4. IsFiniteSet(Spots(s, e))
  BY <1>2, <1>3, FS_Subset
<1>5. Times(s, e) = Cardinality(Spots(s, e))
  BY DEF Times, Spots
<1>6. QED
  BY <1>4, <1>5, FS_CardinalityType

(* What is not put into is counted as before.                              *)
LEMMA TimesStay == put' = put => \A s, e : Times(s, e)' = Times(s, e) /\ Put(s)' = Put(s)
  BY DEF Times, Put

(* A put is one more place of its event in its queue, and of nothing else. *)
LEMMA TimesGrow ==
  ASSUME QueuesOK, NEW s \in Sockets, NEW e \in Events, Enqueue(s, e), NEW u \in Sockets, NEW f
  PROVE  /\ Times(u, f)' = Times(u, f) + (IF u = s /\ f = e THEN 1 ELSE 0)
         /\ f \in Put(u) \/ (u = s /\ f = e) => f \in Put(u)'
<1>1. /\ Len(put[s]) \in Nat /\ Len(put'[s]) = Len(put[s]) + 1 /\ put'[s][Len(put[s]) + 1] = e
      /\ \A i \in 1..Len(put[s]) : put'[s][i] = put[s][i]
      /\ \A v \in Sockets \ {s} : put'[v] = put[v]
  BY AppendOne
<1>2. IsFiniteSet(Spots(u, f)) /\ Times(u, f) = Cardinality(Spots(u, f)) /\ Times(u, f) \in Nat
  BY TimesAreFinite
<1>3. Times(u, f)' = Cardinality(Spots(u, f)')
  BY DEF Times, Spots
<1>4. CASE u # s
  <2>1. put'[u] = put[u]
    BY <1>1, <1>4
  <2>2. Spots(u, f)' = Spots(u, f) /\ Put(u)' = Put(u)
    BY <2>1 DEF Spots, Put
  <2>3. QED
    BY <1>2, <1>3, <1>4, <2>2
<1>5. CASE u = s
  <2> DEFINE n == Len(put[s])
  <2>1. Spots(u, f)' = {i \in 1..n + 1 : put'[s][i] = f} /\ Spots(u, f) = {i \in 1..n : put[s][i] = f}
    BY <1>1, <1>5 DEF Spots
  <2>2. CASE f = e
    <3>1. Spots(u, f)' = Spots(u, f) \cup {n + 1} /\ n + 1 \notin Spots(u, f)
      BY <1>1, <2>1, <2>2
    <3>2. Cardinality(Spots(u, f)') = Cardinality(Spots(u, f)) + 1
      BY <1>2, <3>1, FS_AddElement
    <3>3. f \in Put(u)'
      <4>1. n + 1 \in 1..Len(put'[u]) /\ put'[u][n + 1] = f
        BY <1>1, <1>5, <2>2
      <4>2. QED
        BY <4>1 DEF Put
    <3>4. QED
      BY <1>2, <1>3, <1>5, <2>2, <3>2, <3>3
  <2>3. CASE f # e
    <3>1. Spots(u, f)' = Spots(u, f)
      BY <1>1, <2>1, <2>3
    <3>2. f \in Put(u) => f \in Put(u)'
      <4> SUFFICES ASSUME f \in Put(u) PROVE f \in Put(u)'
        OBVIOUS
      <4>1. PICK i \in 1..n : put[s][i] = f
        BY <1>5 DEF Put
      <4>2. i \in 1..Len(put'[u]) /\ put'[u][i] = f
        BY <1>1, <1>5, <4>1
      <4>3. QED
        BY <4>2 DEF Put
    <3>3. QED
      BY <1>2, <1>3, <2>3, <3>1, <3>2
  <2>4. QED
    BY <2>2, <2>3
<1>6. QED
  BY <1>4, <1>5

(* A step adds no event to those coming, but for the one published. *)
LEMMA ComingKinds ==
  ASSUME PublishersOK, SocketsOK, [Next]_vars
  PROVE  \/ /\ published' = published
            /\ \A s \in Sockets : \A e \in Events : Coming(s, e)' => Coming(s, e)
         \/ /\ \E p \in Publishers : AppendHistory(p)
            /\ published' = published + 1 /\ UNCHANGED <<put, next>>
            /\ \A s \in Sockets : \A e \in Events : Coming(s, e)' => Coming(s, e) \/ e = published + 1
<1>1. pub \in [Publishers -> Publications] /\ subscribers \subseteq Sockets
      /\ \A e \in Events : e # 0
  BY HubAssumption DEF PublishersOK, SocketsOK, Events
<1>2. ASSUME NEW p \in Publishers, AppendHistory(p)
      PROVE  /\ published' = published + 1 /\ UNCHANGED <<put, next>>
             /\ \A s \in Sockets : \A e \in Events : Coming(s, e)' => Coming(s, e) \/ e = published + 1
  <2> DEFINE r == [Idle EXCEPT !.at = "appended", !.event = published + 1]
  <2>1. pub' = [pub EXCEPT ![p] = r] /\ published' = published + 1 /\ UNCHANGED <<put, next>>
    BY <1>2 DEF AppendHistory
  <2>2. r.event = published + 1
    BY DEF Idle
  <2> HIDE DEF r
  <2>3. pub'[p].event = published + 1 /\ \A q \in Publishers \ {p} : pub'[q] = pub[q]
    BY <1>1, <2>1, <2>2
  <2>4. QED
    BY <2>1, <2>3 DEF Coming
<1>3. ASSUME NEW p \in Publishers, published' = published, \A q \in Publishers \ {p} : pub'[q] = pub[q],
             \/ pub'[p].event = 0
             \/ /\ pub'[p].event = pub[p].event /\ pub'[p].at # "appended"
                /\ \/ pub'[p].todo \cup {pub'[p].into} \subseteq pub[p].todo \cup {pub[p].into, NoOne}
                   \/ pub[p].at = "appended"
      PROVE  \A s \in Sockets : \A e \in Events : Coming(s, e)' => Coming(s, e)
  BY <1>1, <1>3, HubAssumption DEF Coming
<1>4. ASSUME NEW p \in Publishers,
             ListSubscribers(p) \/ DiscardDead(p) \/ PutEvent(p) \/ \E s \in Sockets : TestRoom(p, s)
      PROVE  /\ published' = published
             /\ \A s \in Sockets : \A e \in Events : Coming(s, e)' => Coming(s, e)
  <2>1. published' = published
    BY <1>4 DEF ListSubscribers, DiscardDead, TestRoom, PutEvent
  <2>2. CASE ListSubscribers(p)
    <3>1. /\ pub'[p].event = pub[p].event /\ pub'[p].at = "putting" /\ pub[p].at = "appended"
          /\ \A q \in Publishers \ {p} : pub'[q] = pub[q]
      BY <1>1, <2>2 DEF ListSubscribers, Publications
    <3>2. QED
      BY <1>3, <2>1, <3>1
  <2>3. CASE DiscardDead(p)
    <3>1. pub'[p].event = 0 /\ \A q \in Publishers \ {p} : pub'[q] = pub[q]
      BY <1>1, <2>3 DEF DiscardDead, Idle
    <3>2. QED
      BY <1>3, <2>1, <3>1
  <2>4. CASE \E s \in Sockets : TestRoom(p, s)
    <3>1. PICK s \in Sockets : TestRoom(p, s)
      BY <2>4
    <3>2. /\ pub'[p].event = pub[p].event /\ pub'[p].at = "putting" /\ pub'[p].todo = pub[p].todo \ {s}
          /\ pub'[p].into \in {s, pub[p].into} /\ s \in pub[p].todo
          /\ \A q \in Publishers \ {p} : pub'[q] = pub[q]
      BY <1>1, <3>1 DEF TestRoom, Turn, Publications
    <3>3. QED
      BY <1>3, <2>1, <3>2
  <2>5. CASE PutEvent(p)
    <3>1. pub[p].at = "putting"
      BY <2>5 DEF PutEvent, PublishersOK
    <3>2. /\ pub'[p].event = pub[p].event /\ pub'[p].at = "putting" /\ pub'[p].todo = pub[p].todo
          /\ pub'[p].into = NoOne
          /\ \A q \in Publishers \ {p} : pub'[q] = pub[q]
      BY <1>1, <2>5, <3>1 DEF PutEvent, Publications
    <3>3. QED
      BY <1>3, <2>1, <3>2
  <2>6. QED
    BY <1>4, <2>1, <2>2, <2>3, <2>4, <2>5
<1>5. ASSUME UNCHANGED <<published, pub>>
      PROVE  /\ published' = published
             /\ \A s \in Sockets : \A e \in Events : Coming(s, e)' => Coming(s, e)
  BY <1>5 DEF Coming
<1>6. ASSUME NEW s \in Sockets, TakeLock(s) \/ Subscribe(s) \/ SendNext(s) \/ Disconnect(s) \/ Unsubscribe(s)
      PROVE  UNCHANGED <<published, pub>>
  BY <1>6 DEF TakeLock, Subscribe, SendNext, Disconnect, Unsubscribe, Register, StartReplay, FetchEvent,
     FindRoom, RetestRoom, ReplayEvent, EndReplay, ReplayBroken, ReplayRefused
<1>7. CASE UNCHANGED vars
  BY <1>5, <1>7 DEF vars
<1>8. CASE \E p \in Publishers : AppendHistory(p)
  BY <1>2, <1>8
<1>9. QED
  BY <1>4, <1>5, <1>6, <1>7, <1>8 DEF Next, PublisherStep

(* A replay never goes back. *)
LEMMA NextGrows ==
  ASSUME SocketsOK, published \in 0..MaxEvents, [Next]_vars, NEW s \in Sockets
  PROVE  next'[s] >= next[s] /\ next'[s] \in Nat /\ next[s] \in Nat
<1>1. next \in [Sockets -> 0..MaxEvents + 1] /\ next' \in [Sockets -> 0..MaxEvents + 1]
  BY SocketsStep DEF SocketsOK
<1>2. ASSUME NEW u \in Sockets, StartReplay(u)
      PROVE  next'[s] >= next[s]
  <2>1. next[u] = 0 /\ next' = [next EXCEPT ![u] = Oldest]
    BY <1>2 DEF StartReplay, Move, SocketsOK, Unreplayed
  <2>2. QED
    BY <1>1, <2>1, HubAssumption, OldestInHistory
<1>3. ASSUME NEW u \in Sockets, ReplayEvent(u)
      PROVE  next'[s] >= next[s]
  BY <1>1, <1>3, HubAssumption DEF ReplayEvent
<1>4. CASE next' = next
  BY <1>1, <1>4, HubAssumption
<1>5. CASE \E u \in Sockets : TakeLock(u) \/ Register(u) \/ FetchEvent(u) \/ FindRoom(u) \/ RetestRoom(u)
                              \/ EndReplay(u) \/ ReplayBroken(u) \/ ReplayRefused(u) \/ SendNext(u) \/ Disconnect(u) \/ Unsubscribe(u)
  BY <1>4, <1>5 DEF TakeLock, Register, FetchEvent, FindRoom, RetestRoom, EndReplay, ReplayBroken, ReplayRefused,
     SendNext, Disconnect, Unsubscribe
<1>6. CASE \E p \in Publishers : PublisherStep(p)
  BY <1>4, <1>6, PublisherLeavesSockets
<1>7. next'[s] >= next[s]
  BY <1>2, <1>3, <1>4, <1>5, <1>6 DEF Next, Subscribe, vars
<1>8. QED
  BY <1>1, <1>7, HubAssumption


(* Whoever puts an event gives up the place that was held for it, or moves *)
(* the replay on.                                                          *)
LEMMA TimesStep ==
  ASSUME PublishersOK, SocketsOK, QueuesOK, TimesCounted, [Next]_vars
  PROVE  TimesCounted'
<1>1. /\ published \in Nat /\ published' \in {published, published + 1} /\ \A e \in Events : e \in Nat
      /\ \A s \in Sockets : next[s] \in Nat /\ next'[s] \in Nat /\ next'[s] >= next[s]
      /\ \A s \in Sockets : next[s] <= published + 1
  <2>1. published \in 0..MaxEvents /\ \A s \in Sockets : next[s] <= start[s] + 1 /\ start[s] <= published
        /\ start[s] \in 0..MaxEvents
    BY DEF PublishersOK, SocketsOK
  <2>2. \A s \in Sockets : next[s] \in Nat /\ next'[s] \in Nat /\ next'[s] >= next[s]
    BY <2>1, NextGrows
  <2>3. QED
    BY <2>1, <2>2, ComingKinds, HubAssumption DEF Events
<1>2. \A s \in Sockets : \A e \in Events :
        /\ Times(s, e) \in Nat
        /\ Times(s, e) + (IF Coming(s, e) THEN 1 ELSE 0) <= Places(s, e)
  BY TimesAreFinite DEF TimesCounted
<1>3. \A s \in Sockets : \A e \in Events : Places(s, e) \in Nat /\ Places(s, e)' \in Nat /\ Places(s, e)' >= Places(s, e)
  BY <1>1 DEF Places
<1>4. CASE put' = put /\ published' = published
  <2>1. \A s \in Sockets : \A e \in Events : Coming(s, e)' => Coming(s, e)
    BY <1>1, <1>4, ComingKinds
  <2>2. \A s \in Sockets : \A e \in Events : Times(s, e)' = Times(s, e)
    BY <1>4, TimesStay
  <2>3. QED
    BY <1>2, <1>3, <2>1, <2>2 DEF TimesCounted
<1>5. CASE published' = published + 1
  <2>1. /\ UNCHANGED <<put, next>>
        /\ \A s \in Sockets : \A e \in Events : Coming(s, e)' => Coming(s, e) \/ e = published + 1
    BY <1>1, <1>5, ComingKinds
  <2>2. ASSUME NEW s \in Sockets, NEW e \in Events
        PROVE  Times(s, e)' + (IF Coming(s, e)' THEN 1 ELSE 0) <= Places(s, e)'
    <3>1. Times(s, e)' = Times(s, e)
      BY <2>1, TimesStay
    <3>2. CASE e = published + 1
      <4>1. Places(s, e) = 0 /\ Places(s, e)' = 1
        BY <1>1, <1>5, <2>1, <3>2 DEF Places
      <4>2. QED
        BY <1>2, <3>1, <4>1
    <3>3. CASE e # published + 1
      BY <1>2, <1>3, <2>1, <3>1, <3>3
    <3>4. QED
      BY <3>2, <3>3
  <2>3. QED
    BY <2>2 DEF TimesCounted
<1>6. ASSUME NEW p \in Publishers, NEW s \in Sockets, PutEvent(p), s = pub[p].into,
             Enqueue(s, pub[p].event), pub[p].event \in Events
      PROVE  TimesCounted'
  <2>1. /\ published' = published /\ next' = next /\ pub[p].at = "putting"
    BY <1>6 DEF PutEvent, PublishersOK
  <2>2. \A u \in Sockets : \A e \in Events : Coming(u, e)' => Coming(u, e)
    BY <1>1, <2>1, ComingKinds
  <2>3. \A e \in Events : e = pub[p].event => Coming(s, e)
    BY <1>6, <2>1 DEF Coming
  <2>4. \A e \in Events : e = pub[p].event => ~Coming(s, e)'
    <3>1. pub' = [pub EXCEPT ![p].into = NoOne]
      BY <1>6 DEF PutEvent
    <3>2. /\ pub'[p].event = pub[p].event /\ pub'[p].at = "putting" /\ pub'[p].todo = pub[p].todo
          /\ pub'[p].into = NoOne /\ s \notin pub[p].todo
          /\ \A q \in Publishers \ {p} : pub'[q] = pub[q]
      BY <1>6, <2>1, <3>1 DEF PublishersOK, Publications
    <3>3. \A q \in Publishers \ {p} : pub[q].event # pub[p].event
      BY <1>6, HubAssumption DEF PublishersOK, Events
    <3>4. \A q \in Publishers : pub'[q].event = pub[p].event => q = p
      BY <3>2, <3>3
    <3>5. QED
      BY <3>2, <3>4, HubAssumption DEF Coming
  <2>5. ASSUME NEW u \in Sockets, NEW e \in Events
        PROVE  Times(u, e)' + (IF Coming(u, e)' THEN 1 ELSE 0) <= Places(u, e)'
    <3>1. Times(u, e)' = Times(u, e) + (IF u = s /\ e = pub[p].event THEN 1 ELSE 0)
      BY <1>6, TimesGrow
    <3>2. CASE u = s /\ e = pub[p].event
      <4>1. Coming(u, e) /\ ~Coming(u, e)'
        BY <2>3, <2>4, <3>2
      <4>2. QED
        BY <1>2, <1>3, <3>1, <3>2, <4>1
    <3>3. CASE ~(u = s /\ e = pub[p].event)
      BY <1>2, <1>3, <2>2, <3>1, <3>3
    <3>4. QED
      BY <3>2, <3>3
  <2>6. QED
    BY <2>5 DEF TimesCounted
<1>7. ASSUME NEW s \in Sockets, ReplayEvent(s), Enqueue(s, next[s]), next[s] \in Events
      PROVE  TimesCounted'
  <2>1. published' = published /\ next' = [next EXCEPT ![s] = @ + 1] /\ next'[s] = next[s] + 1
    BY <1>7 DEF ReplayEvent, SocketsOK
  <2>2. \A u \in Sockets : \A e \in Events : Coming(u, e)' => Coming(u, e)
    BY <1>1, <2>1, ComingKinds
  <2>3. ASSUME NEW u \in Sockets, NEW e \in Events
        PROVE  Times(u, e)' + (IF Coming(u, e)' THEN 1 ELSE 0) <= Places(u, e)'
    <3>1. Times(u, e)' = Times(u, e) + (IF u = s /\ e = next[s] THEN 1 ELSE 0)
      BY <1>7, TimesGrow
    <3>2. CASE u = s /\ e = next[s]
      <4>1. Places(u, e)' = Places(u, e) + 1
        BY <1>1, <2>1, <3>2 DEF Places
      <4>2. QED
        BY <1>2, <1>3, <2>2, <3>1, <3>2, <4>1
    <3>3. CASE ~(u = s /\ e = next[s])
      BY <1>2, <1>3, <2>2, <3>1, <3>3
    <3>4. QED
      BY <3>2, <3>3
  <2>4. QED
    BY <2>3 DEF TimesCounted
<1>8. QED
  BY <1>1, <1>4, <1>5, <1>6, <1>7, PutKinds

-----------------------------------------------------------------------------
(* What a socket is owed.                                                  *)

(* What is on its way stays so, is in the queue, or the socket is no       *)
(* longer subscribed.                                                      *)
LEMMA UnderwayStep ==
  ASSUME PublishersOK, SocketsOK, QueuesOK, [Next]_vars,
         NEW s \in Sockets, s \in subscribers, NEW e \in Events, Underway(s, e)
  PROVE  Underway(s, e)' \/ e \in Put(s)' \/ s \notin subscribers'
<1>1. pub \in [Publishers -> Publications] /\ e # 0
  BY HubAssumption DEF PublishersOK, Events
<1>2. PICK p \in Publishers : /\ pub[p].event = e
                              /\ pub[p].at = "appended" \/ s \in pub[p].todo \cup pub[p].dead \cup {pub[p].into}
  BY DEF Underway
<1>3. pub[p].at # "idle" /\ s # NoOne
  BY <1>1, <1>2, HubAssumption DEF PublishersOK
<1>4. CASE pub'[p] = pub[p]
  BY <1>2, <1>4 DEF Underway
<1>5. ASSUME NEW q \in Publishers \ {p}, PublisherStep(q)
      PROVE  pub'[p] = pub[p]
  BY <1>1, <1>5 DEF PublisherStep, AppendHistory, ListSubscribers, TestRoom, PutEvent, DiscardDead
<1>6. CASE ListSubscribers(p)
  <2>1. pub'[p].event = e /\ s \in pub'[p].todo
    BY <1>1, <1>2, <1>6 DEF ListSubscribers, Publications
  <2>2. QED
    BY <2>1 DEF Underway
<1>7. ASSUME NEW u \in Sockets, TestRoom(p, u)
      PROVE  Underway(s, e)'
  <2>1. s \in pub[p].todo \cup pub[p].dead /\ u \in pub[p].todo
    BY <1>2, <1>3, <1>7 DEF TestRoom, Turn
  <2>2. CASE pub' = [pub EXCEPT ![p].todo = @ \ {u}, ![p].into = u]
    <3>1. pub'[p].event = e /\ pub'[p].todo = pub[p].todo \ {u} /\ pub'[p].dead = pub[p].dead /\ pub'[p].into = u
      BY <1>1, <1>2, <2>2 DEF Publications
    <3>2. QED
      BY <2>1, <3>1 DEF Underway
  <2>3. CASE pub' = [pub EXCEPT ![p].todo = @ \ {u}, ![p].dead = @ \cup {u}]
    <3>1. pub'[p].event = e /\ pub'[p].todo = pub[p].todo \ {u} /\ pub'[p].dead = pub[p].dead \cup {u}
      BY <1>1, <1>2, <2>3 DEF Publications
    <3>2. QED
      BY <2>1, <3>1 DEF Underway
  <2>4. QED
    BY <1>7, <2>2, <2>3 DEF TestRoom
<1>7a. ASSUME PutEvent(p)
       PROVE  Underway(s, e)' \/ e \in Put(s)'
  <2>1. pub[p].into \in Sockets /\ pub[p].at = "putting" /\ Enqueue(pub[p].into, e)
    BY <1>1, <1>2, <1>7a DEF PutEvent, PublishersOK, Publications
  <2>2. pub'[p].event = e /\ pub'[p].todo = pub[p].todo /\ pub'[p].dead = pub[p].dead
    BY <1>1, <1>2, <1>7a DEF PutEvent, Publications
  <2>3. CASE s = pub[p].into
    BY <2>1, <2>3, TimesGrow
  <2>4. CASE s # pub[p].into
    BY <1>2, <2>1, <2>2, <2>4 DEF Underway
  <2>5. QED
    BY <2>3, <2>4
<1>8. CASE DiscardDead(p)
  BY <1>2, <1>3, <1>8 DEF DiscardDead
<1>9. ~AppendHistory(p)
  BY <1>3 DEF AppendHistory
<1>10. ASSUME NEW u \in Sockets, TakeLock(u) \/ Subscribe(u) \/ SendNext(u) \/ Disconnect(u) \/ Unsubscribe(u)
       PROVE  pub'[p] = pub[p]
  BY <1>10 DEF TakeLock, Subscribe, SendNext, Disconnect, Unsubscribe, Register, StartReplay, FetchEvent,
     FindRoom, RetestRoom, ReplayEvent, EndReplay, ReplayBroken, ReplayRefused
<1>11. QED
  BY <1>4, <1>5, <1>6, <1>7, <1>7a, <1>8, <1>9, <1>10 DEF Next, PublisherStep, vars

(* What was put for a socket stays put.                                    *)
LEMMA PutStays ==
  ASSUME PublishersOK, SocketsOK, QueuesOK, [Next]_vars, NEW s \in Sockets, NEW e \in Put(s)
  PROVE  e \in Put(s)'
<1>1. CASE put' = put
  BY <1>1, TimesStay
<1>2. CASE put' # put
  BY <1>2, PutKinds, TimesGrow
<1>3. QED
  BY <1>1, <1>2

(* A socket is owed more only by the event just published, which is on its *)
(* way, and by the one its replay has just put.                            *)
LEMMA DueStep ==
  ASSUME PublishersOK, SocketsOK, QueuesOK, [Next]_vars,
         NEW s \in Sockets, NEW e \in Events, Due(s, e)'
  PROVE  Due(s, e) \/ Underway(s, e)' \/ e \in Put(s)'
<1>1. /\ published \in Nat /\ e \in Nat /\ start[s] \in Nat /\ next[s] \in Nat /\ start[s] <= published
      /\ conn \in [Sockets -> ConnStates] /\ HistorySize \in Nat
      /\ start \in [Sockets -> 0..MaxEvents] /\ next \in [Sockets -> 0..MaxEvents + 1]
      /\ conn[s] \in {"away", "locked", "closed"} => s \notin subscribers
      /\ pub \in [Publishers -> Publications]
  BY HubAssumption DEF PublishersOK, SocketsOK, Events
<1>2. ASSUME NEW p \in Publishers, AppendHistory(p)
      PROVE  Due(s, e) \/ Underway(s, e)'
  <2>1. UNCHANGED <<subscribers, conn, start, next>> /\ published' = published + 1
    BY <1>2 DEF AppendHistory
  <2>2. CASE e = published + 1
    <3>1. pub' = [pub EXCEPT ![p] = [Idle EXCEPT !.at = "appended", !.event = published + 1]]
      BY <1>2 DEF AppendHistory
    <3>2. pub'[p].event = e /\ pub'[p].at = "appended"
      BY <1>1, <2>2, <3>1 DEF Idle
    <3>3. QED
      BY <3>2 DEF Underway
  <2>3. CASE e # published + 1
    BY <1>1, <2>1, <2>3 DEF Due
  <2>4. QED
    BY <2>2, <2>3
<1>3. ASSUME subscribers' \subseteq subscribers, UNCHANGED <<published, start, next>>,
             conn'[s] = conn[s] \/ conn[s] \in Replaying \cup {"replaying", "open"}
      PROVE  Due(s, e)
  BY <1>3 DEF Due
<1>4. ASSUME NEW p \in Publishers, PublisherStep(p)
      PROVE  Due(s, e) \/ Underway(s, e)'
  <2>1. CASE AppendHistory(p)
    BY <1>2, <2>1
  <2>2. CASE ~AppendHistory(p)
    <3>1. published' = published
      BY <1>4, <2>2 DEF PublisherStep, ListSubscribers, TestRoom, PutEvent, DiscardDead
    <3>2. QED
      BY <1>3, <1>4, <3>1, PublisherLeavesSockets
  <2>3. QED
    BY <2>1, <2>2
<1>5. ASSUME NEW u \in Sockets, TakeLock(u) \/ Register(u)
      PROVE  Due(s, e)
  <2>1. CASE u = s
    <3>1. conn'[s] \in {"locked", "registered"}
      BY <1>1, <1>5, <2>1 DEF TakeLock, Register, Move
    <3>2. QED
      BY <3>1 DEF Due, Replaying
  <2>2. CASE u # s
    <3>1. conn'[s] = conn[s] /\ UNCHANGED <<published, start, next>> /\ (s \in subscribers' => s \in subscribers)
      BY <1>1, <1>5, <2>2 DEF TakeLock, Register, Move
    <3>2. QED
      BY <3>1 DEF Due
  <2>3. QED
    BY <2>1, <2>2
<1>6. ASSUME NEW u \in Sockets, StartReplay(u)
      PROVE  Due(s, e)
  <2>1. /\ UNCHANGED <<published, subscribers>> /\ conn[u] = "registered" /\ conn' = [conn EXCEPT ![u] = "replaying"]
        /\ start' = [start EXCEPT ![u] = published] /\ next' = [next EXCEPT ![u] = Oldest]
    BY <1>6 DEF StartReplay, Move
  <2>2. CASE u = s
    <3>1. start'[s] = published /\ next'[s] = Oldest
      BY <1>1, <2>1, <2>2
    <3>2. Oldest \in Nat /\ (Oldest <= published - HistorySize + 1 \/ Oldest = 1)
      BY <1>1, OldestInHistory DEF PublishersOK
    <3>3. e > 0
      BY HubAssumption DEF Events
    <3>4. ~(e > published - HistorySize /\ (e < Oldest \/ e > published) /\ e <= published)
      BY <1>1, <3>2, <3>3
    <3>5. QED
      BY <2>1, <3>1, <3>4 DEF Due
  <2>3. CASE u # s
    BY <1>1, <2>1, <2>3 DEF Due
  <2>4. QED
    BY <2>2, <2>3
<1>7. ASSUME NEW u \in Sockets, ReplayEvent(u)
      PROVE  Due(s, e) \/ e \in Put(s)'
  <2>1. /\ UNCHANGED <<published, subscribers, start>> /\ conn[u] = "putting" /\ conn' = [conn EXCEPT ![u] = "replaying"]
        /\ next' = [next EXCEPT ![u] = @ + 1] /\ Enqueue(u, next[u])
    BY <1>7 DEF ReplayEvent, Move
  <2>2. CASE u = s
    <3>1. CASE e = next[s]
      BY <2>1, <2>2, <3>1, TimesGrow
    <3>2. CASE e # next[s]
      BY <1>1, <2>1, <2>2, <3>2 DEF Due, Replaying
    <3>3. QED
      BY <3>1, <3>2
  <2>3. CASE u # s
    BY <1>1, <2>1, <2>3 DEF Due
  <2>4. QED
    BY <2>2, <2>3
<1>8. ASSUME NEW u \in Sockets,
             \/ FetchEvent(u) \/ FindRoom(u) \/ RetestRoom(u) \/ EndReplay(u) \/ ReplayBroken(u)
             \/ ReplayRefused(u) \/ SendNext(u) \/ Disconnect(u) \/ Unsubscribe(u)
      PROVE  Due(s, e)
  <2>1. /\ subscribers' \subseteq subscribers /\ UNCHANGED <<published, start, next>>
        /\ conn' = conn \/ conn[u] \in Replaying \cup {"replaying", "open"} \/ conn'[u] = "closed"
        /\ \A v \in Sockets \ {u} : conn'[v] = conn[v]
    BY <1>1, <1>8 DEF FetchEvent, FindRoom, RetestRoom, EndReplay, ReplayBroken, ReplayRefused, SendNext,
       Disconnect, Unsubscribe, Move, Replaying
  <2>2. CASE u = s /\ conn'[u] = "closed"
    BY <2>2 DEF Due, Replaying
  <2>3. CASE u # s \/ conn'[u] # "closed"
    BY <1>3, <2>1, <2>3
  <2>4. QED
    BY <2>2, <2>3
<1>9. CASE UNCHANGED vars
  BY <1>3, <1>9 DEF vars
<1>10. QED
  BY <1>4, <1>5, <1>6, <1>7, <1>8, <1>9 DEF Next, Subscribe

(* No step loses an event that a subscribed socket is due.                 *)
LEMMA KeptStep ==
  ASSUME PublishersOK, SocketsOK, QueuesOK, AllKept, [Next]_vars
  PROVE  AllKept'
<1> SUFFICES ASSUME NEW s \in Sockets, NEW e \in Events, Due(s, e)'
             PROVE  e \in Put(s)' \/ Underway(s, e)'
  BY DEF AllKept
<1>1. CASE Due(s, e)
  <2>1. e \in Put(s) \/ Underway(s, e)
    BY <1>1 DEF AllKept
  <2>2. s \in subscribers /\ s \in subscribers'
    BY <1>1 DEF Due
  <2>3. QED
    BY <2>1, <2>2, PutStays, UnderwayStep
<1>2. CASE ~Due(s, e)
  BY <1>2, DueStep
<1>3. QED
  BY <1>1, <1>2


-----------------------------------------------------------------------------
(* The theorems.                                                           *)

(* An empty hub satisfies the invariant.                                   *)
LEMMA InitEstablishes == Init => IInv
<1> SUFFICES ASSUME Init PROVE IInv
  OBVIOUS
<1>1. MaxEvents \in Nat /\ QueueSize \in Nat
  BY HubAssumption
<1>2. PublishersOK
  <2>1. Idle \in Publications /\ Idle.at = "idle" /\ Idle.event = 0 /\ Idle.todo = {} /\ Idle.dead = {} /\ Idle.into = NoOne
    BY <1>1 DEF Idle, Publications
  <2>2. QED
    BY <1>1, <2>1, HubAssumption DEF Init, PublishersOK
<1>3. SocketsOK
  BY <1>1 DEF Init, SocketsOK, ConnStates, Unreplayed, Replaying
<1>4. QueuesOK
  <2>1. put \in [Sockets -> Seq(Events)] /\ \A s \in Sockets : put[s] = <<>> /\ Len(put[s]) = 0
    BY DEF Init
  <2>2. QED
    BY <1>1, <2>1 DEF Init, QueuesOK
<1>4a. LoadsBounded
  <2>1. \A s \in Sockets : QueueLen(s) = 0 /\ Offered(s) = 0 /\ Holders(s) = {}
    <3> SUFFICES ASSUME NEW s \in Sockets
                 PROVE  QueueLen(s) = 0 /\ Offered(s) = 0 /\ Holders(s) = {}
      OBVIOUS
    <3>1. put[s] = <<>> /\ taken[s] = 0 /\ conn[s] = "away" /\ \A p \in Publishers : pub[p] = Idle
      BY DEF Init
    <3>2. Idle.into = NoOne /\ s # NoOne
      BY HubAssumption DEF Idle
    <3>3. Len(put[s]) = 0
      BY <3>1
    <3>4. QueueLen(s) = 0 /\ Offered(s) = 0
      BY <3>1, <3>3 DEF QueueLen, Offered
    <3>5. Holders(s) = {}
      BY <3>1, <3>2 DEF Holders
    <3>6. QED
      BY <3>4, <3>5
  <2>2. Cardinality({}) = 0 /\ Cardinality(Publishers) \in Nat
    BY HubAssumption, FS_EmptySet, FS_CardinalityType
  <2>3. \A s \in Sockets : Load(s) = 0
    BY <2>1, <2>2 DEF Load
  <2>4. QED
    BY <1>1, <2>2, <2>3 DEF LoadsBounded
<1>5. TimesCounted
  <2> SUFFICES ASSUME NEW s \in Sockets, NEW e \in Events
               PROVE  Times(s, e) + (IF Coming(s, e) THEN 1 ELSE 0) <= Places(s, e)
    BY DEF TimesCounted
  <2>1. Times(s, e) = 0
    <3>1. {i \in 1..Len(put[s]) : put[s][i] = e} = {}
      BY DEF Init
    <3>2. QED
      BY <3>1, FS_EmptySet DEF Times
  <2>2. ~Coming(s, e)
    BY HubAssumption DEF Init, Coming, Idle, Events
  <2>3. Places(s, e) \in {0, 1, 2}
    BY DEF Places
  <2>4. QED
    BY <2>1, <2>2, <2>3
<1>6. AllKept
  BY DEF Init, AllKept, Due
<1>7. QED
  BY <1>2, <1>3, <1>4, <1>4a, <1>5, <1>6 DEF IInv

(* The invariant holds in every state of the hub: neither publications     *)
(* without the lock, nor full queues, nor a replay broken off lead out of  *)
(* it.                                                                     *)
THEOREM Invariance == Spec => []IInv
<1>1. IInv /\ [Next]_vars => IInv'
  <2> SUFFICES ASSUME IInv, [Next]_vars PROVE IInv'
    OBVIOUS
  <2>1. PublishersOK /\ SocketsOK /\ QueuesOK /\ LoadsBounded /\ TimesCounted /\ AllKept
    BY DEF IInv
  <2>2. subscribers \subseteq Sockets /\ published \in 0..MaxEvents
    BY <2>1 DEF PublishersOK, SocketsOK
  <2>3. PublishersOK' /\ SocketsOK'
    BY <2>1, <2>2, PublishersStep, SocketsStep
  <2>4. QueuesOK' /\ LoadsBounded' /\ TimesCounted' /\ AllKept'
    BY <2>1, QueuesStep, LoadsStep, TimesStep, KeptStep
  <2>5. QED
    BY <2>3, <2>4 DEF IInv
<1>2. QED
  BY <1>1, InitEstablishes, PTL DEF Spec

(* TypeOK: what is sent to a socket was put in its queue before.           *)
THEOREM TypeCorrect == Spec => []TypeOK
<1>1. IInv => TypeOK
  BY DEF IInv, PublishersOK, SocketsOK, QueuesOK, TypeOK, Publications
<1>2. QED
  BY <1>1, Invariance, PTL

(* OverrunBounded: put_nowait tests and puts without a lock, and so a      *)
(* queue may exceed its maxsize, but never by more than the number of      *)
(* threads that publish: those who had found room before it was full.      *)
THEOREM OverrunIsBounded == Spec => []OverrunBounded
<1>1. IInv => OverrunBounded
  <2> SUFFICES ASSUME IInv, NEW s \in Sockets
               PROVE  QueueLen(s) <= QueueSize + Cardinality(Publishers)
    BY DEF OverrunBounded
  <2>1. Holders(s) \in SUBSET Publishers
    BY DEF Holders
  <2>2. Cardinality(Holders(s)) \in Nat /\ Cardinality(Publishers) \in Nat /\ QueueSize \in Nat
    BY <2>1, CountedPublishers, HubAssumption
  <2>3. QueueLen(s) \in Nat /\ Offered(s) \in {0, 1}
    BY LengthIsNat DEF IInv, Offered
  <2>4. QueueLen(s) + Cardinality(Holders(s)) + Offered(s) <= QueueSize + Cardinality(Publishers)
    BY DEF IInv, LoadsBounded, Load
  <2>5. QED
    BY <2>2, <2>3, <2>4
<1>2. QED
  BY <1>1, Invariance, PTL

(* ClosedIsGone: unsubscribe leaves nothing of a closed socket in the hub, *)
(* whatever publish_sync does with the list it took before.                *)
THEOREM ClosedSocketsAreGone == Spec => []ClosedIsGone
<1>1. IInv => ClosedIsGone
  BY DEF IInv, SocketsOK, ClosedIsGone
<1>2. QED
  BY <1>1, Invariance, PTL

(* NothingMissed: an open socket that was not discarded has, or is about   *)
(* to have, every event since the beginning of the history it was given,   *)
(* although publish_sync takes no lock.                                    *)
THEOREM NothingIsMissed == Spec => []NothingMissed
<1>1. IInv => NothingMissed
  <2> SUFFICES ASSUME IInv, NEW s \in Sockets, conn[s] = "open", s \in subscribers,
                      NEW e \in Events, e <= published, e > start[s] - HistorySize
               PROVE  e \in Put(s) \/ Underway(s, e)
    BY DEF NothingMissed
  <2>1. /\ e \in Nat /\ start[s] \in Nat /\ next[s] \in Nat /\ next[s] > start[s]
    BY HubAssumption DEF IInv, SocketsOK, Events
  <2>2. Due(s, e)
    BY <2>1 DEF Due
  <2>3. QED
    BY <2>2 DEF IInv, AllKept
<1>2. QED
  BY <1>1, Invariance, PTL

(* TwiceOnlyAcrossReplay: what a socket gets twice was replayed to it and  *)
(* put there by its publisher as well, and is never put a third time.      *)
THEOREM TwiceIsAcrossReplay == Spec => []TwiceOnlyAcrossReplay
<1>1. IInv => TwiceOnlyAcrossReplay
  <2> SUFFICES ASSUME IInv, NEW s \in Sockets, NEW e \in Events
               PROVE  Times(s, e) <= 2 /\ (Times(s, e) = 2 => e <= start[s])
    BY DEF TwiceOnlyAcrossReplay
  <2>1. Times(s, e) \in Nat /\ Times(s, e) <= Places(s, e)
    <3>1. Times(s, e) \in Nat
      BY TimesAreFinite DEF IInv
    <3>2. Times(s, e) + (IF Coming(s, e) THEN 1 ELSE 0) <= Places(s, e) /\ Places(s, e) \in {0, 1, 2}
      BY DEF IInv, TimesCounted, Places
    <3>3. QED
      BY <3>1, <3>2
  <2>2. /\ e \in Nat /\ start[s] \in Nat /\ next[s] \in Nat /\ next[s] <= start[s] + 1
    BY HubAssumption DEF IInv, SocketsOK, Events
  <2>3. QED
    BY <2>1, <2>2 DEF Places
<1>2. QED
  BY <1>1, Invariance, PTL

=============================================================================
