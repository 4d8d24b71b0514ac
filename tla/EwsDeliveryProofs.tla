-------------------------- MODULE EwsDeliveryProofs --------------------------
(* The safety of EwsDelivery for every number of workers and API threads,  *)
(* every ladder of profiles, every configuration and every sequence of     *)
(* disturbances, and its refinement of DriverCall.                         *)
EXTENDS EwsDelivery, TLAPS

-----------------------------------------------------------------------------
(* The inductive invariant.                                                *)

(* Where a call can be: only a second try renews, and a profile on its way *)
(* to the cache or the adapter is one of the ladder.                       *)
Shape ==
    /\ \A t \in Threads : pc[t] \in {"store", "apply"} => prof[t] \in Profiles
    /\ \A w \in Workers :
        /\ stage[w] \in {"build", "forced"}
        /\ pc[w] = "renew" => again[w]
        /\ pc[w] = "idle" => ~again[w]
        /\ pc[w] # "replace"

(* CopiesExplained by tries: at each server one that may be repeated, and  *)
(* one that may not.                                                       *)
TriesCounted ==
    \A w \in Workers :
        /\ copies[w] = ambiguous[w] + (IF pc[w] = "ok" THEN 1 ELSE 0)
        /\ ambiguous[w] <= (IF at[w] = "primary" THEN 0 ELSE 2)
                            + (IF again[w] THEN 1 ELSE 0)
                            + (IF pc[w] = "raised" THEN 1 ELSE 0)

(* A setting that was made for a server, and for a trust other than the    *)
(* first one's only after a save.                                          *)
MadeFor(x, s) ==
    /\ x.server = s
    /\ x.trust # Trusted[s] => "save" \in happened

(* OwnAdapter through its whole way: what a thread installed and did not   *)
(* see replaced, and the sessions that were opened under it.               *)
Own(t) ==
    /\ pc[t] # "idle" /\ cfg[t] # Trusted => "save" \in happened
    /\ pc[t] \in {"account", "send"} /\ adapter.by = t
        => adapter.server = at[t] /\ adapter.trust = Trust(t)

OwnKept ==
    /\ trust # Trusted => "save" \in happened
    /\ \A t \in Threads : Own(t)
    /\ \A s \in Servers : pool[s].by # "none" => MadeFor(pool[s], s)

(* SecondTryIsFresh likewise: between the renewal and the account, the     *)
(* cache of the thread's key holds what was found or in hand since, or     *)
(* nothing, and so does whoever is about to store under that key.          *)
Repeating(w) == again[w] /\ pc[w] \in {"lookup", "probe", "store", "apply", "account"}
Renewed(w) == renewed[w] \cup {NoProfile}

HandsFresh(w) == \A t \in Threads : pc[t] = "store" /\ SameKey(t, w) => prof[t] \in renewed[w]

Fresh(w) ==
    /\ Repeating(w) =>
        /\ Cached(memory, w) \in Renewed(w)
        /\ Cached(file, w) \in Renewed(w)
        /\ HandsFresh(w)
    /\ again[w] /\ pc[w] = "apply" => prof[w] \in renewed[w]
    /\ again[w] /\ pc[w] = "account" /\ adapter.by = w => adapter.profile \in renewed[w]

FreshKept == \A w \in Workers : Fresh(w)

IInv ==
    /\ TypeOK
    /\ Shape
    /\ TriesCounted
    /\ OwnKept
    /\ FreshKept

-----------------------------------------------------------------------------
(* Types.                                                                  *)

(* The thread that prepares TLS at start is not a worker.                  *)
LEMMA MainIsApi == Main \in Api
  BY EwsAssumption DEF Main

(* A rung of a ladder is a profile.                                        *)
LEMMA RungsAreProfiles ==
  ASSUME NEW s \in Servers
  PROVE  Rungs(s) \subseteq Profiles
  BY DEF Rungs, Profiles

(* An exception leaves a thread somewhere it can be.                       *)
LEMMA RaiseTypes ==
  ASSUME TypeOK, NEW t \in Threads, NEW tls \in BOOLEAN, Raise(t, tls)
  PROVE  /\ pc' \in [Threads -> PCs]
         /\ at' \in [Threads -> Servers]
         /\ stage' \in [Threads -> {"check", "save", "forced", "build", "boot"}]
         /\ again' \in [Threads -> BOOLEAN]
         /\ cfg' = cfg
         /\ prof' \in [Threads -> Profiles \cup {NoProfile}]
<1> USE DEF PCs
<1>1. /\ pc \in [Threads -> PCs] /\ at \in [Threads -> Servers]
      /\ stage \in [Threads -> {"check", "save", "forced", "build", "boot"}]
      /\ again \in [Threads -> BOOLEAN]
      /\ prof \in [Threads -> Profiles \cup {NoProfile}]
  BY DEF TypeOK
<1>2. /\ cfg' = cfg
      /\ prof' \in [Threads -> Profiles \cup {NoProfile}]
  BY <1>1 DEF Raise
<1>3. CASE TryAgain(t)
  BY <1>1, <1>2, <1>3 DEF TryAgain
<1>4. CASE HasFailover(t) /\ FailOver(t)
  BY <1>1, <1>2, <1>4 DEF HasFailover, FailOver
<1>5. CASE GiveUp(t)
  BY <1>1, <1>2, <1>5 DEF GiveUp
<1>6. QED
  BY <1>3, <1>4, <1>5 DEF Raise

(* Storing a profile and reading one back stay within the cache's type.    *)
LEMMA PutTypes ==
  ASSUME TypeOK, NEW t \in Threads, NEW p \in Profiles \cup {NoProfile}
  PROVE  /\ Put(memory, t, p) \in [Servers -> [Trusts -> Profiles \cup {NoProfile}]]
         /\ Put(file, t, p) \in [Servers -> [Trusts -> Profiles \cup {NoProfile}]]
         /\ Trust(t) \in Trusts /\ at[t] \in Servers
         /\ Cached(memory, t) \in Profiles \cup {NoProfile}
         /\ Cached(file, t) \in Profiles \cup {NoProfile}
<1>1. Trust(t) \in Trusts /\ at[t] \in Servers
  <2>1. cfg[t] \in [Servers -> Trusts] /\ at[t] \in Servers
    BY DEF TypeOK
  <2>2. QED
    BY <2>1 DEF Trust
<1>2. \A f \in [Servers -> [Trusts -> Profiles \cup {NoProfile}]] :
        /\ [f EXCEPT ![at[t]][Trust(t)] = p] \in [Servers -> [Trusts -> Profiles \cup {NoProfile}]]
        /\ f[at[t]][Trust(t)] \in Profiles \cup {NoProfile}
  BY <1>1
<1>3. QED
  BY <1>1, <1>2 DEF TypeOK, Put, Cached

(* A thread that is cleared is as at the start.                            *)
LEMMA ClearTypes ==
  ASSUME TypeOK, NEW t \in Threads, Clear(t)
  PROVE  /\ pc' \in [Threads -> PCs]
         /\ at' \in [Threads -> Servers]
         /\ stage' \in [Threads -> {"check", "save", "forced", "build", "boot"}]
         /\ again' \in [Threads -> BOOLEAN]
         /\ cfg' \in [Threads -> [Servers -> Trusts]]
         /\ prof' \in [Threads -> Profiles \cup {NoProfile}]
         /\ copies' \in [Workers -> Nat]
         /\ ambiguous' \in [Workers -> Nat]
         /\ renewed' \in [Workers -> SUBSET Profiles]
  BY EwsAssumption DEF TypeOK, Clear, Blank, PCs, NoTrust, Trusts

(* A call that begins keeps every variable in its type.                    *)
LEMMA BeginTypes ==
  ASSUME TypeOK, NEW t \in Threads, NEW st \in {"build", "check", "save"},
         NEW c \in [Servers -> Trusts],
         Begin(t, st, c), happened' \in UNION {SUBSET D : D \in Disturbances}
  PROVE  TypeOK'
  BY DEF TypeOK, Begin, PCs

(* The initial state has the types.                                        *)
LEMMA InitTypes == Init => TypeOK
<1> SUFFICES ASSUME Init PROVE TypeOK
  OBVIOUS
<1>1. Trusted \in [Servers -> Trusts] /\ Offered \in [Servers -> SUBSET Profiles]
  BY EwsAssumption
<1>2. NoTrust \in [Servers -> Trusts]
  BY DEF NoTrust, Trusts
<1>3. happened \in UNION {SUBSET D : D \in Disturbances}
  BY EwsAssumption DEF Init
<1>4. /\ memory \in [Servers -> [Trusts -> Profiles \cup {NoProfile}]]
      /\ file \in [Servers -> [Trusts -> Profiles \cup {NoProfile}]]
  BY DEF Init
<1>5. pool \in [Servers -> Setting \cup {NoSetting}]
  BY DEF Init
<1>6. /\ pc \in [Threads -> PCs] /\ at \in [Threads -> Servers]
      /\ stage \in [Threads -> {"check", "save", "forced", "build", "boot"}]
      /\ cfg \in [Threads -> [Servers -> Trusts]]
  BY EwsAssumption, <1>1, <1>2 DEF Init, PCs
<1>7. QED
  BY <1>1, <1>3, <1>4, <1>5, <1>6 DEF Init, TypeOK

(* What a probe found is a profile, not the marker for none.               *)
LEMMA ProbedIsProfile ==
  ASSUME TypeOK, Shape, NEW t \in Threads, pc[t] \in {"store", "apply"}
  PROVE  prof[t] \in Profiles
  BY DEF Shape

(* A disturbance that may happen keeps to one of the allowed sets.         *)
LEMMA SomeDisturbances ==
  /\ \A d : Allowed(d) => happened' \in UNION {SUBSET D : D \in Disturbances}
  /\ \A d : Once(d) => Allowed(d) /\ happened' = happened \cup {d}
  BY DEF Allowed, Once

(* A thread that has a profile goes on with the types kept.                *)
LEMMA NegotiatedTypes ==
  ASSUME TypeOK, NEW t \in Threads, NEW p \in Profiles, Negotiated(t, p)
  PROVE  /\ pc' \in [Threads -> PCs]
         /\ stage' \in [Threads -> {"check", "save", "forced", "build", "boot"}]
         /\ prof' \in [Threads -> Profiles \cup {NoProfile}]
         /\ UNCHANGED <<at, again, cfg>>
  BY DEF TypeOK, Negotiated, PCs

(* What a probe finds is also written down for every worker with the same  *)
(* key.                                                                    *)
LEMMA NotedTypes ==
  ASSUME TypeOK, NEW t \in Threads, NEW p \in Profiles
  PROVE  Noted(t, p) \in [Workers -> SUBSET Profiles]
  BY DEF TypeOK, Noted

(* What other threads have in hand are profiles. *)
LEMMA InHandTypes ==
  ASSUME Shape, NEW w \in Workers
  PROVE  InHand(w) \subseteq Profiles
  BY DEF Shape, InHand

(* A session keeps the adapter it was opened with, or an unnamed copy.     *)
LEMMA OpenedTypes ==
  ASSUME TypeOK, NEW t \in Threads
  PROVE  /\ Opened(t) \in Setting \cup {NoSetting}
         /\ Opened(t).by # "none" => Opened(t) = adapter /\ adapter.by = t
         /\ [pool EXCEPT ![at[t]] = Opened(t)] \in [Servers -> Setting \cup {NoSetting}]
<1>1. adapter \in Setting \cup {NoSetting} /\ at[t] \in Servers
  BY DEF TypeOK
<1>2. CASE adapter.by = t
  BY <1>1, <1>2 DEF Opened, TypeOK
<1>3. CASE adapter.by # t
  <2>1. Opened(t) = [adapter EXCEPT !.by = "none"]
    BY <1>3 DEF Opened
  <2>2. Opened(t) \in Setting \cup {NoSetting} /\ Opened(t).by = "none"
    BY <1>1, <2>1 DEF Setting, NoSetting
  <2>3. QED
    BY <1>1, <2>2 DEF TypeOK
<1>4. QED
  BY <1>2, <1>3

(* What a request may make of the sessions keeps their type.               *)
LEMMA ReopenTypes ==
  ASSUME TypeOK, NEW t \in Threads, MayReopen(t)
  PROVE  pool' \in [Servers -> Setting \cup {NoSetting}]
<1>1. pool \in [Servers -> Setting \cup {NoSetting}]
  BY DEF TypeOK
<1>2. [pool EXCEPT ![at[t]] = Opened(t)] \in [Servers -> Setting \cup {NoSetting}]
  BY OpenedTypes
<1>3. QED
  BY <1>1, <1>2 DEF MayReopen

(* No step breaks a type.                                                  *)
LEMMA TypeStep == TypeOK /\ Shape /\ [Next]_vars => TypeOK'
<1> SUFFICES ASSUME TypeOK, Shape, [Next]_vars PROVE TypeOK'
  OBVIOUS
<1> USE DEF threadVars
<1>1. ASSUME NEW w \in Workers, StartSend(w) PROVE TypeOK'
  <2>1. w \in Threads /\ trust \in [Servers -> Trusts]
        /\ happened' \in UNION {SUBSET D : D \in Disturbances}
    BY <1>1 DEF Threads, TypeOK, StartSend
  <2>2. QED
    BY <1>1, <2>1, BeginTypes DEF StartSend
<1>2. ASSUME NEW a \in Api, StartCheck(a) \/ StartSave(a) PROVE TypeOK'
  <2>1. a \in Threads /\ trust \in [Servers -> Trusts] /\ Configs \subseteq [Servers -> Trusts]
    BY EwsAssumption DEF Threads, TypeOK
  <2>2. happened' \in UNION {SUBSET D : D \in Disturbances}
    BY <1>2, SomeDisturbances DEF StartCheck, StartSave
  <2>3. QED
    BY <1>2, <2>1, <2>2, BeginTypes DEF StartCheck, StartSave
<1>3. ASSUME NEW t \in Threads, LookupHit(t) PROVE TypeOK'
  <2>1. PICK p \in Profiles : memory' = Put(memory, t, p) /\ Negotiated(t, p)
    BY <1>3, PutTypes DEF LookupHit
  <2>2. QED
    BY <1>3, <2>1, PutTypes, NegotiatedTypes DEF LookupHit, TypeOK
<1>4. ASSUME NEW t \in Threads, LookupMiss(t) PROVE TypeOK'
  BY <1>4 DEF LookupMiss, TypeOK, PCs
<1>5. ASSUME NEW t \in Threads, ProbeFinds(t) PROVE TypeOK'
  <2>1. PICK p \in Profiles : prof' = [prof EXCEPT ![t] = p] /\ renewed' = Noted(t, p)
    BY <1>5, RungsAreProfiles DEF ProbeFinds, TypeOK
  <2>2. renewed' \in [Workers -> SUBSET Profiles]
    BY <2>1, NotedTypes
  <2>3. QED
    BY <1>5, <2>1, <2>2 DEF ProbeFinds, TypeOK, PCs
<1>6. ASSUME NEW t \in Threads, ProbeFails(t) PROVE TypeOK'
  BY <1>6, RaiseTypes DEF ProbeFails, TypeOK
<1>7. ASSUME NEW t \in Threads, Store(t) PROVE TypeOK'
  <2>1. prof[t] \in Profiles
    BY <1>7, ProbedIsProfile DEF Store
  <2>2. QED
    BY <1>7, <2>1, PutTypes, NegotiatedTypes DEF Store, TypeOK
<1>8. ASSUME NEW t \in Threads, StoreFails(t) PROVE TypeOK'
  <2>1. prof[t] \in Profiles
    BY <1>8, ProbedIsProfile DEF StoreFails
  <2>2. happened' \in UNION {SUBSET D : D \in Disturbances}
    BY <1>8, SomeDisturbances DEF StoreFails
  <2>3. QED
    BY <1>8, <2>1, <2>2, PutTypes, RaiseTypes DEF StoreFails, TypeOK
<1>9. ASSUME NEW t \in Threads, Apply(t) PROVE TypeOK'
  <2>1. prof[t] \in Profiles
    BY <1>9, ProbedIsProfile DEF Apply
  <2>2. adapter' \in Setting
    BY <1>9, <2>1, PutTypes DEF Apply, Setting
  <2>3. QED
    BY <1>9, <2>2 DEF Apply, TypeOK, PCs
<1>10. ASSUME NEW w \in Workers, Renew(w) PROVE TypeOK'
  <2>1. w \in Threads
    BY DEF Threads
  <2>2. renewed' \in [Workers -> SUBSET Profiles]
    BY <1>10, InHandTypes DEF Renew, TypeOK
  <2>3. /\ memory' \in [Servers -> [Trusts -> Profiles \cup {NoProfile}]]
        /\ file' \in [Servers -> [Trusts -> Profiles \cup {NoProfile}]]
    BY <1>10, <2>1, PutTypes DEF Renew
  <2>4. QED
    BY <1>10, <2>1, <2>2, <2>3 DEF Renew, TypeOK, PCs
<1>11. ASSUME NEW w \in Workers, RenewFails(w) PROVE TypeOK'
  <2>1. w \in Threads
    BY DEF Threads
  <2>2. happened' \in UNION {SUBSET D : D \in Disturbances}
    BY <1>11, SomeDisturbances DEF RenewFails
  <2>3. QED
    BY <1>11, <2>1, <2>2, PutTypes, RaiseTypes DEF RenewFails, TypeOK
<1>12. ASSUME NEW t \in Threads, TakeAccount(t) PROVE TypeOK'
  <2>1. pool' \in [Servers -> Setting \cup {NoSetting}]
    <3>1. CASE pool[at[t]] = NoSetting
      BY <1>12, <3>1, OpenedTypes DEF TakeAccount
    <3>2. CASE pool[at[t]] # NoSetting
      BY <1>12, <3>2 DEF TakeAccount, TypeOK
    <3>3. QED
      BY <3>1, <3>2
  <2>2. QED
    BY <1>12, <2>1 DEF TakeAccount, TypeOK, PCs
<1>13. ASSUME NEW t \in Threads, PrepareRaises(t) PROVE TypeOK'
  <2>1. PICK tls \in BOOLEAN : Raise(t, tls)
    BY <1>13 DEF PrepareRaises
  <2>2. pool' \in [Servers -> Setting \cup {NoSetting}]
    BY <1>13, ReopenTypes DEF PrepareRaises, TypeOK
  <2>3. QED
    BY <1>13, <2>1, <2>2, RaiseTypes DEF PrepareRaises, TypeOK
<1>14. ASSUME NEW w \in Workers, SendOk(w) PROVE TypeOK'
  <2>1. copies' \in [Workers -> Nat]
    BY <1>14 DEF SendOk, TypeOK
  <2>2. pc' \in [Threads -> PCs]
    BY <1>14 DEF SendOk, TypeOK, PCs
  <2>3. pool' \in [Servers -> Setting \cup {NoSetting}]
    BY <1>14, ReopenTypes DEF SendOk, Threads
  <2>4. QED
    BY <1>14, <2>1, <2>2, <2>3 DEF SendOk, TypeOK
<1>15. ASSUME NEW w \in Workers, SendRaises(w) PROVE TypeOK'
  <2>1. PICK got \in 0..1, tls \in BOOLEAN :
            /\ copies' = [copies EXCEPT ![w] = @ + got]
            /\ ambiguous' = [ambiguous EXCEPT ![w] = @ + got]
            /\ Raise(w, tls)
    BY <1>15 DEF SendRaises
  <2>2. copies' \in [Workers -> Nat] /\ ambiguous' \in [Workers -> Nat] /\ w \in Threads
    BY <2>1 DEF TypeOK, Threads
  <2>3. pool' \in [Servers -> Setting \cup {NoSetting}]
    BY <1>15, <2>2, ReopenTypes DEF SendRaises
  <2>4. QED
    BY <1>15, <2>1, <2>2, <2>3, RaiseTypes DEF SendRaises, TypeOK
<1>16. ASSUME NEW a \in Api, ReadInbox(a) PROVE TypeOK'
  <2>1. pool' \in [Servers -> Setting \cup {NoSetting}]
    BY <1>16, ReopenTypes DEF ReadInbox, Threads
  <2>2. QED
    BY <1>16, <2>1 DEF ReadInbox, TypeOK, PCs
<1>17. ASSUME NEW t \in Threads, Return(t) PROVE TypeOK'
  BY <1>17, ClearTypes DEF Return, TypeOK
<1>18. ASSUME NEW a \in Api, Replace(a) PROVE TypeOK'
  <2>1. a \in Threads /\ cfg[a] \in [Servers -> Trusts]
    BY DEF Threads, TypeOK
  <2>2. QED
    BY <1>18, <2>1, ClearTypes DEF Replace, TypeOK
<1>19. CASE ServerChanges
  <2>1. offers' \in [Servers -> SUBSET Profiles]
    BY <1>19, EwsAssumption DEF ServerChanges
  <2>2. QED
    BY <1>19, <2>1, SomeDisturbances DEF ServerChanges, TypeOK
<1>20. CASE Restart
  <2>1. happened' \in UNION {SUBSET D : D \in Disturbances}
    BY <1>20, SomeDisturbances DEF Restart
  <2>2. NoTrust \in [Servers -> Trusts] /\ trust \in [Servers -> Trusts] /\ "primary" \in Servers
    BY EwsAssumption DEF NoTrust, Trusts, TypeOK
  <2>3. pool' \in [Servers -> Setting \cup {NoSetting}]
    BY <1>20 DEF Restart
  <2>4. /\ memory' \in [Servers -> [Trusts -> Profiles \cup {NoProfile}]]
        /\ adapter' \in Setting \cup {NoSetting}
    BY <1>20 DEF Restart
  <2>5. /\ pc' \in [Threads -> PCs] /\ at' \in [Threads -> Servers]
        /\ stage' \in [Threads -> {"check", "save", "forced", "build", "boot"}]
        /\ again' \in [Threads -> BOOLEAN]
        /\ cfg' \in [Threads -> [Servers -> Trusts]]
    BY <1>20, <2>2 DEF Restart, PCs
  <2>6. QED
    BY <1>20, <2>1, <2>3, <2>4, <2>5 DEF Restart, TypeOK
<1>21. CASE UNCHANGED vars
  BY <1>21 DEF vars, TypeOK
<1>22. QED
  BY <1>1, <1>2, <1>3, <1>4, <1>5, <1>6, <1>7, <1>8, <1>9, <1>10, <1>11, <1>12, <1>13,
     <1>14, <1>15, <1>16, <1>17, <1>18, <1>19, <1>20, <1>21
     DEF Next, WorkerStep, ApiStep, Negotiating, Threads

-----------------------------------------------------------------------------
(* Shape.                                                                  *)

(* What a raise leaves of the call it is raised in, for a worker: never a  *)
(* renewal of a second try, and at most one more failed call.              *)
LEMMA RaisedWorker ==
  ASSUME TypeOK, Shape, NEW w \in Workers, NEW tls \in BOOLEAN, Raise(w, tls)
  PROVE  /\ stage'[w] \in {"build", "forced"}
         /\ \/ pc'[w] = "renew" /\ again'[w] /\ ~again[w] /\ at'[w] = at[w]
            \/ pc'[w] = "lookup" /\ ~again'[w] /\ at[w] = "primary" /\ at'[w] = "failover"
            \/ pc'[w] = "raised" /\ again'[w] = again[w] /\ at'[w] = at[w]
<1>1. w \in Threads
  BY DEF Threads
<1>2. CASE LooksTls(w, tls) /\ TryAgain(w)
  BY <1>1, <1>2 DEF LooksTls, TryAgain, TypeOK
<1>3. CASE HasFailover(w) /\ FailOver(w)
  BY <1>1, <1>3 DEF HasFailover, FailOver, TypeOK
<1>4. CASE GiveUp(w)
  BY <1>1, <1>4 DEF GiveUp, TypeOK, Shape
<1>5. QED
  BY <1>2, <1>3, <1>4 DEF Raise

(* A raise of an API thread ends its call or goes on with its save. *)
LEMMA RaisedApi ==
  ASSUME TypeOK, NEW a \in Api, NEW tls \in BOOLEAN, Raise(a, tls)
  PROVE  pc'[a] \in {"raised", "replace"} /\ again' = again /\ at' = at /\ stage' = stage
  BY EwsAssumption DEF Raise, LooksTls, HasFailover, GiveUp, TypeOK, Threads

(* A raise touches the call of no other thread. *)
LEMMA RaiseElsewhere ==
  ASSUME TypeOK, NEW t \in Threads, NEW u \in Threads \ {t}, NEW tls \in BOOLEAN, Raise(t, tls)
  PROVE  /\ pc'[u] = pc[u] /\ at'[u] = at[u] /\ stage'[u] = stage[u] /\ again'[u] = again[u]
         /\ prof'[u] = prof[u]
  BY DEF Raise, TryAgain, FailOver, GiveUp, TypeOK

-----------------------------------------------------------------------------
(* Steps of one thread.                                                    *)

Step(t) ==
    \/ Negotiating(t) \/ TakeAccount(t) \/ PrepareRaises(t) \/ Return(t)
    \/ t \in Workers /\ (StartSend(t) \/ Renew(t) \/ RenewFails(t) \/ SendOk(t) \/ SendRaises(t))
    \/ t \in Api /\ (StartCheck(t) \/ StartSave(t) \/ ReadInbox(t) \/ Replace(t))

(* A step is one of a thread, a change of the server, or a restart.        *)
LEMMA NextIsStep == [Next]_vars => ServerChanges \/ Restart \/ UNCHANGED vars \/ \E t \in Threads : Step(t)
  BY DEF Next, WorkerStep, ApiStep, Step, Threads

(* The call of thread u is where it was. *)
Untouched(u) ==
    /\ pc'[u] = pc[u] /\ at'[u] = at[u] /\ stage'[u] = stage[u] /\ again'[u] = again[u]
    /\ cfg'[u] = cfg[u] /\ prof'[u] = prof[u]
    /\ u \in Workers => copies'[u] = copies[u] /\ ambiguous'[u] = ambiguous[u]

(* A step of one thread leaves the position and counts of every other      *)
(* thread alone.                                                           *)
LEMMA StepIsLocal ==
  ASSUME TypeOK, NEW t \in Threads, Step(t), NEW u \in Threads \ {t}
  PROVE  Untouched(u)
<1> USE DEF Untouched, TypeOK
<1>1. CASE t \in Workers /\ StartSend(t)
  BY <1>1 DEF StartSend, Begin
<1>2. CASE t \in Api /\ (StartCheck(t) \/ StartSave(t))
  BY <1>2 DEF StartCheck, StartSave, Begin
<1>3. CASE LookupHit(t)
  BY <1>3 DEF LookupHit, Negotiated
<1>4. CASE LookupMiss(t) \/ ProbeFinds(t) \/ Apply(t)
  BY <1>4 DEF LookupMiss, ProbeFinds, Apply
<1>5. CASE ProbeFails(t)
  BY <1>5, RaiseElsewhere, RaiseTypes DEF ProbeFails
<1>6. CASE Store(t)
  BY <1>6 DEF Store, Negotiated
<1>7. CASE StoreFails(t)
  BY <1>7, RaiseElsewhere, RaiseTypes DEF StoreFails
<1>8. CASE t \in Workers /\ Renew(t)
  BY <1>8 DEF Renew
<1>9. CASE t \in Workers /\ RenewFails(t)
  BY <1>9, RaiseElsewhere, RaiseTypes DEF RenewFails
<1>10. CASE TakeAccount(t)
  BY <1>10 DEF TakeAccount
<1>11. CASE PrepareRaises(t)
  BY <1>11, RaiseElsewhere, RaiseTypes DEF PrepareRaises
<1>12. CASE t \in Workers /\ SendOk(t)
  BY <1>12 DEF SendOk
<1>13. CASE t \in Workers /\ SendRaises(t)
  BY <1>13, RaiseElsewhere, RaiseTypes DEF SendRaises
<1>14. CASE t \in Api /\ (ReadInbox(t) \/ Replace(t))
  BY <1>14 DEF ReadInbox, Replace, Clear, Blank
<1>15. CASE Return(t)
  BY <1>15 DEF Return, Clear, Blank
<1>16. QED
  BY <1>1, <1>2, <1>3, <1>4, <1>5, <1>6, <1>7, <1>8, <1>9, <1>10, <1>11, <1>12, <1>13, <1>14, <1>15
     DEF Step, Negotiating

(* What a step of its own does to a worker's call, as far as Shape and     *)
(* TriesCounted tell apart.                                                *)
LEMMA WorkerMoves ==
  ASSUME TypeOK, Shape, NEW w \in Workers, Step(w)
  PROVE  /\ stage'[w] \in {"build", "forced"}
         /\ pc'[w] = "renew" => again'[w]
         /\ pc'[w] = "idle" => ~again'[w]
         /\ pc'[w] # "replace"
         /\ \/ /\ pc'[w] \notin {"idle", "ok", "raised"} /\ pc[w] \notin {"ok", "raised"}
               /\ at'[w] = at[w] /\ again'[w] = again[w]
               /\ copies'[w] = copies[w] /\ ambiguous'[w] = ambiguous[w]
            \/ /\ pc[w] \notin {"idle", "ok", "raised"}
               /\ \E got \in 0..1 :
                    copies'[w] = copies[w] + got /\ ambiguous'[w] = ambiguous[w] + got
               /\ \/ pc'[w] = "renew" /\ again'[w] /\ ~again[w] /\ at'[w] = at[w]
                  \/ pc'[w] = "lookup" /\ ~again'[w] /\ at[w] = "primary" /\ at'[w] = "failover"
                  \/ pc'[w] = "raised" /\ again'[w] = again[w] /\ at'[w] = at[w]
            \/ /\ pc[w] = "send" /\ pc'[w] = "ok" /\ at'[w] = at[w] /\ again'[w] = again[w]
               /\ copies'[w] = copies[w] + 1 /\ ambiguous'[w] = ambiguous[w]
            \/ /\ pc[w] \in {"ok", "raised"}
               /\ pc'[w] = "idle" /\ at'[w] = "primary" /\ ~again'[w]
               /\ copies'[w] = 0 /\ ambiguous'[w] = 0
<1>1. /\ w \in Threads /\ w \notin Api
      /\ pc \in [Threads -> PCs] /\ at \in [Threads -> Servers] /\ again \in [Threads -> BOOLEAN]
      /\ stage \in [Threads -> {"check", "save", "forced", "build", "boot"}]
      /\ stage[w] \in {"build", "forced"} /\ pc[w] # "replace"
      /\ copies \in [Workers -> Nat] /\ ambiguous \in [Workers -> Nat]
  BY EwsAssumption DEF TypeOK, Shape, Threads
<1>2. CASE StartSend(w)
  BY <1>1, <1>2 DEF StartSend, Begin
<1>3. CASE LookupHit(w)
  BY <1>1, <1>3 DEF LookupHit, Negotiated
<1>4. CASE LookupMiss(w) \/ ProbeFinds(w)
  BY <1>1, <1>4 DEF LookupMiss, ProbeFinds
<1>5. CASE Apply(w)
  BY <1>1, <1>5 DEF Apply
<1>6. CASE ProbeFails(w)
  <2>1. PICK tls \in BOOLEAN : Raise(w, tls)
    BY <1>6 DEF ProbeFails
  <2>2. pc[w] \notin {"idle", "ok", "raised"} /\ copies' = copies /\ ambiguous' = ambiguous
    BY <1>6 DEF ProbeFails
  <2>3. copies'[w] = copies[w] + 0 /\ ambiguous'[w] = ambiguous[w] + 0
    BY <1>1, <2>2
  <2>4. QED
    BY <2>1, <2>2, <2>3, RaisedWorker
<1>7. CASE Store(w)
  BY <1>1, <1>7 DEF Store, Negotiated
<1>8. CASE StoreFails(w)
  <2>1. PICK tls \in BOOLEAN : Raise(w, tls)
    BY <1>8 DEF StoreFails
  <2>2. pc[w] \notin {"idle", "ok", "raised"} /\ copies' = copies /\ ambiguous' = ambiguous
    BY <1>8 DEF StoreFails
  <2>3. copies'[w] = copies[w] + 0 /\ ambiguous'[w] = ambiguous[w] + 0
    BY <1>1, <2>2
  <2>4. QED
    BY <2>1, <2>2, <2>3, RaisedWorker
<1>9. CASE Renew(w)
  BY <1>1, <1>9 DEF Renew
<1>10. CASE RenewFails(w)
  <2>1. PICK tls \in BOOLEAN : Raise(w, tls)
    BY <1>10 DEF RenewFails
  <2>2. pc[w] = "renew" /\ copies' = copies /\ ambiguous' = ambiguous
    BY <1>10 DEF RenewFails
  <2>3. copies'[w] = copies[w] + 0 /\ ambiguous'[w] = ambiguous[w] + 0
    BY <1>1, <2>2
  <2>4. QED
    BY <2>1, <2>2, <2>3, RaisedWorker
<1>11. CASE TakeAccount(w)
  BY <1>1, <1>11 DEF TakeAccount
<1>12. CASE PrepareRaises(w)
  BY <1>1, <1>12, RaisedWorker DEF PrepareRaises
<1>13. CASE SendOk(w)
  BY <1>1, <1>13 DEF SendOk
<1>14. CASE SendRaises(w)
  <2>1. PICK got \in 0..1, tls \in BOOLEAN :
            /\ copies' = [copies EXCEPT ![w] = @ + got]
            /\ ambiguous' = [ambiguous EXCEPT ![w] = @ + got]
            /\ Raise(w, tls)
    BY <1>14 DEF SendRaises
  <2>2. pc[w] = "send" /\ copies'[w] = copies[w] + got /\ ambiguous'[w] = ambiguous[w] + got
    BY <1>1, <1>14, <2>1 DEF SendRaises
  <2>3. QED
    BY <2>1, <2>2, RaisedWorker
<1>15. CASE Return(w)
  BY <1>1, <1>15 DEF Return, Clear, Blank
<1>16. QED
  BY <1>1, <1>2, <1>3, <1>4, <1>5, <1>6, <1>7, <1>8, <1>9, <1>10, <1>11, <1>12, <1>13, <1>14, <1>15
     DEF Step, Negotiating

(* Profiles on their way stay profiles. *)
LEMMA CarriesProfile ==
  ASSUME TypeOK, Shape, NEW t \in Threads, Step(t), pc'[t] \in {"store", "apply"}
  PROVE  prof'[t] \in Profiles
<1>1. /\ pc \in [Threads -> PCs] /\ prof \in [Threads -> Profiles \cup {NoProfile}]
      /\ Rungs(at[t]) \subseteq Profiles
      /\ pc[t] \in {"store", "apply"} => prof[t] \in Profiles
      /\ Cached(memory, t) \in Profiles \cup {NoProfile} /\ Cached(file, t) \in Profiles \cup {NoProfile}
  <2>1. \A p \in Profiles : p \in Profiles \cup {NoProfile}
    OBVIOUS
  <2>2. Cached(memory, t) \in Profiles \cup {NoProfile} /\ Cached(file, t) \in Profiles \cup {NoProfile}
    BY PutTypes
  <2>3. QED
    BY <2>2, RungsAreProfiles DEF TypeOK, Shape
<1>2. \A tls \in BOOLEAN : ~Raise(t, tls)
  <2>1. SUFFICES ASSUME NEW tls \in BOOLEAN, Raise(t, tls) PROVE FALSE
    OBVIOUS
  <2>2. CASE t \in Workers
    BY <2>1, <2>2, RaisedWorker
  <2>3. CASE t \in Api
    BY <2>1, <2>3, RaisedApi
  <2>4. QED
    BY <2>2, <2>3 DEF Threads
<1>3. CASE LookupHit(t)
  BY <1>1, <1>3 DEF LookupHit, Negotiated
<1>4. CASE ProbeFinds(t)
  BY <1>1, <1>4 DEF ProbeFinds
<1>5. CASE Store(t)
  BY <1>1, <1>5 DEF Store, Negotiated
<1>6. CASE \/ t \in Workers /\ (StartSend(t) \/ Renew(t) \/ SendOk(t))
           \/ t \in Api /\ (StartCheck(t) \/ StartSave(t) \/ ReadInbox(t))
           \/ LookupMiss(t) \/ TakeAccount(t)
  BY <1>1, <1>6 DEF StartSend, StartCheck, StartSave, Begin, Renew, SendOk, ReadInbox, LookupMiss, TakeAccount
<1>7. CASE Return(t) \/ Replace(t)
  BY <1>1, <1>7 DEF Return, Replace, Clear, Blank
<1>8. CASE Apply(t)
  BY <1>1, <1>8 DEF Apply
<1>9. QED
  BY <1>2, <1>3, <1>4, <1>5, <1>6, <1>7, <1>8
     DEF Step, Negotiating, ProbeFails, StoreFails, RenewFails, PrepareRaises, SendRaises

(* No step takes a thread where the driver's code cannot be.               *)
LEMMA ShapeStep == TypeOK /\ Shape /\ [Next]_vars => Shape'
<1> SUFFICES ASSUME TypeOK, Shape, [Next]_vars PROVE Shape'
  OBVIOUS
<1>1. CASE Restart
  BY <1>1, MainIsApi, EwsAssumption DEF Restart, Shape, Threads
<1>2. CASE ServerChanges \/ UNCHANGED vars
  BY <1>2 DEF ServerChanges, vars, threadVars, Shape
<1>3. ASSUME NEW t \in Threads, Step(t) PROVE Shape'
  <2>1. \A u \in Threads : pc'[u] \in {"store", "apply"} => prof'[u] \in Profiles
    BY <1>3, CarriesProfile, StepIsLocal DEF Untouched, Shape
  <2>2. \A w \in Workers : w \in Threads
    BY DEF Threads
  <2>3. \A w \in Workers : /\ stage'[w] \in {"build", "forced"}
                           /\ pc'[w] = "renew" => again'[w]
                           /\ pc'[w] = "idle" => ~again'[w]
                           /\ pc'[w] # "replace"
    <3>1. SUFFICES ASSUME NEW w \in Workers
                   PROVE  /\ stage'[w] \in {"build", "forced"}
                          /\ pc'[w] = "renew" => again'[w]
                          /\ pc'[w] = "idle" => ~again'[w]
                          /\ pc'[w] # "replace"
      OBVIOUS
    <3>2. CASE w = t
      BY <1>3, <3>2, WorkerMoves
    <3>3. CASE w # t
      BY <1>3, <2>2, <3>3, StepIsLocal DEF Untouched, Shape
    <3>4. QED
      BY <3>2, <3>3
  <2>4. QED
    BY <2>1, <2>3 DEF Shape
<1>4. QED
  BY <1>1, <1>2, <1>3, NextIsStep

(* A send counts at most one copy, and what may be repeated is a send that *)
(* raised.                                                                 *)
LEMMA TriesStep == TypeOK /\ Shape /\ TriesCounted /\ [Next]_vars => TriesCounted'
<1> SUFFICES ASSUME TypeOK, Shape, TriesCounted, [Next]_vars, NEW w \in Workers
             PROVE  /\ copies'[w] = ambiguous'[w] + (IF pc'[w] = "ok" THEN 1 ELSE 0)
                    /\ ambiguous'[w] <= (IF at'[w] = "primary" THEN 0 ELSE 2)
                                         + (IF again'[w] THEN 1 ELSE 0)
                                         + (IF pc'[w] = "raised" THEN 1 ELSE 0)
  BY DEF TriesCounted
<1>1. /\ w \in Threads /\ w # Main
      /\ copies[w] \in Nat /\ ambiguous[w] \in Nat
      /\ copies[w] = ambiguous[w] + (IF pc[w] = "ok" THEN 1 ELSE 0)
      /\ ambiguous[w] <= (IF at[w] = "primary" THEN 0 ELSE 2)
                          + (IF again[w] THEN 1 ELSE 0)
                          + (IF pc[w] = "raised" THEN 1 ELSE 0)
  BY MainIsApi, EwsAssumption DEF Threads, TypeOK, TriesCounted
<1>2. CASE Restart
  BY <1>1, <1>2 DEF Restart
<1>3. CASE ServerChanges \/ UNCHANGED vars
  BY <1>1, <1>3 DEF ServerChanges, vars, threadVars
<1>4. CASE Step(w)
  BY <1>1, <1>4, WorkerMoves
<1>5. ASSUME NEW t \in Threads \ {w}, Step(t)
      PROVE  Untouched(w)
  BY <1>1, <1>5, StepIsLocal
<1>6. CASE Untouched(w)
  BY <1>1, <1>6 DEF Untouched
<1>7. QED
  BY <1>1, <1>2, <1>3, <1>4, <1>5, <1>6, NextIsStep

-----------------------------------------------------------------------------
(* OwnKept.                                                                *)

(* What a step of a thread does to its configuration, the sessions and the *)
(* adapter: each is explained by the action that is meant to change it.    *)
LEMMA OwnMoves ==
  ASSUME TypeOK, NEW t \in Threads, Step(t)
  PROVE  /\ happened \subseteq happened'
         /\ trust' = trust \/ (pc[t] # "idle" /\ trust' = cfg[t])
         /\ \/ pc'[t] = "idle"
            \/ pc[t] # "idle" /\ cfg'[t] = cfg[t]
            \/ cfg'[t] = trust
            \/ "save" \in happened'
         /\ adapter' = adapter \/ Apply(t)
         /\ \A s \in Servers :
              \/ pool'[s] = pool[s]
              \/ s = at[t] /\ pool'[s] = Opened(t) /\ pc[t] \in {"account", "send"}
         /\ pc'[t] = "store" => ProbeFinds(t)
         /\ pc'[t] = "account" => Apply(t)
         /\ pc'[t] = "send" => TakeAccount(t)
<1>1. /\ pc \in [Threads -> PCs] /\ cfg \in [Threads -> [Servers -> Trusts]]
      /\ DOMAIN pool = Servers
  BY DEF TypeOK
<1>2. \A tls \in BOOLEAN : Raise(t, tls) => pc'[t] \notin {"store", "account", "send"} /\ cfg' = cfg
  BY <1>1 DEF Raise, TryAgain, FailOver, GiveUp
<1>3. CASE \/ t \in Workers /\ StartSend(t)
           \/ t \in Api /\ (StartCheck(t) \/ StartSave(t))
  <2>1. \E c, st : Begin(t, st, c) /\ (c = trust \/ "save" \in happened')
    BY <1>3 DEF StartSend, StartCheck, StartSave, Once, Allowed
  <2>2. happened \subseteq happened'
    BY <1>3 DEF StartSend, StartCheck, StartSave, Once, Allowed
  <2>3. QED
    BY <1>1, <2>1, <2>2 DEF Begin
<1>4. CASE LookupHit(t) \/ Store(t)
  BY <1>1, <1>4 DEF LookupHit, Store, Negotiated
<1>5. CASE LookupMiss(t) \/ ProbeFinds(t)
  BY <1>1, <1>5 DEF LookupMiss, ProbeFinds
<1>6. CASE Apply(t)
  BY <1>1, <1>6 DEF Apply
<1>7. CASE ProbeFails(t) \/ PrepareRaises(t)
  BY <1>1, <1>2, <1>7 DEF ProbeFails, PrepareRaises, MayReopen
<1>8. CASE StoreFails(t) \/ (t \in Workers /\ RenewFails(t))
  BY <1>2, <1>8, SomeDisturbances DEF StoreFails, RenewFails
<1>9. CASE t \in Workers /\ SendRaises(t)
  BY <1>1, <1>2, <1>9 DEF SendRaises, MayReopen
<1>10. CASE t \in Workers /\ Renew(t)
  BY <1>1, <1>10 DEF Renew
<1>11. CASE TakeAccount(t)
  BY <1>1, <1>11 DEF TakeAccount
<1>12. CASE (t \in Workers /\ SendOk(t)) \/ (t \in Api /\ ReadInbox(t))
  BY <1>1, <1>12 DEF SendOk, ReadInbox, MayReopen
<1>13. CASE Return(t) \/ (t \in Api /\ Replace(t))
  BY <1>1, <1>13 DEF Return, Replace, Clear, Blank
<1>14. QED
  BY <1>3, <1>4, <1>5, <1>6, <1>7, <1>8, <1>9, <1>10, <1>11, <1>12, <1>13 DEF Step, Negotiating

(* A session that a thread opens under the adapter it installed is for the *)
(* server it is at.                                                        *)
LEMMA OpensOwn ==
  ASSUME TypeOK, OwnKept, NEW t \in Threads, pc[t] \in {"account", "send"},
         Opened(t).by # "none"
  PROVE  MadeFor(Opened(t), at[t])
<1>1. Opened(t) = adapter /\ adapter.by = t
  BY OpenedTypes
<1>2. adapter.server = at[t] /\ adapter.trust = cfg[t][at[t]]
  BY <1>1 DEF OwnKept, Own, Trust
<1>3. cfg[t] # Trusted => "save" \in happened
  BY DEF OwnKept, Own
<1>4. QED
  BY <1>1, <1>2, <1>3 DEF MadeFor

(* What a thread opened under its own adapter stays what its server was    *)
(* given.                                                                  *)
LEMMA OwnStep == TypeOK /\ OwnKept /\ [Next]_vars => OwnKept'
<1> SUFFICES ASSUME TypeOK, OwnKept, [Next]_vars PROVE OwnKept'
  OBVIOUS
<1>1. CASE Restart
  <2>1. \A s \in Servers : pool'[s].by = "none"
    BY <1>1 DEF Restart, NoSetting
  <2>2. \A t \in Threads : pc'[t] \in {"idle", "lookup"} /\ (pc'[t] = "lookup" => cfg'[t] = trust)
    BY <1>1 DEF Restart
  <2>3. happened \subseteq happened' /\ trust' = trust
    BY <1>1, SomeDisturbances DEF Restart
  <2>4. QED
    BY <2>1, <2>2, <2>3 DEF OwnKept, Own
<1>2. CASE ServerChanges \/ UNCHANGED vars
  <2>1. happened \subseteq happened' /\ UNCHANGED <<trust, adapter, pool, pc, at, cfg>>
    BY <1>2, SomeDisturbances DEF ServerChanges, vars, threadVars
  <2>2. QED
    BY <2>1 DEF OwnKept, Own, MadeFor, Trust
<1>3. ASSUME NEW t \in Threads, Step(t) PROVE OwnKept'
  <2>1. happened \subseteq happened'
    BY <1>3, OwnMoves
  <2>2. trust' # Trusted => "save" \in happened'
    BY <1>3, <2>1, OwnMoves DEF OwnKept, Own
  <2>3. ASSUME NEW u \in Threads, u # t
        PROVE  Own(u)'
    <3>1. Untouched(u)
      BY <1>3, <2>3, StepIsLocal
    <3>2. adapter' = adapter \/ adapter'.by # u
      BY <1>3, <2>3, OwnMoves DEF Apply
    <3>3. QED
      BY <2>1, <3>1, <3>2 DEF Untouched, OwnKept, Own, MadeFor, Trust
  <2>4. Own(t)'
    <3>1. pc'[t] # "idle" /\ cfg'[t] # Trusted => "save" \in happened'
      BY <1>3, <2>1, OwnMoves DEF OwnKept, Own
    <3>2. pc'[t] = "account" => adapter'.server = at'[t] /\ adapter'.trust = Trust(t)'
      BY <1>3, OwnMoves DEF Apply, Trust
    <3>3. pc'[t] = "send" /\ adapter'.by = t => adapter'.server = at'[t] /\ adapter'.trust = Trust(t)'
      BY <1>3, OwnMoves DEF TakeAccount, OwnKept, Own, Trust
    <3>4. QED
      BY <3>1, <3>2, <3>3 DEF Own
  <2>5. ASSUME NEW s \in Servers, pool'[s].by # "none"
        PROVE  MadeFor(pool[s], s)'
    <3>1. CASE pool'[s] = pool[s]
      BY <2>1, <2>5, <3>1 DEF OwnKept, MadeFor
    <3>2. CASE s = at[t] /\ pool'[s] = Opened(t) /\ pc[t] \in {"account", "send"}
      BY <2>1, <2>5, <3>2, OpensOwn DEF MadeFor
    <3>3. QED
      BY <1>3, <3>1, <3>2, OwnMoves
  <2>6. QED
    BY <2>2, <2>3, <2>4, <2>5 DEF OwnKept
<1>4. QED
  BY <1>1, <1>2, <1>3, NextIsStep

-----------------------------------------------------------------------------
(* FreshKept.                                                              *)

(* An entry written under thread t's key is what every thread with that    *)
(* key finds; the others find what they found.                             *)
LEMMA PutIsFound ==
  ASSUME NEW f \in [Servers -> [Trusts -> Profiles \cup {NoProfile}]], TypeOK,
         NEW t \in Threads, NEW w \in Threads, NEW p
  PROVE  Cached(Put(f, t, p), w) = IF SameKey(w, t) THEN p ELSE Cached(f, w)
<1>1. /\ at[t] \in Servers /\ at[w] \in Servers
      /\ Trust(t) \in Trusts /\ Trust(w) \in Trusts
  BY PutTypes
<1>2. QED
  BY <1>1 DEF Put, Cached, SameKey

(* A thread leaves the cache of another's key as fresh as it was.          *)
LEMMA CacheStaysFresh ==
  ASSUME TypeOK, NEW t \in Threads, Step(t), NEW w \in Workers \ {t}
  PROVE  /\ renewed[w] \subseteq renewed'[w]
         /\ HandsFresh(w) /\ Cached(memory, w) \in Renewed(w) /\ Cached(file, w) \in Renewed(w)
              => /\ Cached(memory', w) \in Renewed(w)'
                 /\ Cached(file', w) \in Renewed(w)'
<1>1. /\ w \in Threads /\ SameKey(t, t)
      /\ memory \in [Servers -> [Trusts -> Profiles \cup {NoProfile}]]
      /\ file \in [Servers -> [Trusts -> Profiles \cup {NoProfile}]]
      /\ renewed \in [Workers -> SUBSET Profiles]
  BY DEF TypeOK, Threads, SameKey
<1>2. \A p : /\ Cached(Put(memory, t, p), w) = IF SameKey(w, t) THEN p ELSE Cached(memory, w)
             /\ Cached(Put(file, t, p), w) = IF SameKey(w, t) THEN p ELSE Cached(file, w)
  BY <1>1, PutIsFound
<1>3. SameKey(w, t) => Cached(memory, t) = Cached(memory, w) /\ Cached(file, t) = Cached(file, w)
  BY DEF SameKey, Cached
<1>4. CASE UNCHANGED <<memory, file, renewed>>
  BY <1>4 DEF Renewed
<1>5. CASE LookupHit(t)
  BY <1>2, <1>3, <1>5 DEF LookupHit, Renewed
<1>6. CASE Store(t) \/ StoreFails(t)
  <2>1. /\ pc[t] = "store" /\ renewed' = renewed
        /\ memory' = Put(memory, t, prof[t])
        /\ file' = file \/ file' = Put(file, t, prof[t])
    BY <1>6 DEF Store, StoreFails
  <2>2. HandsFresh(w) /\ SameKey(w, t) => prof[t] \in renewed[w]
    BY <2>1 DEF HandsFresh, SameKey
  <2>3. QED
    BY <1>2, <2>1, <2>2 DEF Renewed
<1>7. CASE ProbeFinds(t)
  BY <1>1, <1>7 DEF ProbeFinds, Noted, Renewed, Cached
<1>8. CASE t \in Workers /\ Renew(t)
  BY <1>1, <1>2, <1>8 DEF Renew, Renewed
<1>9. CASE t \in Workers /\ RenewFails(t)
  BY <1>1, <1>2, <1>9 DEF RenewFails, Renewed
<1>10. CASE Return(t) \/ (t \in Api /\ Replace(t))
  BY <1>1, <1>10 DEF Return, Replace, Clear, Renewed
<1>11. CASE \/ t \in Workers /\ (StartSend(t) \/ SendOk(t) \/ SendRaises(t))
            \/ t \in Api /\ (StartCheck(t) \/ StartSave(t) \/ ReadInbox(t))
            \/ LookupMiss(t) \/ ProbeFails(t) \/ Apply(t)
            \/ TakeAccount(t) \/ PrepareRaises(t)
  <2>1. UNCHANGED <<memory, file, renewed>>
    BY <1>11 DEF StartSend, StartCheck, StartSave, Begin, SendOk, SendRaises, ReadInbox, LookupMiss,
                 ProbeFails, Apply, TakeAccount, PrepareRaises
  <2>2. QED
    BY <1>4, <2>1
<1>12. QED
  BY <1>5, <1>6, <1>7, <1>8, <1>9, <1>10, <1>11 DEF Step, Negotiating

(* What is about to be stored under the key of a second try stays fresh:   *)
(* a probe that ends now is noted.                                         *)
LEMMA HandsStayFresh ==
  ASSUME TypeOK, NEW t \in Threads, Step(t), NEW w \in Workers, again[w], HandsFresh(w),
         at'[w] = at[w], cfg'[w] = cfg[w], renewed[w] \subseteq renewed'[w]
  PROVE  HandsFresh(w)'
<1> SUFFICES ASSUME NEW u \in Threads, pc'[u] = "store", SameKey(u, w)'
             PROVE  prof'[u] \in renewed'[w]
  BY DEF HandsFresh
<1>1. CASE u # t
  <2>1. Untouched(u)
    BY <1>1, StepIsLocal
  <2>2. pc[u] = "store" /\ SameKey(u, w)
    BY <2>1 DEF Untouched, SameKey, Trust
  <2>3. QED
    BY <2>1, <2>2 DEF HandsFresh, Untouched
<1>2. CASE u = t
  <2>1. ProbeFinds(t)
    BY <1>2, OwnMoves
  <2>2. at' = at /\ cfg' = cfg /\ prof \in [Threads -> Profiles \cup {NoProfile}]
    BY <2>1 DEF ProbeFinds, TypeOK
  <2>3. SameKey(w, t)
    BY <1>2, <2>2 DEF SameKey, Trust
  <2>4. QED
    BY <1>2, <2>1, <2>2, <2>3 DEF ProbeFinds, Noted
<1>3. QED
  BY <1>1, <1>2

(* A worker's own steps: only a renewal begins a second try, and until the *)
(* account each step of it uses what the one before it left.               *)
LEMMA OwnFresh ==
  ASSUME TypeOK, Shape, NEW w \in Workers, Fresh(w), Step(w)
  PROVE  Fresh(w)'
<1>1. /\ w \in Threads /\ w \notin Api /\ SameKey(w, w)
      /\ pc \in [Threads -> PCs] /\ again \in [Threads -> BOOLEAN] /\ at \in [Threads -> Servers]
      /\ memory \in [Servers -> [Trusts -> Profiles \cup {NoProfile}]]
      /\ file \in [Servers -> [Trusts -> Profiles \cup {NoProfile}]]
      /\ prof \in [Threads -> Profiles \cup {NoProfile}]
      /\ renewed \in [Workers -> SUBSET Profiles]
  BY EwsAssumption DEF TypeOK, Threads, SameKey
<1>2. \A p : Cached(Put(memory, w, p), w) = p /\ Cached(Put(file, w, p), w) = p
  BY <1>1, PutIsFound
<1>3. ASSUME NEW tls \in BOOLEAN, Raise(w, tls)
      PROVE  Fresh(w)'
  BY <1>3, RaisedWorker DEF Fresh, Repeating
<1>4. CASE Return(w) \/ StartSend(w) \/ SendOk(w) \/ TakeAccount(w)
  <2>1. pc'[w] \in {"idle", "ok", "send"} \/ ~again'[w]
    <3>1. CASE Return(w) \/ SendOk(w) \/ TakeAccount(w)
      BY <1>1, <3>1 DEF Return, Clear, Blank, SendOk, TakeAccount
    <3>2. CASE StartSend(w)
      BY <1>1, <3>2 DEF StartSend, Begin, Shape
    <3>3. QED
      BY <1>4, <3>1, <3>2
  <2>2. QED
    BY <2>1 DEF Fresh, Repeating
<1>5. ASSUME UNCHANGED <<at, cfg, again>>, again[w], renewed[w] \subseteq renewed'[w], HandsFresh(w)
      PROVE  HandsFresh(w)'
  BY <1>1, <1>5, HandsStayFresh
<1>6. CASE LookupHit(w)
  <2>1. /\ pc[w] = "lookup" /\ UNCHANGED <<file, at, cfg, again, renewed>>
        /\ pc'[w] \in {"lookup", "apply"}
    BY <1>1, <1>6 DEF LookupHit, Negotiated
  <2>2. CASE ~again[w]
    BY <2>1, <2>2 DEF Fresh, Repeating
  <2>3. CASE again[w]
    <3>1. /\ Cached(memory, w) \in Renewed(w) /\ Cached(file, w) \in Renewed(w)
          /\ HandsFresh(w)
      BY <2>1, <2>3 DEF Fresh, Repeating
    <3>2. PICK p \in renewed[w] : /\ memory' = Put(memory, w, p)
                                  /\ Negotiated(w, p)
      BY <1>6, <3>1 DEF LookupHit, Renewed
    <3>3. Cached(memory, w)' = p /\ Cached(file, w)' = Cached(file, w)
      <4>1. Cached(memory', w) = p
        BY <1>2, <3>2
      <4>2. QED
        BY <2>1, <4>1 DEF Cached, Trust
    <3>4. pc'[w] = "apply" => prof'[w] = p
      BY <1>1, <3>2, <2>1 DEF Negotiated
    <3>5. HandsFresh(w)'
      BY <1>5, <2>1, <2>3, <3>1
    <3>6. QED
      BY <2>1, <3>1, <3>2, <3>3, <3>4, <3>5 DEF Fresh, Repeating, Renewed
  <2>4. QED
    BY <2>2, <2>3
<1>7. CASE LookupMiss(w) \/ ProbeFinds(w)
  <2>1. /\ pc[w] \in {"lookup", "probe"} /\ UNCHANGED <<memory, file, at, cfg, again>>
        /\ pc'[w] \in {"probe", "store"} /\ renewed[w] \subseteq renewed'[w]
    BY <1>1, <1>7 DEF LookupMiss, ProbeFinds, Noted
  <2>2. again[w] => HandsFresh(w)'
    BY <1>5, <2>1 DEF Fresh, Repeating
  <2>3. QED
    BY <2>1, <2>2 DEF Fresh, Repeating, Renewed, Cached, Trust
<1>8. CASE Store(w)
  <2>1. /\ pc[w] = "store" /\ UNCHANGED <<at, cfg, again, renewed>>
        /\ memory' = Put(memory, w, prof[w]) /\ file' = Put(file, w, prof[w])
        /\ pc'[w] \in {"lookup", "apply"}
        /\ pc'[w] = "apply" => prof'[w] = prof[w]
    BY <1>1, <1>8 DEF Store, Negotiated
  <2>2. CASE ~again[w]
    BY <2>1, <2>2 DEF Fresh, Repeating
  <2>3. CASE again[w]
    <3>1. HandsFresh(w) /\ prof[w] \in renewed[w]
      BY <1>1, <2>1, <2>3 DEF Fresh, Repeating, HandsFresh
    <3>2. Cached(memory, w)' = prof[w] /\ Cached(file, w)' = prof[w]
      <4>1. Cached(memory', w) = prof[w] /\ Cached(file', w) = prof[w]
        BY <1>2, <2>1
      <4>2. QED
        BY <2>1, <4>1 DEF Cached, Trust
    <3>3. HandsFresh(w)'
      BY <1>5, <2>1, <2>3, <3>1
    <3>4. QED
      BY <2>1, <3>1, <3>2, <3>3 DEF Fresh, Repeating, Renewed
  <2>4. QED
    BY <2>2, <2>3
<1>9. CASE Renew(w)
  <2>1. /\ UNCHANGED <<at, cfg, again, prof>> /\ pc'[w] = "probe"
        /\ memory' = Put(memory, w, NoProfile) /\ file' = Put(file, w, NoProfile)
        /\ renewed'[w] = InHand(w)
        /\ \A u \in Threads \ {w} : pc'[u] = pc[u]
    BY <1>1, <1>9 DEF Renew
  <2>2. Cached(memory, w)' = NoProfile /\ Cached(file, w)' = NoProfile
    <3>1. Cached(memory', w) = NoProfile /\ Cached(file', w) = NoProfile
      BY <1>2, <2>1
    <3>2. QED
      BY <2>1, <3>1 DEF Cached, Trust
  <2>3. HandsFresh(w)'
    <3>1. SUFFICES ASSUME NEW u \in Threads, pc'[u] = "store", SameKey(u, w)'
                   PROVE  prof'[u] \in renewed'[w]
      BY DEF HandsFresh
    <3>2. u # w /\ pc[u] = "store" /\ SameKey(u, w)
      BY <2>1, <3>1 DEF SameKey, Trust
    <3>3. QED
      BY <2>1, <3>2 DEF InHand
  <2>4. QED
    BY <2>1, <2>2, <2>3 DEF Fresh, Repeating, Renewed
<1>10. CASE Apply(w)
  <2>1. /\ pc[w] = "apply" /\ UNCHANGED <<memory, file, at, again, cfg, renewed>>
        /\ pc'[w] # "apply" /\ adapter'.profile = prof[w]
    BY <1>1, <1>10 DEF Apply
  <2>2. again[w] => /\ prof[w] \in renewed[w] /\ HandsFresh(w)
                    /\ Cached(memory, w) \in Renewed(w) /\ Cached(file, w) \in Renewed(w)
    BY <2>1 DEF Fresh, Repeating
  <2>3. again[w] => HandsFresh(w)'
    BY <1>5, <2>1, <2>2
  <2>4. QED
    BY <2>1, <2>2, <2>3 DEF Fresh, Repeating, Renewed, Cached, Trust
<1>11. QED
  BY <1>1, <1>3, <1>4, <1>6, <1>7, <1>8, <1>9, <1>10
     DEF Step, Negotiating, ProbeFails, StoreFails, RenewFails, PrepareRaises, SendRaises

(* Nothing brings back, during a second try, a profile from before the     *)
(* renewal.                                                                *)
LEMMA FreshStep == TypeOK /\ Shape /\ FreshKept /\ [Next]_vars => FreshKept'
<1> SUFFICES ASSUME TypeOK, Shape, FreshKept, [Next]_vars, NEW w \in Workers PROVE Fresh(w)'
  BY DEF FreshKept
<1>1. w \in Threads /\ Fresh(w)
  BY DEF Threads, FreshKept
<1>2. CASE Restart
  BY <1>1, <1>2 DEF Restart, Fresh, Repeating
<1>3. CASE ServerChanges \/ UNCHANGED vars
  BY <1>1, <1>3 DEF ServerChanges, vars, threadVars, Fresh, Repeating, Renewed, HandsFresh, SameKey, Cached, Trust
<1>4. CASE Step(w)
  BY <1>1, <1>4, OwnFresh
<1>5. ASSUME NEW t \in Threads \ {w}, Step(t) PROVE Fresh(w)'
  <2>1. /\ Untouched(w)
        /\ adapter' = adapter \/ adapter'.by # w
        /\ renewed[w] \subseteq renewed'[w]
    BY <1>1, <1>5, StepIsLocal, OwnMoves, CacheStaysFresh DEF Apply
  <2>2. HandsFresh(w) /\ Cached(memory, w) \in Renewed(w) /\ Cached(file, w) \in Renewed(w)
          => (Cached(memory, w) \in Renewed(w) /\ Cached(file, w) \in Renewed(w))'
    BY <1>5, <2>1, CacheStaysFresh DEF Untouched, Cached, Trust
  <2>3. again[w] /\ HandsFresh(w) => HandsFresh(w)'
    BY <1>5, <2>1, HandsStayFresh DEF Untouched
  <2>4. QED
    BY <1>1, <2>1, <2>2, <2>3 DEF Untouched, Fresh, Repeating
<1>6. QED
  BY <1>2, <1>3, <1>4, <1>5, NextIsStep

-----------------------------------------------------------------------------
(* The invariant.                                                          *)

(* The invariant holds before the first call.                              *)
LEMMA InitInv == Init => IInv
<1> SUFFICES ASSUME Init PROVE IInv
  OBVIOUS
<1>1. TypeOK
  BY InitTypes
<1>2. /\ Main \notin Workers
      /\ \A t \in Threads : pc[t] \in {"idle", "lookup"} /\ ~again[t] /\ at[t] = "primary"
      /\ \A w \in Workers : w \in Threads
  BY MainIsApi, EwsAssumption DEF Init, Threads
<1>3. Shape /\ TriesCounted
  BY <1>2 DEF Init, Shape, TriesCounted
<1>4. OwnKept
  <2>1. \A s \in Servers : pool[s].by = "none"
    BY DEF Init, NoSetting
  <2>2. QED
    BY <1>2, <2>1 DEF Init, OwnKept, Own
<1>5. FreshKept
  BY <1>2 DEF FreshKept, Fresh, Repeating
<1>6. QED
  BY <1>1, <1>3, <1>4, <1>5 DEF IInv

(* In every reachable state the inductive invariant holds. *)
THEOREM Invariance == Spec => []IInv
<1>1. IInv /\ [Next]_vars => IInv'
  BY TypeStep, ShapeStep, TriesStep, OwnStep, FreshStep DEF IInv
<1>2. QED
  BY <1>1, InitInv, PTL DEF Spec

(* Every variable keeps its type. *)
THEOREM Typing == Spec => []TypeOK
<1>1. IInv => TypeOK
  BY DEF IInv
<1>2. QED
  BY <1>1, Invariance, PTL

(* Two tries at each of two servers never put more copies at Exchange than *)
(* the one that was answered and those of sends that failed after the mail *)
(* was taken.                                                              *)
THEOREM CopiesAreExplained == Spec => []CopiesExplained
<1>1. IInv => CopiesExplained
  <2>1. SUFFICES ASSUME IInv, NEW w \in Workers
                 PROVE  /\ copies[w] = ambiguous[w] + (IF pc[w] = "ok" THEN 1 ELSE 0)
                        /\ ambiguous[w] <= (IF at[w] = "primary" THEN 0 ELSE 2) + 2
    BY DEF CopiesExplained
  <2>2. copies[w] \in Nat /\ ambiguous[w] \in Nat
    BY <2>1 DEF IInv, TypeOK
  <2>3. QED
    BY <2>1, <2>2 DEF IInv, TriesCounted
<1>2. QED
  BY <1>1, Invariance, PTL

(* A session that a thread opened under the adapter it installed itself is *)
(* for the server it talks to, and trusts it as was configured.            *)
THEOREM AdapterIsOwn == Spec => []OwnAdapter
<1>1. IInv => OwnAdapter
  BY DEF IInv, OwnKept, OwnAdapter, MadeFor
<1>2. QED
  BY <1>1, Invariance, PTL

(* The adapter a second try installs has a profile that was probed since   *)
(* the renewal, or that another thread had probed and not stored by then.  *)
THEOREM SecondTriesAreFresh == Spec => []SecondTryIsFresh
<1>1. IInv => SecondTryIsFresh
  BY DEF IInv, FreshKept, Fresh, SecondTryIsFresh
<1>2. QED
  BY <1>1, Invariance, PTL

-----------------------------------------------------------------------------
(* The refinement of DriverCall.                                           *)

(* At the start nobody is in a call and nothing is delivered.              *)
LEMMA InitCalls == Init => Calls!Init
<1> SUFFICES ASSUME Init PROVE Calls!Init
  OBVIOUS
<1>1. \A w \in Workers : pc[w] = "idle" /\ copies[w] = 0
  <2>1. \A w \in Workers : w \in Threads /\ w # Main
    BY MainIsApi, EwsAssumption DEF Threads
  <2>2. QED
    BY <2>1 DEF Init
<1>2. \A w \in Workers : Seen(w) = "none"
  BY <1>1 DEF Seen
<1>3. \A w \in Workers : (copies[w] > 0) = FALSE
  <2>1. SUFFICES ASSUME NEW w \in Workers PROVE (copies[w] > 0) = FALSE
    OBVIOUS
  <2>2. ~(copies[w] > 0)
    BY <1>1
  <2>3. QED
    BY <2>2
<1>4. [w \in Workers |-> Seen(w)] = [w \in Workers |-> "none"]
  BY <1>2
<1>5. [w \in Workers |-> copies[w] > 0] = [w \in Workers |-> FALSE]
  BY <1>3, Zenon
<1>6. QED
  BY <1>4, <1>5 DEF Calls!Init

(* A worker's step is what the caller's view allows, or nothing to see. *)
LEMMA WorkerCalls ==
  ASSUME TypeOK, Shape, NEW w \in Workers, Step(w)
  PROVE  [Calls!Next]_(Calls!callVars)
<1> DEFINE answer == [v \in Workers |-> Seen(v)]
           delivered == [v \in Workers |-> copies[v] > 0]
<1>1. \A v \in Workers \ {w} : Seen(v)' = Seen(v) /\ copies'[v] = copies[v]
  <2>1. \A v \in Workers \ {w} : v \in Threads \ {w} /\ v \in Workers /\ w \in Threads
    BY DEF Threads
  <2>2. \A v \in Workers \ {w} : pc'[v] = pc[v] /\ copies'[v] = copies[v]
    BY <2>1, StepIsLocal DEF Untouched
  <2>3. QED
    BY <2>2 DEF Seen
<1>2. /\ answer' = [answer EXCEPT ![w] = Seen(w)']
      /\ delivered' = [delivered EXCEPT ![w] = (copies[w] > 0)']
      /\ answer[w] = Seen(w) /\ delivered[w] = (copies[w] > 0)
  BY <1>1
<1>3. copies[w] \in Nat
  BY DEF TypeOK
<1>4. CASE /\ pc'[w] \notin {"idle", "ok", "raised"} /\ pc[w] \notin {"ok", "raised"}
           /\ copies'[w] = copies[w]
  <2>1. delivered' = delivered
    BY <1>1, <1>4
  <2>2. CASE pc[w] = "idle"
    BY <1>2, <1>4, <2>1, <2>2 DEF Calls!Next, Calls!Call, Calls!Answer, Seen
  <2>3. CASE pc[w] # "idle"
    <3>1. Seen(w)' = Seen(w)
      BY <1>4, <2>3 DEF Seen
    <3>2. answer' = answer
      BY <1>1, <3>1
    <3>3. QED
      BY <2>1, <3>2 DEF Calls!callVars
  <2>4. QED
    BY <2>2, <2>3
<1>5. CASE /\ pc[w] \notin {"idle", "ok", "raised"} /\ pc'[w] \in {"renew", "lookup", "raised"}
           /\ \E got \in 0..1 : copies'[w] = copies[w] + got
  <2>1. (copies[w] > 0)' = TRUE \/ (copies[w] > 0)' = delivered[w]
    <3>1. PICK got \in 0..1 : copies'[w] = copies[w] + got
      BY <1>5
    <3>2. copies'[w] = copies[w] \/ copies'[w] = copies[w] + 1
      BY <1>3, <3>1
    <3>3. CASE copies'[w] = copies[w]
      BY <1>2, <3>3
    <3>4. CASE copies'[w] = copies[w] + 1
      <4>1. copies'[w] > 0
        BY <1>3, <3>4
      <4>2. QED
        BY <4>1
    <3>5. QED
      BY <3>2, <3>3, <3>4
  <2>2. CASE pc'[w] = "raised"
    BY <1>2, <1>5, <2>1, <2>2 DEF Calls!Next, Calls!Fail, Calls!Answer, Seen
  <2>3. CASE pc'[w] # "raised"
    <3>1. Seen(w)' = "pending" /\ Seen(w) = "pending"
      BY <1>5, <2>3 DEF Seen
    <3>2. answer' = answer
      BY <1>1, <3>1
    <3>3. CASE (copies[w] > 0)' = TRUE
      BY <1>2, <3>1, <3>2, <3>3 DEF Calls!Next, Calls!Reach
    <3>4. CASE (copies[w] > 0)' = delivered[w]
      <4>1. delivered' = delivered
        BY <1>1, <1>2, <3>4
      <4>2. QED
        BY <3>2, <4>1 DEF Calls!callVars
    <3>5. QED
      BY <2>1, <3>3, <3>4
  <2>4. QED
    BY <2>2, <2>3
<1>6. CASE pc[w] = "send" /\ pc'[w] = "ok" /\ copies'[w] = copies[w] + 1
  <2>1. (copies[w] > 0)' = TRUE
    BY <1>3, <1>6
  <2>2. QED
    BY <1>2, <1>6, <2>1 DEF Calls!Next, Calls!Confirm, Calls!Answer, Seen
<1>7. CASE pc[w] \in {"ok", "raised"} /\ pc'[w] = "idle" /\ copies'[w] = 0
  <2>1. (copies[w] > 0)' = FALSE
    BY <1>7
  <2>2. QED
    BY <1>2, <1>7, <2>1 DEF Calls!Next, Calls!Return, Seen
<1>8. QED
  BY <1>4, <1>5, <1>6, <1>7, WorkerMoves

(* A step of the driver is a step of DriverCall for one worker, or none at *)
(* all.                                                                    *)
LEMMA NextCalls == TypeOK /\ Shape /\ [Next]_vars => [Calls!Next]_(Calls!callVars)
<1> SUFFICES ASSUME TypeOK, Shape, [Next]_vars PROVE [Calls!Next]_(Calls!callVars)
  OBVIOUS
<1>1. CASE Restart
  <2>1. \A w \in Workers : pc'[w] = "idle" /\ copies'[w] = 0
    BY <1>1, MainIsApi, EwsAssumption DEF Restart, Threads
  <2>2. \A w \in Workers : Seen(w)' = "none" /\ (copies[w] > 0)' = FALSE
    BY <2>1 DEF Seen
  <2>3. QED
    BY <2>2 DEF Calls!Next, Calls!Die
<1>2. CASE ServerChanges \/ UNCHANGED vars
  BY <1>2 DEF ServerChanges, vars, threadVars, Calls!callVars, Seen
<1>3. CASE \E w \in Workers : Step(w)
  BY <1>3, WorkerCalls
<1>4. ASSUME NEW a \in Api, Step(a) PROVE UNCHANGED Calls!callVars
  <2>1. \A w \in Workers : w \in Threads \ {a}
    BY EwsAssumption DEF Threads
  <2>2. \A w \in Workers : pc'[w] = pc[w] /\ copies'[w] = copies[w]
    BY <1>4, <2>1, StepIsLocal DEF Untouched, Threads
  <2>3. QED
    BY <2>2 DEF Calls!callVars, Seen
<1>5. QED
  BY <1>1, <1>2, <1>3, <1>4, NextIsStep DEF Threads

(* The driver keeps the promise the queue's model makes of it: a call that *)
(* is answered delivered, one that raised may have, and nothing comes of a *)
(* call that has ended.                                                    *)
THEOREM Implementation == Spec => ImplementsDriverCall
<1>1. IInv => TypeOK /\ Shape
  BY DEF IInv
<1>2. QED
  BY <1>1, Invariance, InitCalls, NextCalls, PTL DEF Spec, ImplementsDriverCall, Calls!Spec

=============================================================================
