------------------------------ MODULE OpsProofs ------------------------------
(* What Ops promises, for every threshold, cooldown, calendar and set of   *)
(* activities.  Forms, watcher and scheduler share little more than the    *)
(* setting and the count of faults, so the inductive invariant falls into  *)
(* three parts, each inductive by itself.                                  *)
EXTENDS Ops, TLAPS

Requests == [step : {"save"}, overtaken : BOOLEAN, new : Settings]

(* What a form that nobody overtook will save differs from the setting in  *)
(* its own part only.                                                      *)
FormsOK ==
    /\ activity \in Activities
    /\ ops \in Settings
    /\ form \in [Forms -> {NoForm} \cup Requests]
    /\ \A f \in Forms :
        form[f] # NoForm /\ ~form[f].overtaken => Rest(f, form[f].new) = Rest(f, ops)

(* The watcher sends only when its own clock says the cooldown is over,    *)
(* and that clock is behind the true one only where a mail is excused.     *)
WatchOK ==
    /\ load \in Loads /\ backend \in BOOLEAN
    /\ watch \in [step : {"idle", "event", "send"}, level : Levels, wanted : BOOLEAN]
    /\ lastLevel \in Levels /\ announced \in Levels
    /\ since \in 0..Cooldown /\ uptime \in 0..Cooldown
    /\ mail \in [no : 0..1, since : 0..Cooldown, excused : BOOLEAN]
    /\ watch.step = "send" => since = Cooldown
    /\ mail.since >= since \/ mail.excused

(* What a tick still has to send is not marked yet; every digest without a *)
(* marker cost a fault.                                                    *)
DigestsOK ==
    /\ faults \in 0..MaxFaults
    /\ clock \in [weekday : 0..Weekdays - 1, hour : 0..Hours - 1]
    /\ marks \in [Periods -> BOOLEAN]
    /\ tick \in [step : {"idle", "send", "mark"}, left : SUBSET Periods,
                 current : [Periods -> BOOLEAN]]
    /\ tick.step # "idle" => tick.left # {} /\ \A p \in tick.left : ~marks[p]
    /\ delivered \in [Periods -> Nat]
    /\ doubtful \in [Periods -> Nat]
    /\ \A p \in Periods : doubtful[p] <= faults
    /\ DigestsExplained

IInv == FormsOK /\ WatchOK /\ DigestsOK


-----------------------------------------------------------------------------
(* The initial state satisfies the invariant, whatever was stored.         *)
LEMMA InitEstablishes == Init => IInv
<1> SUFFICES ASSUME Init PROVE IInv
  OBVIOUS
<1>1. FormsOK
  BY OpsAssumption DEF Init, FormsOK
<1>2. WatchOK
  BY OpsAssumption DEF Init, WatchOK, NoWatch, Levels
<1>3. DigestsOK
  <2>1. /\ clock \in [weekday : 0..Weekdays - 1, hour : 0..Hours - 1]
        /\ faults \in 0..MaxFaults /\ marks \in [Periods -> BOOLEAN]
    BY OpsAssumption DEF Init
  <2>2. /\ tick \in [step : {"idle", "send", "mark"}, left : SUBSET Periods, current : [Periods -> BOOLEAN]]
        /\ tick.step = "idle"
    BY DEF Init, NoTick, Current
  <2>3. \A p \in Periods : delivered[p] = 0 /\ doubtful[p] = 0 /\ ~marks[p] /\ faults = 0
    BY DEF Init, Nought
  <2>4. delivered \in [Periods -> Nat] /\ doubtful \in [Periods -> Nat]
    BY DEF Init, Nought
  <2>5. QED
    BY <2>1, <2>2, <2>3, <2>4 DEF DigestsOK, DigestsExplained
<1>4. QED
  BY <1>1, <1>2, <1>3 DEF IInv

-----------------------------------------------------------------------------
(* The forms.                                                              *)

(* What a form submits differs from what it was filled with in its own     *)
(* part only.                                                              *)
LEMMA SubmittedIsOwn ==
  ASSUME NEW f \in Forms, NEW s \in Settings, NEW x \in BOOLEAN, NEW y \in BOOLEAN
  PROVE  Submitted(f, s, x, y) \in Settings /\ Rest(f, Submitted(f, s, x, y)) = Rest(f, s)
  BY DEF Settings, Submitted, Rest

(* A form that loads takes the other one's part as it is.                  *)
LEMMA LoadKeeps ==
  ASSUME FormsOK, NEW f \in Forms, FormLoad(f)
  PROVE  FormsOK'
<1>1. PICK x \in BOOLEAN, y \in BOOLEAN :
        form' = [form EXCEPT ![f] = [step |-> "save", overtaken |-> FALSE,
                                     new |-> Submitted(f, ops, x, y)]]
  BY DEF FormLoad
<1>2. Submitted(f, ops, x, y) \in Settings /\ Rest(f, Submitted(f, ops, x, y)) = Rest(f, ops)
  BY SubmittedIsOwn DEF FormsOK
<1>3. UNCHANGED <<activity, ops>>
  BY DEF FormLoad
<1>4. form' \in [Forms -> {NoForm} \cup Requests]
  BY <1>1, <1>2 DEF FormsOK, Requests
<1>5. \A g \in Forms :
        form'[g] # NoForm /\ ~form'[g].overtaken => Rest(g, form'[g].new) = Rest(g, ops)
  BY <1>1, <1>2 DEF FormsOK
<1>6. QED
  BY <1>3, <1>4, <1>5 DEF FormsOK, Rest

(* A form that saves overtakes the other one, which still waits.           *)
LEMMA SaveKeeps ==
  ASSUME FormsOK, NEW f \in Forms, FormSave(f)
  PROVE  /\ FormsOK'
         /\ \A g \in Forms \ {f} : form[g] # NoForm => form'[g] # NoForm
<1>1. /\ form' = [g \in Forms |->
                IF g = f THEN NoForm
                ELSE IF form[g] = NoForm THEN NoForm ELSE [form[g] EXCEPT !.overtaken = TRUE]]
      /\ form[f] \in Requests /\ activity' = activity
      /\ ops' = form[f].new
  BY DEF FormSave, FormsOK
<1>2. ops' \in Settings
  BY <1>1 DEF FormsOK, Requests
<1>3. ASSUME NEW g \in Forms, form[g] # NoForm, g # f
      PROVE  form'[g] \in Requests /\ form'[g].overtaken
  BY <1>1, <1>3 DEF FormsOK, Requests
<1>4. \A g \in Forms : form'[g] # NoForm => form[g] # NoForm /\ g # f
  BY <1>1
<1>5. form' \in [Forms -> {NoForm} \cup Requests]
  <2>1. \A g \in Forms : form'[g] \in {NoForm} \cup Requests
    BY <1>1, <1>3, <1>4
  <2>2. QED
    BY <1>1, <2>1
<1>6. \A g \in Forms :
        form'[g] # NoForm /\ ~form'[g].overtaken => Rest(g, form'[g].new) = Rest(g, ops')
  BY <1>3, <1>4
<1>7. FormsOK'
  BY <1>1, <1>2, <1>5, <1>6 DEF FormsOK, Rest
<1>8. \A r \in Requests : r # NoForm
  BY DEF Requests, NoForm
<1>9. QED
  BY <1>3, <1>7, <1>8

(* Nothing else touches the setting, and it only ends requests. *)
LEMMA OthersDrop ==
  ASSUME FormsOK, Next, ~\E f \in Forms : FormLoad(f) \/ FormSave(f)
  PROVE  /\ UNCHANGED <<activity, ops>>
         /\ \/ form' = form
            \/ \E f \in Forms : form' = [form EXCEPT ![f] = NoForm]
            \/ form' = [f \in Forms |-> NoForm]
<1>1. CASE Watcher
  BY <1>1 DEF Watcher, Look, Announce, AlertSent, AlertFails, WatchRaises, formVars
<1>2. CASE Scheduler
  BY <1>2 DEF Scheduler, StartTick, DigestSent, DigestFails, Mark, TickRaises, formVars
<1>3. CASE \E f \in Forms : FormFails(f)
  BY <1>3 DEF FormFails
<1>4. CASE Elapse \/ NextHour \/ LoadChanges \/ BackendChanges \/ Restart
  BY <1>4 DEF Elapse, NextHour, LoadChanges, BackendChanges, Restart, formVars
<1>5. QED
  BY <1>1, <1>2, <1>3, <1>4 DEF Next

(* No step makes a form forget that it was overtaken.                      *)
LEMMA FormsStep == FormsOK /\ [Next]_vars => FormsOK'
<1> SUFFICES ASSUME FormsOK, [Next]_vars PROVE FormsOK'
  OBVIOUS
<1>1. CASE \E f \in Forms : FormLoad(f) \/ FormSave(f)
  BY <1>1, LoadKeeps, SaveKeeps
<1>2. CASE Next /\ ~\E f \in Forms : FormLoad(f) \/ FormSave(f)
  <2>1. UNCHANGED <<activity, ops>> /\ form' \in [Forms -> {NoForm} \cup Requests]
    BY <1>2, OthersDrop DEF FormsOK
  <2>2. \A f \in Forms : form'[f] # NoForm => form'[f] = form[f]
    BY <1>2, OthersDrop DEF FormsOK
  <2>3. QED
    BY <2>1, <2>2 DEF FormsOK, Rest
<1>3. CASE UNCHANGED vars
  BY <1>3 DEF vars, formVars, FormsOK, Rest
<1>4. QED
  BY <1>1, <1>2, <1>3

(* A form that nobody overtook leaves the rest of the setting as it was.   *)
LEMMA FormsKeep ==
  ASSUME FormsOK, [Next]_vars,
         NEW f \in Forms, form[f] # NoForm, form'[f] = NoForm, ~form[f].overtaken
  PROVE  Rest(f, ops') = Rest(f, ops)
<1>1. CASE FormSave(f)
  <2>1. Rest(f, form[f].new) = Rest(f, ops)
    BY DEF FormsOK
  <2>2. QED
    BY <1>1, <2>1 DEF FormSave
<1>2. ASSUME NEW g \in Forms \ {f}, FormSave(g)
      PROVE  FALSE
  BY <1>2, SaveKeeps
<1>3. ASSUME NEW g \in Forms, FormLoad(g)
      PROVE  ops' = ops
  BY <1>3 DEF FormLoad
<1>4. CASE UNCHANGED vars
  BY <1>4 DEF vars, formVars
<1>5. QED
  BY <1>1, <1>2, <1>3, <1>4, OthersDrop

-----------------------------------------------------------------------------
(* The watcher.                                                            *)

(* evaluate_capacity answers with a level.                                 *)
LEMMA LevelIsLevel == Level(load) \in Levels
  BY DEF Level, Levels

(* A capped clock goes on, stops at the cap, and keeps two clocks in       *)
(* order.                                                                  *)
LEMMA LeastIsBelow ==
  ASSUME NEW n \in 0..Cooldown
  PROVE  /\ Least(n + 1, Cooldown) \in 0..Cooldown /\ Least(n + 1, Cooldown) >= n
         /\ n = Cooldown => Least(n + 1, Cooldown) = Cooldown
         /\ \A k \in 0..Cooldown : k <= n => Least(k + 1, Cooldown) <= Least(n + 1, Cooldown)
  BY OpsAssumption DEF Least

(* A tick that ends knows its level. *)
Ended == watch' = NoWatch /\ lastLevel' \in Levels /\ announced' \in Levels

(* A tick that ends keeps the clocks in order, whether a mail went out,    *)
(* was lost, or went out and raised.                                       *)
LEMMA EndedKeeps ==
  ASSUME WatchOK, Ended, UNCHANGED <<load, backend, uptime>>,
         \/ UNCHANGED <<since, mail>>
         \/ mail' = [no |-> 1 - mail.no, since |-> 0, excused |-> FALSE] /\ since' = 0
         \/ mail' = [no |-> 1 - mail.no, since |-> 0, excused |-> TRUE] /\ since' = since
  PROVE  WatchOK'
<1>1. watch' \in [step : {"idle", "event", "send"}, level : Levels, wanted : BOOLEAN]
      /\ watch'.step = "idle"
  BY DEF Ended, NoWatch, Levels
<1>2. /\ mail' \in [no : 0..1, since : 0..Cooldown, excused : BOOLEAN]
      /\ since' \in 0..Cooldown
      /\ mail'.since >= since' \/ mail'.excused
  <2>1. Cooldown \in Nat /\ mail.no \in 0..1 /\ 1 - mail.no \in 0..1 /\ 0 \in 0..Cooldown
    BY OpsAssumption DEF WatchOK
  <2>2. CASE UNCHANGED <<since, mail>>
    BY <2>2 DEF WatchOK
  <2>3. ASSUME NEW e \in BOOLEAN, mail' = [no |-> 1 - mail.no, since |-> 0, excused |-> e]
        PROVE  mail' \in [no : 0..1, since : 0..Cooldown, excused : BOOLEAN]
               /\ mail'.since = 0 /\ mail'.excused = e
    BY <2>1, <2>3
  <2>4. CASE mail' = [no |-> 1 - mail.no, since |-> 0, excused |-> FALSE] /\ since' = 0
    BY <2>1, <2>3, <2>4
  <2>5. CASE mail' = [no |-> 1 - mail.no, since |-> 0, excused |-> TRUE] /\ since' = since
    BY <2>3, <2>5 DEF WatchOK
  <2>6. QED
    BY <2>2, <2>4, <2>5
<1>3. QED
  BY <1>1, <1>2 DEF WatchOK, Ended

(* No step of the watcher forgets a mail it sent.                          *)
LEMMA WatcherKeeps == WatchOK /\ Watcher => WatchOK'
<1> SUFFICES ASSUME WatchOK, Watcher PROVE WatchOK'
  OBVIOUS
<1>1. /\ Cooldown \in Nat /\ watch.level \in Levels /\ lastLevel \in Levels /\ announced \in Levels
      /\ watch.wanted \in BOOLEAN /\ since \in 0..Cooldown
  BY OpsAssumption DEF WatchOK
<1>2. CASE Look
  <2>1. UNCHANGED <<load, backend, since, announced, mail, uptime>>
    BY <1>2 DEF Look
  <2>2. CASE Level(load) = "ok"
    BY <1>2, <2>1, <2>2 DEF Look, WatchOK, Levels
  <2>3. CASE Level(load) # "ok"
    <3>1. (ops.email_alerts /\ ops.admin_email) \in BOOLEAN
      OBVIOUS
    <3>2. /\ watch' = [step |-> "event", level |-> Level(load),
                       wanted |-> ops.email_alerts /\ ops.admin_email]
          /\ lastLevel' = lastLevel
      BY <1>2, <2>3 DEF Look
    <3>3. /\ watch' \in [step : {"idle", "event", "send"}, level : Levels, wanted : BOOLEAN]
          /\ watch'.step = "event"
      BY <3>1, <3>2, LevelIsLevel
    <3>4. QED
      BY <2>1, <3>2, <3>3 DEF WatchOK
  <2>4. QED
    BY <2>2, <2>3
<1>3. CASE Announce
  <2>1. UNCHANGED <<load, backend, since, mail, uptime>> /\ announced' \in Levels
    BY <1>1, <1>3 DEF Announce
  <2>2. CASE watch' = NoWatch /\ lastLevel' = watch.level
    BY <1>1, <2>1, <2>2, EndedKeeps DEF Ended
  <2>3. CASE watch' = [watch EXCEPT !.step = "send"] /\ lastLevel' = lastLevel /\ since >= Cooldown
    <3>1. watch' \in [step : {"idle", "event", "send"}, level : Levels, wanted : BOOLEAN]
      BY <2>3 DEF WatchOK
    <3>2. since = Cooldown
      BY <1>1, <2>3
    <3>3. QED
      BY <2>1, <2>3, <3>1, <3>2 DEF WatchOK
  <2>4. QED
    BY <1>3, <2>2, <2>3 DEF Announce
<1>4. CASE AlertSent
  BY <1>1, <1>4, EndedKeeps DEF AlertSent, Reaches, Ended
<1>5. CASE AlertFails
  BY <1>1, <1>5, EndedKeeps DEF AlertFails, Reaches, Ended
<1>6. CASE WatchRaises
  BY <1>1, <1>6, EndedKeeps DEF WatchRaises, Ended
<1>7. QED
  BY <1>2, <1>3, <1>4, <1>5, <1>6 DEF Watcher

(* Nor does any other step.                                                *)
LEMMA WatchStep == WatchOK /\ [Next]_vars => WatchOK'
<1> SUFFICES ASSUME WatchOK, [Next]_vars PROVE WatchOK'
  OBVIOUS
<1>1. CASE Watcher
  BY <1>1, WatcherKeeps
<1>2. CASE Elapse
  <2>1. /\ since' = Least(since + 1, Cooldown) /\ uptime' = Least(uptime + 1, Cooldown)
        /\ mail' = [mail EXCEPT !.since = Least(mail.since + 1, Cooldown)]
        /\ UNCHANGED <<load, backend, watch, lastLevel, announced>>
    BY <1>2 DEF Elapse
  <2>2. since \in 0..Cooldown /\ mail.since \in 0..Cooldown /\ uptime \in 0..Cooldown
    BY DEF WatchOK
  <2>3. mail' \in [no : 0..1, since : 0..Cooldown, excused : BOOLEAN]
        /\ mail'.since = Least(mail.since + 1, Cooldown) /\ mail'.excused = mail.excused
    BY <2>1, <2>2, LeastIsBelow DEF WatchOK
  <2>4. watch'.step = "send" => since' = Cooldown
    BY <2>1, <2>2, LeastIsBelow DEF WatchOK
  <2>5. mail'.since >= since' \/ mail'.excused
    <3>1. CASE mail.excused
      BY <2>3, <3>1
    <3>2. CASE mail.since >= since
      <4>1. since <= mail.since
        BY <2>2, <3>2
      <4>2. since' <= mail'.since
        BY <2>1, <2>2, <2>3, <4>1, LeastIsBelow
      <4>3. mail'.since \in 0..Cooldown /\ since' \in 0..Cooldown
        BY <2>1, <2>2, <2>3, LeastIsBelow
      <4>4. QED
        BY <4>2, <4>3, OpsAssumption
    <3>3. QED
      BY <3>1, <3>2 DEF WatchOK
  <2>6. since' \in 0..Cooldown /\ uptime' \in 0..Cooldown
    BY <2>1, <2>2, LeastIsBelow
  <2>7. QED
    BY <2>1, <2>3, <2>4, <2>5, <2>6 DEF WatchOK
<1>3. CASE LoadChanges \/ BackendChanges
  BY <1>3 DEF LoadChanges, BackendChanges, watchVars, WatchOK
<1>4. CASE Restart
  <2>1. uptime' \in 0..Cooldown
    BY <1>4, OpsAssumption DEF Restart, WatchOK
  <2>2. QED
    BY <1>4, <2>1 DEF Restart, WatchOK, NoWatch, Levels
<1>5. CASE UNCHANGED <<load, backend, watchVars, uptime>>
  BY <1>5 DEF watchVars, WatchOK
<1>6. CASE Scheduler \/ NextHour
  BY <1>5, <1>6 DEF Scheduler, StartTick, DigestSent, DigestFails, Mark, TickRaises, NextHour
<1>7. CASE \E f \in Forms : FormLoad(f) \/ FormSave(f) \/ FormFails(f)
  BY <1>5, <1>7 DEF FormLoad, FormSave, FormFails
<1>8. CASE UNCHANGED vars
  BY <1>5, <1>8 DEF vars
<1>9. QED
  BY <1>1, <1>2, <1>3, <1>4, <1>6, <1>7, <1>8 DEF Next

(* An alert that goes out comes a cooldown after the last one, or that one *)
(* is excused.                                                             *)
LEMMA AlertsApart ==
  ASSUME WatchOK, [Next]_vars, mail'.no # mail.no
  PROVE  mail.since = Cooldown \/ mail.excused
<1>1. CASE watch.step = "send"
  BY <1>1, OpsAssumption DEF WatchOK
<1>2. CASE watch.step # "send"
  <2>1. CASE Watcher
    BY <1>2, <2>1 DEF Watcher, Look, Announce, AlertSent, AlertFails, WatchRaises
  <2>2. CASE Elapse \/ Restart
    <3>1. mail'.no = mail.no
      BY <2>2 DEF Elapse, Restart, WatchOK
    <3>2. QED
      BY <3>1
  <2>3. CASE Scheduler \/ NextHour \/ LoadChanges \/ BackendChanges
    BY <2>3 DEF Scheduler, StartTick, DigestSent, DigestFails, Mark, TickRaises, NextHour,
       LoadChanges, BackendChanges, watchVars
  <2>4. CASE \E f \in Forms : FormLoad(f) \/ FormSave(f) \/ FormFails(f)
    BY <2>4 DEF FormLoad, FormSave, FormFails, watchVars
  <2>5. QED
    BY <2>1, <2>2, <2>3, <2>4 DEF Next, vars, watchVars
<1>3. QED
  BY <1>1, <1>2


-----------------------------------------------------------------------------
(* The scheduler.                                                          *)

(* A tick under way has a period left, which is not marked.                *)
LEMMA PeriodIsLeft ==
  ASSUME DigestsOK, tick.step # "idle"
  PROVE  Period \in Periods /\ Period \in tick.left /\ ~marks[Period] /\ tick.current[Period] \in BOOLEAN
<1>1. tick.left # {} /\ tick.left \subseteq Periods /\ tick.current \in [Periods -> BOOLEAN]
  BY DEF DigestsOK
<1>2. Period \in tick.left
  BY <1>1 DEF Period, Periods
<1>3. QED
  BY <1>1, <1>2 DEF DigestsOK

(* Counting a digest, for a tick that is in the day or week it began in. *)
LEMMA CountedAdds ==
  ASSUME DigestsOK, tick.step # "idle", NEW h \in [Periods -> Nat]
  PROVE  /\ Counted(h) \in [Periods -> Nat]
         /\ \A p \in Periods \ {Period} : Counted(h)[p] = h[p]
         /\ Counted(h)[Period] = IF tick.current[Period] THEN h[Period] + 1 ELSE h[Period]
  BY PeriodIsLeft DEF Counted

(* What is left of a tick stays due. *)
LEMMA ProceedKeeps ==
  ASSUME DigestsOK, tick.step # "idle", Proceed
  PROVE  /\ tick' \in [step : {"idle", "send", "mark"}, left : SUBSET Periods, current : [Periods -> BOOLEAN]]
         /\ tick'.step \in {"idle", "send"}
         /\ tick'.step # "idle" => tick'.left # {} /\ tick'.left = tick.left \ {Period}
<1>1. CASE tick.left = {Period}
  BY <1>1 DEF Proceed, NoTick, Current
<1>2. CASE tick.left # {Period}
  <2>1. tick' = [tick EXCEPT !.step = "send", !.left = @ \ {Period}]
    BY <1>2 DEF Proceed
  <2>2. tick.left \ {Period} # {}
    BY <1>2, PeriodIsLeft
  <2>3. QED
    BY <2>1, <2>2 DEF DigestsOK
<1>3. QED
  BY <1>1, <1>2

(* What DigestsExplained says of one period. *)
Marked(p) == marks[p] \/ (tick.step = "mark" /\ Period = p /\ tick.current[p])

(* DigestsExplained, with the marker that is about to be written.          *)
LEMMA ExplainedByMarks ==
  DigestsExplained <=>
    \A p \in Periods : delivered[p] = doubtful[p] + (IF Marked(p) THEN 1 ELSE 0)
  BY DEF DigestsExplained, Marked

(* The same after a step.                                                  *)
LEMMA ExplainedByMarksNext ==
  DigestsExplained' <=>
    \A p \in Periods : delivered'[p] = doubtful'[p] + (IF Marked(p)' THEN 1 ELSE 0)
  BY DEF DigestsExplained, Marked

(* A fault is one of those allowed, and counted.                           *)
LEMMA FaultCounts ==
  ASSUME faults \in 0..MaxFaults, Fault
  PROVE  faults' \in 0..MaxFaults /\ faults' = faults + 1
  BY OpsAssumption DEF Fault

(* A tick cut short leaves the digest it had sent without its marker. *)
LEMMA CutShortKeeps ==
  ASSUME DigestsOK, Fault, tick' = NoTick, doubtful' = Unmarked,
         UNCHANGED <<clock, marks, delivered>>
  PROVE  DigestsOK'
<1>1. /\ faults \in 0..MaxFaults /\ faults \in Nat
      /\ delivered \in [Periods -> Nat] /\ doubtful \in [Periods -> Nat]
      /\ \A p \in Periods : doubtful[p] <= faults
      /\ \A p \in Periods : delivered[p] = doubtful[p] + (IF Marked(p) THEN 1 ELSE 0)
  BY ExplainedByMarks, OpsAssumption DEF DigestsOK
<1>2. faults' \in 0..MaxFaults /\ faults' = faults + 1
  BY <1>1, FaultCounts
<1>3. /\ tick' \in [step : {"idle", "send", "mark"}, left : SUBSET Periods, current : [Periods -> BOOLEAN]]
      /\ tick'.step = "idle"
  BY DEF NoTick, Current
<1>4. \A p \in Periods : Marked(p)' <=> marks[p]
  BY <1>3 DEF Marked
<1>5. CASE tick.step = "mark"
  <2>1. doubtful' = Counted(doubtful) /\ ~marks[Period] /\ Period \in Periods
    BY <1>5, PeriodIsLeft DEF Unmarked
  <2>2. /\ doubtful' \in [Periods -> Nat]
        /\ \A p \in Periods \ {Period} : doubtful'[p] = doubtful[p]
        /\ doubtful'[Period] = IF tick.current[Period] THEN doubtful[Period] + 1 ELSE doubtful[Period]
    BY <1>1, <1>5, <2>1, CountedAdds
  <2>3. \A p \in Periods : Marked(p) <=> marks[p] \/ (Period = p /\ tick.current[p])
    BY <1>5 DEF Marked
  <2>4. \A p \in Periods : delivered'[p] = doubtful'[p] + (IF Marked(p)' THEN 1 ELSE 0)
    BY <1>1, <1>4, <2>1, <2>2, <2>3
  <2>5. \A p \in Periods : doubtful'[p] <= faults'
    BY <1>1, <1>2, <2>2
  <2>6. QED
    BY <1>2, <1>3, <2>2, <2>4, <2>5, ExplainedByMarksNext DEF DigestsOK
<1>6. CASE tick.step # "mark"
  <2>1. doubtful' = doubtful /\ \A p \in Periods : Marked(p) <=> marks[p]
    BY <1>6 DEF Unmarked, Marked
  <2>2. DigestsExplained'
    BY <1>1, <1>4, <2>1, ExplainedByMarksNext
  <2>3. \A p \in Periods : doubtful'[p] <= faults'
    BY <1>1, <1>2, <2>1
  <2>4. QED
    BY <1>1, <1>2, <1>3, <2>1, <2>2, <2>3 DEF DigestsOK
<1>7. QED
  BY <1>5, <1>6

(* Every step of a tick keeps the count of digests explained.              *)
LEMMA SchedulerKeeps == DigestsOK /\ Scheduler => DigestsOK'
<1> SUFFICES ASSUME DigestsOK, Scheduler PROVE DigestsOK'
  OBVIOUS
<1>1. /\ faults \in 0..MaxFaults /\ faults \in Nat /\ marks \in [Periods -> BOOLEAN]
      /\ delivered \in [Periods -> Nat] /\ doubtful \in [Periods -> Nat]
      /\ \A p \in Periods : doubtful[p] <= faults
      /\ \A p \in Periods : delivered[p] = doubtful[p] + (IF Marked(p) THEN 1 ELSE 0)
  BY ExplainedByMarks, OpsAssumption DEF DigestsOK
<1>2. UNCHANGED clock
  BY DEF Scheduler, StartTick, DigestSent, DigestFails, Mark, TickRaises
<1>3. CASE StartTick
  <2>1. UNCHANGED <<marks, delivered, doubtful, faults>> /\ tick.step = "idle"
        /\ tick' = [step |-> "send", left |-> DuePeriods, current |-> Current] /\ DuePeriods # {}
    BY <1>3 DEF StartTick
  <2>2. /\ tick' \in [step : {"idle", "send", "mark"}, left : SUBSET Periods, current : [Periods -> BOOLEAN]]
        /\ tick'.left # {} /\ \A p \in tick'.left : ~marks'[p]
        /\ tick'.step = "send"
    BY <2>1 DEF DuePeriods, Due, Current
  <2>3. \A p \in Periods : Marked(p)' = Marked(p)
    BY <2>1, <2>2 DEF Marked
  <2>4. DigestsExplained'
    BY <1>1, <2>1, <2>3, ExplainedByMarksNext
  <2>5. QED
    BY <1>2, <2>1, <2>2, <2>4 DEF DigestsOK
<1>4. CASE DigestSent
  <2>1. UNCHANGED <<marks, doubtful, faults>> /\ tick.step = "send"
        /\ tick' = [tick EXCEPT !.step = "mark"] /\ delivered' = Counted(delivered)
    BY <1>4 DEF DigestSent
  <2>2. /\ tick' \in [step : {"idle", "send", "mark"}, left : SUBSET Periods, current : [Periods -> BOOLEAN]]
        /\ tick'.step = "mark" /\ tick'.left = tick.left /\ tick'.current = tick.current /\ Period' = Period
    BY <2>1 DEF DigestsOK, Period
  <2>3. \A p \in Periods : Marked(p)' <=> marks[p] \/ (Period = p /\ tick.current[p])
    BY <2>1, <2>2 DEF Marked
  <2>4. \A p \in Periods : Marked(p) <=> marks[p]
    BY <2>1 DEF Marked
  <2>5. DigestsExplained'
    BY <1>1, <2>1, <2>3, <2>4, CountedAdds, PeriodIsLeft, ExplainedByMarksNext
  <2>6. delivered' \in [Periods -> Nat]
    BY <1>1, <2>1, CountedAdds
  <2>7. tick'.left # {} /\ \A p \in tick'.left : ~marks'[p]
    BY <2>1, <2>2 DEF DigestsOK
  <2>8. QED
    BY <1>1, <1>2, <2>1, <2>2, <2>5, <2>6, <2>7 DEF DigestsOK
<1>5. CASE DigestFails
  <2>1. UNCHANGED marks /\ tick.step = "send" /\ Proceed
    BY <1>5 DEF DigestFails
  <2>2. tick' \in [step : {"idle", "send", "mark"}, left : SUBSET Periods, current : [Periods -> BOOLEAN]]
        /\ tick'.step \in {"idle", "send"}
        /\ (tick'.step # "idle" => tick'.left # {} /\ \A p \in tick'.left : ~marks'[p])
    BY <2>1, ProceedKeeps DEF DigestsOK
  <2>3. \A p \in Periods : (Marked(p)' <=> marks[p]) /\ (Marked(p) <=> marks[p])
    BY <2>1, <2>2 DEF Marked
  <2>4. CASE UNCHANGED <<delivered, doubtful>>
    <3>1. faults' \in 0..MaxFaults /\ faults' >= faults
      BY <1>1, <1>5, OpsAssumption DEF DigestFails, Fault
    <3>2. DigestsExplained'
      BY <1>1, <2>3, <2>4, ExplainedByMarksNext
    <3>3. \A p \in Periods : doubtful'[p] <= faults'
      BY <1>1, <2>4, <3>1
    <3>4. QED
      BY <1>1, <1>2, <2>1, <2>2, <2>4, <3>1, <3>2, <3>3 DEF DigestsOK
  <2>5. CASE Fault /\ delivered' = Counted(delivered) /\ doubtful' = Counted(doubtful)
    <3>1. faults' \in 0..MaxFaults /\ faults' = faults + 1
      BY <1>1, <2>5, FaultCounts
    <3>2. DigestsExplained'
      BY <1>1, <2>1, <2>3, <2>5, CountedAdds, PeriodIsLeft, ExplainedByMarksNext
    <3>3. \A p \in Periods : doubtful'[p] <= faults'
      BY <1>1, <2>1, <2>5, <3>1, CountedAdds
    <3>4. delivered' \in [Periods -> Nat] /\ doubtful' \in [Periods -> Nat]
      BY <1>1, <2>1, <2>5, CountedAdds
    <3>5. QED
      BY <1>1, <1>2, <2>1, <2>2, <3>1, <3>2, <3>3, <3>4 DEF DigestsOK
  <2>6. QED
    BY <1>5, <2>4, <2>5 DEF DigestFails
<1>6. CASE Mark
  <2>1. UNCHANGED <<delivered, doubtful, faults>> /\ tick.step = "mark" /\ Proceed
        /\ marks' = [marks EXCEPT ![Period] = tick.current[Period]]
    BY <1>6 DEF Mark
  <2>2. marks' \in [Periods -> BOOLEAN] /\ (\A p \in Periods \ {Period} : marks'[p] = marks[p])
        /\ marks'[Period] = tick.current[Period]
    BY <1>1, <2>1, PeriodIsLeft
  <2>3. tick' \in [step : {"idle", "send", "mark"}, left : SUBSET Periods, current : [Periods -> BOOLEAN]]
        /\ tick'.step \in {"idle", "send"}
        /\ (tick'.step # "idle" => tick'.left # {} /\ \A p \in tick'.left : ~marks'[p])
    BY <2>1, <2>2, ProceedKeeps DEF DigestsOK
  <2>4. \A p \in Periods : Marked(p)' <=> Marked(p)
    BY <2>1, <2>2, <2>3, PeriodIsLeft DEF Marked
  <2>5. DigestsExplained'
    BY <1>1, <2>1, <2>4, ExplainedByMarksNext
  <2>6. QED
    BY <1>1, <1>2, <2>1, <2>2, <2>3, <2>5 DEF DigestsOK
<1>7. CASE TickRaises
  BY <1>7, CutShortKeeps DEF TickRaises
<1>8. QED
  BY <1>3, <1>4, <1>5, <1>6, <1>7 DEF Scheduler


(* At midnight, and at the end of the week, the counts start again. *)
LEMMA NextHourKeeps == DigestsOK /\ NextHour => DigestsOK'
<1> SUFFICES ASSUME DigestsOK, NextHour PROVE DigestsOK'
  OBVIOUS
<1> DEFINE midnight == clock.hour = Hours - 1
           monday == midnight /\ clock.weekday = Weekdays - 1
           Over(p) == (p = "daily" /\ midnight) \/ (p = "weekly" /\ monday)
<1>1. /\ clock' = [weekday |-> IF monday THEN 0 ELSE IF midnight THEN clock.weekday + 1 ELSE clock.weekday,
                   hour |-> IF midnight THEN 0 ELSE clock.hour + 1]
      /\ marks' = [p \in Periods |-> IF Over(p) THEN FALSE ELSE marks[p]]
      /\ tick' = IF tick.step = "idle" THEN NoTick
                 ELSE [tick EXCEPT !.current = [p \in Periods |-> IF Over(p) THEN FALSE ELSE tick.current[p]]]
      /\ delivered' = [p \in Periods |-> IF Over(p) THEN 0 ELSE delivered[p]]
      /\ doubtful' = [p \in Periods |-> IF Over(p) THEN 0 ELSE doubtful[p]]
      /\ faults' = faults
  BY DEF NextHour
<1>2. clock' \in [weekday : 0..Weekdays - 1, hour : 0..Hours - 1]
  <2>1. /\ clock.weekday \in 0..Weekdays - 1 /\ clock.hour \in 0..Hours - 1
        /\ Hours \in Nat \ {0} /\ Weekdays \in Nat \ {0}
    BY OpsAssumption DEF DigestsOK
  <2>2. QED
    BY <1>1, <2>1
<1>3. /\ marks' \in [Periods -> BOOLEAN] /\ delivered' \in [Periods -> Nat] /\ doubtful' \in [Periods -> Nat]
      /\ faults' \in 0..MaxFaults
  BY <1>1 DEF DigestsOK
<1>4. /\ tick' \in [step : {"idle", "send", "mark"}, left : SUBSET Periods, current : [Periods -> BOOLEAN]]
      /\ tick'.step = tick.step
      /\ tick.step # "idle" => /\ tick'.left = tick.left
                               /\ \A p \in Periods : tick'.current[p] <=> ~Over(p) /\ tick.current[p]
  <2>1. CASE tick.step = "idle"
    BY <1>1, <2>1 DEF NoTick, Current
  <2>2. CASE tick.step # "idle"
    <3> DEFINE c == [p \in Periods |-> IF Over(p) THEN FALSE ELSE tick.current[p]]
    <3>1. c \in [Periods -> BOOLEAN] /\ \A p \in Periods : c[p] <=> ~Over(p) /\ tick.current[p]
      BY DEF DigestsOK
    <3>2. tick' = [tick EXCEPT !.current = c]
      BY <1>1, <2>2
    <3> HIDE DEF c
    <3>3. /\ tick' \in [step : {"idle", "send", "mark"}, left : SUBSET Periods, current : [Periods -> BOOLEAN]]
          /\ tick'.step = tick.step /\ tick'.left = tick.left /\ tick'.current = c
      BY <3>1, <3>2 DEF DigestsOK
    <3>4. QED
      BY <3>1, <3>3
  <2>3. QED
    BY <2>1, <2>2
<1>5. \A p \in Periods : ~Over(p) => marks'[p] = marks[p] /\ delivered'[p] = delivered[p] /\ doubtful'[p] = doubtful[p]
  BY <1>1
<1>6. \A p \in Periods : Over(p) => ~marks'[p] /\ delivered'[p] = 0 /\ doubtful'[p] = 0
  BY <1>1
<1> HIDE DEF Over
<1>7. \A p \in Periods : Marked(p)' <=> ~Over(p) /\ Marked(p)
  <2>1. tick.step = "mark" => Period' = Period
    BY <1>4 DEF Period
  <2>2. QED
    BY <1>4, <1>5, <1>6, <2>1 DEF Marked
<1>8. DigestsExplained'
  <2>1. \A p \in Periods : delivered[p] = doubtful[p] + (IF Marked(p) THEN 1 ELSE 0)
    BY ExplainedByMarks DEF DigestsOK
  <2>2. \A p \in Periods : delivered'[p] = doubtful'[p] + (IF Marked(p)' THEN 1 ELSE 0)
    BY <1>5, <1>6, <1>7, <2>1
  <2>3. QED
    BY <2>2, ExplainedByMarksNext
<1>9. tick'.step # "idle" => tick'.left # {} /\ \A p \in tick'.left : ~marks'[p]
  BY <1>4, <1>5, <1>6 DEF DigestsOK
<1>10. \A p \in Periods : doubtful'[p] <= faults'
  BY <1>1, <1>5, <1>6, OpsAssumption DEF DigestsOK
<1>11. QED
  BY <1>2, <1>3, <1>4, <1>8, <1>9, <1>10 DEF DigestsOK

(* So does every step of the system.                                       *)
LEMMA DigestsStep == DigestsOK /\ [Next]_vars => DigestsOK'
<1> SUFFICES ASSUME DigestsOK, [Next]_vars PROVE DigestsOK'
  OBVIOUS
<1>1. ASSUME UNCHANGED <<clock, digestVars>>, faults' = faults \/ Fault
      PROVE  DigestsOK'
  <2>1. faults' \in 0..MaxFaults /\ faults' >= faults
    BY <1>1, OpsAssumption DEF Fault, DigestsOK
  <2>2. DigestsExplained'
    BY <1>1 DEF digestVars, DigestsOK, DigestsExplained, Period
  <2>3. \A p \in Periods : doubtful'[p] <= faults'
    BY <1>1, <2>1, OpsAssumption DEF digestVars, DigestsOK
  <2>4. QED
    BY <1>1, <2>1, <2>2, <2>3 DEF digestVars, DigestsOK
<1>2. CASE Watcher
  <2>1. CASE Look \/ Announce \/ AlertSent
    BY <1>1, <2>1 DEF Look, Announce, AlertSent
  <2>2. CASE AlertFails
    BY <1>1, <2>2 DEF AlertFails
  <2>3. CASE WatchRaises
    BY <1>1, <2>3 DEF WatchRaises
  <2>4. QED
    BY <1>2, <2>1, <2>2, <2>3 DEF Watcher
<1>3. CASE \E f \in Forms : FormLoad(f) \/ FormSave(f) \/ FormFails(f)
  BY <1>1, <1>3 DEF FormLoad, FormSave, FormFails
<1>4. CASE Elapse \/ LoadChanges \/ BackendChanges
  BY <1>1, <1>4 DEF Elapse, LoadChanges, BackendChanges
<1>5. CASE Restart
  BY <1>5, CutShortKeeps DEF Restart
<1>6. CASE UNCHANGED vars
  BY <1>1, <1>6 DEF vars
<1>7. QED
  BY <1>2, <1>3, <1>4, <1>5, <1>6, SchedulerKeeps, NextHourKeeps DEF Next

-----------------------------------------------------------------------------
(* The theorems.                                                           *)

(* The invariant holds in every state: forms, watcher and scheduler        *)
(* interfere with each other, and with starts and faults, only as far as   *)
(* it says.                                                                *)
THEOREM Invariance == Spec => []IInv
<1>1. IInv /\ [Next]_vars => IInv'
  BY FormsStep, WatchStep, DigestsStep DEF IInv
<1>2. QED
  BY <1>1, InitEstablishes, PTL DEF Spec

(* TypeOK: in particular the counts of digests and of faults stay within   *)
(* their ranges.                                                           *)
THEOREM TypeCorrect == Spec => []TypeOK
<1>1. IInv => TypeOK
  <2> SUFFICES ASSUME IInv PROVE TypeOK
    OBVIOUS
  <2>1. \A p \in Periods : doubtful[p] \in 0..MaxFaults /\ delivered[p] \in 0..MaxFaults + 1
    BY OpsAssumption, ExplainedByMarks DEF IInv, DigestsOK
  <2>2. delivered \in [Periods -> 0..MaxFaults + 1] /\ doubtful \in [Periods -> 0..MaxFaults]
    BY <2>1 DEF IInv, DigestsOK
  <2>3. QED
    BY <2>2 DEF IInv, FormsOK, WatchOK, DigestsOK, TypeOK, Requests
<1>2. QED
  BY <1>1, Invariance, PTL

(* DigestsExplained: a day or a week gets its digest once, and again only  *)
(* for an answer that was lost or a marker that was not saved, whatever    *)
(* the hour the tick of DigestScheduler ran past.                          *)
THEOREM DigestsAreExplained == Spec => []DigestsExplained
<1>1. IInv => DigestsExplained
  BY DEF IInv, DigestsOK
<1>2. QED
  BY <1>1, Invariance, PTL

(* AlertsSpaced: CapacityWatcher keeps its alerts a cooldown apart, for    *)
(* every cooldown, but for a send that raised after delivering or a start. *)
THEOREM AlertsAreSpaced == Spec => AlertsSpaced
<1>1. IInv /\ [Next]_vars => [mail'.no # mail.no => mail.since = Cooldown \/ mail.excused]_vars
  BY AlertsApart DEF IInv
<1>2. QED
  BY <1>1, Invariance, PTL DEF Spec, AlertsSpaced

(* FormsKept: a form of the account page writes back the other form's part *)
(* of the setting as it is, unless that one was saved in between.          *)
THEOREM FormsAreKept == Spec => FormsKept
<1>1. IInv /\ [Next]_vars => [\A f \in Forms :
          form[f] # NoForm /\ form'[f] = NoForm /\ ~form[f].overtaken => Rest(f, ops') = Rest(f, ops)]_vars
  BY FormsKeep DEF IInv
<1>2. QED
  BY <1>1, Invariance, PTL DEF Spec, FormsKept

=============================================================================
