-------------------------------- MODULE Ops ---------------------------------
(***************************************************************************)
(* The two threads that write to the administrator on their own, and the   *)
(* forms that configure them: CapacityWatcher with the evaluation of the   *)
(* queue (src/msgate/ops/watcher.py, capacity.py, alert_mail.py),          *)
(* DigestScheduler with its markers (digest_scheduler.py, digest_state.py, *)
(* digest_mail.py), and the alert and digest forms of the account page     *)
(* (api/routes/ui.py, ops/alerts_config.py).                               *)
(*                                                                         *)
(* A step is one database session, one send, or the passing of time.  Time *)
(* is counted twice, in cooldowns and in hours, as the threads count it on *)
(* a monotonic clock and on the calendar.  The send is that of DriverCall: *)
(* one that raises may have delivered.                                     *)
(***************************************************************************)
EXTENDS Integers

CONSTANTS
    WarnPending, CriticalPending, WarnAge,  \* thresholds of the ops_alerts setting
    Stored,         \* bound: the setting when a behaviour begins
    Loads,          \* what a tick may find: pending, age of the oldest, breaker
    Cooldown,       \* alert_cooldown_seconds, in ticks of the monotonic clock
    Hours,          \* bound: hours of a day
    Weekdays,       \* bound: days of a week
    DigestHour,     \* digest_hour_utc
    DigestWeekday,  \* digest_weekday
    Activities,     \* bound: the threads and forms of a behaviour, a set of sets
    MaxFaults       \* bound: lost answers, raising steps and restarts

NoAge == -1     \* nothing is queued
Periods == {"daily", "weekly"}
Forms == {"alerts", "digests"}
Levels == {"ok", "warn", "critical"}

Settings == [admin_email : BOOLEAN, email_alerts : BOOLEAN, daily : BOOLEAN, weekly : BOOLEAN]

ASSUME OpsAssumption ==
    /\ WarnPending \in Nat /\ CriticalPending \in Nat /\ WarnAge \in Nat
    /\ Stored \subseteq Settings
    /\ \A x \in Loads : x.pending \in Nat /\ x.age \in Nat \cup {NoAge} /\ x.open \in BOOLEAN
    /\ Cooldown \in Nat \ {0} /\ MaxFaults \in Nat
    /\ Hours \in Nat \ {0} /\ DigestHour \in 0..Hours - 1
    /\ Weekdays \in Nat \ {0} /\ DigestWeekday \in 0..Weekdays - 1
    /\ Activities \subseteq SUBSET ({"watcher", "scheduler"} \cup Forms)

VARIABLES
    activity,   \* what this behaviour has
    ops,        \* the ops_alerts setting, as far as it decides anything here
    form,       \* per form: a request that has loaded the setting, or NoForm
    load,       \* the queue and the breaker, as a tick would find them
    backend,    \* whether Exchange is configured and answers
    watch,      \* the watcher's tick: step, its level, and its copy of the setting
    lastLevel,  \* _last_level
    since,      \* monotonic() - _last_email_at, up to Cooldown
    uptime,     \* monotonic(), up to Cooldown
    announced,  \* history: the level of the last capacity event
    mail,       \* history: the last alert that reached the administrator
    clock,      \* weekday and hour
    marks,      \* whether last_daily is today, and last_weekly this week
    tick,       \* the scheduler's tick: step, what is left of it, and which
                \* of its day and week are still the current ones
    delivered,  \* history: digests for this day, this week, that arrived
    doubtful,   \* history: those of them that left no marker
    faults

formVars == <<ops, form>>
watchVars == <<watch, lastLevel, since, announced, mail>>
digestVars == <<marks, tick, delivered, doubtful>>
vars == <<activity, formVars, load, backend, watchVars, uptime, clock, digestVars, faults>>

NoForm == [step |-> "none"]
NoWatch == [step |-> "idle", level |-> "ok", wanted |-> FALSE]
Current == [p \in Periods |-> TRUE]
NoTick == [step |-> "idle", left |-> {}, current |-> Current]
Nought == [p \in Periods |-> 0]

Fault == faults < MaxFaults /\ faults' = faults + 1
Least(m, n) == IF m <= n THEN m ELSE n

(* evaluate_capacity. *)
Level(x) ==
    LET aged(n) == x.age # NoAge /\ x.age >= n
    IN  CASE x.open \/ x.pending >= CriticalPending \/ aged(WarnAge * 3) -> "critical"
          [] OTHER -> IF x.pending >= WarnPending \/ aged(WarnAge) THEN "warn" ELSE "ok"

(* A host just started, with nothing to do: what came before is behind it. *)
Init ==
    /\ activity \in Activities
    /\ ops \in Stored
    /\ form = [f \in Forms |-> NoForm]
    /\ load \in {x \in Loads : Level(x) = "ok"}
    /\ backend = TRUE
    /\ watch = NoWatch
    /\ lastLevel = "ok"
    /\ since = 0
    /\ uptime = 0
    /\ announced = "ok"
    /\ mail = [no |-> 0, since |-> Cooldown, excused |-> FALSE]
    /\ clock = [weekday |-> 0, hour |-> 0]
    /\ marks = [p \in Periods |-> FALSE]
    /\ tick = NoTick
    /\ delivered = Nought
    /\ doubtful = Nought
    /\ faults = 0

-----------------------------------------------------------------------------
(* The forms.  Each loads the whole setting, changes its part and saves it. *)

Submitted(f, s, x, y) ==
    IF f = "alerts" THEN [s EXCEPT !.admin_email = x, !.email_alerts = y]
    ELSE [s EXCEPT !.daily = x, !.weekly = y]

Rest(f, s) == IF f = "alerts" THEN <<s.daily, s.weekly>> ELSE <<s.admin_email, s.email_alerts>>

(* Mutated FormLoad: the form starts from the defaults. *)
FormLoadDefaults(f) ==
    /\ f \in activity
    /\ form[f] = NoForm
    /\ \E x, y \in BOOLEAN :
        form' = [form EXCEPT ![f] =
            [step |-> "save", overtaken |-> FALSE,
             new |-> Submitted(f, [admin_email |-> FALSE, email_alerts |-> TRUE,
                                   daily |-> FALSE, weekly |-> FALSE], x, y)]]
    /\ UNCHANGED <<activity, ops, load, backend, watchVars, uptime, clock, digestVars, faults>>

FormLoad(f) ==
    /\ f \in activity
    /\ form[f] = NoForm
    /\ \E x, y \in BOOLEAN :
        form' = [form EXCEPT ![f] = [step |-> "save", overtaken |-> FALSE,
                                     new |-> Submitted(f, ops, x, y)]]
    /\ UNCHANGED <<activity, ops, load, backend, watchVars, uptime, clock, digestVars, faults>>

(* The row is selected once more and gets the whole setting of the form. *)
FormSave(f) ==
    /\ form[f] # NoForm
    /\ ops' = form[f].new
    /\ form' = [g \in Forms |->
                IF g = f THEN NoForm
                ELSE IF form[g] = NoForm THEN NoForm ELSE [form[g] EXCEPT !.overtaken = TRUE]]
    /\ UNCHANGED <<activity, load, backend, watchVars, uptime, clock, digestVars, faults>>

FormFails(f) ==
    /\ form[f] # NoForm
    /\ Fault
    /\ form' = [form EXCEPT ![f] = NoForm]
    /\ UNCHANGED <<activity, ops, load, backend, watchVars, uptime, clock, digestVars>>

-----------------------------------------------------------------------------
(* The capacity watcher.                                                   *)

(* One session: the setting, the queue, the breaker.  At level ok the tick is over. *)
Look ==
    /\ "watcher" \in activity
    /\ watch.step = "idle"
    /\ IF Level(load) = "ok"
       THEN lastLevel' = "ok" /\ UNCHANGED watch
       ELSE /\ watch' = [step |-> "event", level |-> Level(load),
                         wanted |-> ops.email_alerts /\ ops.admin_email]
            /\ UNCHANGED lastLevel
    /\ UNCHANGED <<activity, formVars, load, backend, since, announced, mail, uptime, clock,
                   digestVars, faults>>

(* Mutated Announce: the mail goes with the event. *)
AnnounceOnce ==
    /\ watch.step = "event"
    /\ announced' = IF watch.level # lastLevel THEN watch.level ELSE announced
    /\ IF watch.wanted /\ watch.level = "critical" /\ lastLevel # "critical" /\ since >= Cooldown
       THEN watch' = [watch EXCEPT !.step = "send"] /\ UNCHANGED lastLevel
       ELSE watch' = NoWatch /\ lastLevel' = watch.level
    /\ UNCHANGED <<activity, formVars, load, backend, since, mail, uptime, clock, digestVars, faults>>

(* The event when the level is another than at the last tick; then the mail, *)
(* when it is wanted and the last one long enough ago.                       *)
Announce ==
    /\ watch.step = "event"
    /\ announced' = IF watch.level # lastLevel THEN watch.level ELSE announced
    /\ IF watch.wanted /\ watch.level = "critical" /\ since >= Cooldown
       THEN watch' = [watch EXCEPT !.step = "send"] /\ UNCHANGED lastLevel
       ELSE watch' = NoWatch /\ lastLevel' = watch.level
    /\ UNCHANGED <<activity, formVars, load, backend, since, mail, uptime, clock, digestVars, faults>>

Reaches(excused) == mail' = [no |-> 1 - mail.no, since |-> 0, excused |-> excused]

(* Mutated AlertSent: the time of the alert is not kept. *)
AlertSentUntimed ==
    /\ watch.step = "send"
    /\ backend
    /\ Reaches(FALSE)
    /\ watch' = NoWatch
    /\ lastLevel' = watch.level
    /\ UNCHANGED <<activity, formVars, load, backend, since, announced, uptime, clock, digestVars, faults>>

AlertSent ==
    /\ watch.step = "send"
    /\ backend
    /\ Reaches(FALSE)
    /\ since' = 0
    /\ watch' = NoWatch
    /\ lastLevel' = watch.level
    /\ UNCHANGED <<activity, formVars, load, backend, announced, uptime, clock, digestVars, faults>>

(* Exchange is not configured or the send raised, be it after delivering. *)
AlertFails ==
    /\ watch.step = "send"
    /\ \/ ~backend /\ UNCHANGED <<mail, faults>>
       \/ Fault /\ UNCHANGED mail
       \/ Fault /\ Reaches(TRUE)
    /\ watch' = NoWatch
    /\ lastLevel' = watch.level
    /\ UNCHANGED <<activity, formVars, load, backend, since, announced, uptime, clock, digestVars>>

(* The tick raises: _run logs it and waits for the next. *)
WatchRaises ==
    /\ watch.step # "idle"
    /\ Fault
    /\ watch' = NoWatch
    /\ UNCHANGED <<activity, formVars, load, backend, lastLevel, since, announced, mail, uptime,
                   clock, digestVars>>

(* The monotonic clock. *)
Elapse ==
    /\ "watcher" \in activity
    /\ since' = Least(since + 1, Cooldown)
    /\ uptime' = Least(uptime + 1, Cooldown)
    /\ mail' = [mail EXCEPT !.since = Least(@ + 1, Cooldown)]
    /\ UNCHANGED <<activity, formVars, load, backend, watch, lastLevel, announced, clock,
                   digestVars, faults>>

-----------------------------------------------------------------------------
(* The digest scheduler.                                                   *)

(* Mutated Due: the markers are not looked at. *)
DueAgain(p) ==
    /\ clock.hour >= DigestHour
    /\ p = "daily" => ops.daily
    /\ p = "weekly" => ops.weekly /\ clock.weekday = DigestWeekday

(* _daily_due and _weekly_due. *)
Due(p) ==
    /\ clock.hour >= DigestHour
    /\ ~marks[p]
    /\ p = "daily" => ops.daily
    /\ p = "weekly" => ops.weekly /\ clock.weekday = DigestWeekday

DuePeriods == {p \in Periods : Due(p)}

(* The setting, the markers and the time are read once for the whole tick. *)
StartTick ==
    /\ "scheduler" \in activity
    /\ tick.step = "idle"
    /\ ops.admin_email
    /\ DuePeriods # {}
    /\ tick' = [step |-> "send", left |-> DuePeriods, current |-> Current]
    /\ UNCHANGED <<activity, formVars, load, backend, watchVars, uptime, clock, marks, delivered,
                   doubtful, faults>>

Period == IF "daily" \in tick.left THEN "daily" ELSE "weekly"
Counted(history) == [history EXCEPT ![Period] = IF tick.current[Period] THEN @ + 1 ELSE @]

(* The weekly digest comes after the daily one. *)
Proceed ==
    tick' = IF tick.left = {Period} THEN NoTick
            ELSE [tick EXCEPT !.step = "send", !.left = @ \ {Period}]

DigestSent ==
    /\ tick.step = "send"
    /\ backend
    /\ delivered' = Counted(delivered)
    /\ tick' = [tick EXCEPT !.step = "mark"]
    /\ UNCHANGED <<activity, formVars, load, backend, watchVars, uptime, clock, marks, doubtful, faults>>

(* A digest that failed stays due, be it that it was delivered. *)
DigestFails ==
    /\ tick.step = "send"
    /\ \/ ~backend /\ UNCHANGED <<delivered, doubtful, faults>>
       \/ Fault /\ UNCHANGED <<delivered, doubtful>>
       \/ Fault /\ delivered' = Counted(delivered) /\ doubtful' = Counted(doubtful)
    /\ Proceed
    /\ UNCHANGED <<activity, formVars, load, backend, watchVars, uptime, clock, marks>>

(* Mutated Mark: the marker is that of the moment it is saved. *)
MarkNow ==
    /\ tick.step = "mark"
    /\ marks' = [marks EXCEPT ![Period] = TRUE]
    /\ Proceed
    /\ UNCHANGED <<activity, formVars, load, backend, watchVars, uptime, clock, delivered,
                   doubtful, faults>>

(* The markers are loaded again and saved with the day or the week of the tick. *)
Mark ==
    /\ tick.step = "mark"
    /\ marks' = [marks EXCEPT ![Period] = tick.current[Period]]
    /\ Proceed
    /\ UNCHANGED <<activity, formVars, load, backend, watchVars, uptime, clock, delivered,
                   doubtful, faults>>

Unmarked == IF tick.step = "mark" THEN Counted(doubtful) ELSE doubtful

(* The report or the markers raise: the tick is over, the weekly digest with it. *)
TickRaises ==
    /\ tick.step # "idle"
    /\ Fault
    /\ tick' = NoTick
    /\ doubtful' = Unmarked
    /\ UNCHANGED <<activity, formVars, load, backend, watchVars, uptime, clock, marks, delivered>>

(* The calendar; at midnight, and at the end of the week, markers and ticks *)
(* are of the day and the week before.                                      *)
NextHour ==
    LET midnight == clock.hour = Hours - 1
        monday == midnight /\ clock.weekday = Weekdays - 1
        Past(f, v) == [p \in Periods |->
            IF (p = "daily" /\ midnight) \/ (p = "weekly" /\ monday) THEN v ELSE f[p]]
    IN  /\ "scheduler" \in activity
        /\ clock' = [weekday |-> IF monday THEN 0 ELSE IF midnight THEN clock.weekday + 1
                                 ELSE clock.weekday,
                     hour |-> IF midnight THEN 0 ELSE clock.hour + 1]
        /\ marks' = Past(marks, FALSE)
        /\ tick' = IF tick.step = "idle" THEN NoTick
                   ELSE [tick EXCEPT !.current = Past(@, FALSE)]
        /\ delivered' = Past(delivered, 0)
        /\ doubtful' = Past(doubtful, 0)
        /\ UNCHANGED <<activity, formVars, load, backend, watchVars, uptime, faults>>

-----------------------------------------------------------------------------
(* Around the threads.                                                     *)

LoadChanges ==
    /\ "watcher" \in activity
    /\ load' \in Loads \ {load}
    /\ UNCHANGED <<activity, formVars, backend, watchVars, uptime, clock, digestVars, faults>>

BackendChanges ==
    /\ activity \ Forms # {}
    /\ backend' = ~backend
    /\ UNCHANGED <<activity, formVars, load, watchVars, uptime, clock, digestVars, faults>>

(* The process starts again, on a host that may have been started again:   *)
(* _last_email_at is 0 on a clock that counts from the start of the host.  *)
Restart ==
    /\ Fault
    /\ uptime' \in {uptime, 0}
    /\ since' = uptime'
    /\ watch' = NoWatch
    /\ lastLevel' = "ok"
    /\ announced' = "ok"
    /\ mail' = [mail EXCEPT !.excused = TRUE]
    /\ tick' = NoTick
    /\ doubtful' = Unmarked
    /\ form' = [f \in Forms |-> NoForm]
    /\ UNCHANGED <<activity, ops, load, backend, clock, marks, delivered>>

-----------------------------------------------------------------------------
Watcher == Look \/ Announce \/ AlertSent \/ AlertFails \/ WatchRaises
Scheduler == StartTick \/ DigestSent \/ DigestFails \/ Mark \/ TickRaises

Next ==
    \/ Watcher \/ Scheduler
    \/ \E f \in Forms : FormLoad(f) \/ FormSave(f) \/ FormFails(f)
    \/ Elapse \/ NextHour
    \/ LoadChanges \/ BackendChanges \/ Restart

Spec == Init /\ [][Next]_vars

(* The thread of the watcher runs, a send ends, and time passes. *)
FairSpec == Spec /\ WF_vars(Watcher) /\ WF_vars(Elapse)

-----------------------------------------------------------------------------
(* Every variable has its type. *)
TypeOK ==
    /\ activity \in Activities
    /\ ops \in Settings
    /\ form \in [Forms -> {NoForm} \cup [step : {"save"}, overtaken : BOOLEAN,
                                         new : Settings]]
    /\ load \in Loads /\ backend \in BOOLEAN
    /\ watch \in [step : {"idle", "event", "send"}, level : Levels, wanted : BOOLEAN]
    /\ lastLevel \in Levels /\ announced \in Levels
    /\ since \in 0..Cooldown /\ uptime \in 0..Cooldown
    /\ mail \in [no : 0..1, since : 0..Cooldown, excused : BOOLEAN]
    /\ clock \in [weekday : 0..Weekdays - 1, hour : 0..Hours - 1]
    /\ marks \in [Periods -> BOOLEAN]
    /\ tick \in [step : {"idle", "send", "mark"}, left : SUBSET Periods,
                 current : [Periods -> BOOLEAN]]
    /\ delivered \in [Periods -> 0..MaxFaults + 1] /\ doubtful \in [Periods -> 0..MaxFaults]
    /\ faults \in 0..MaxFaults

(* The digests that reach the administrator for a day or a week are the    *)
(* one its marker stands for, and those whose send raised after delivering *)
(* or whose marker was not saved; a tick that runs past midnight neither   *)
(* hides the digest of the new day nor repeats the old one.                *)
DigestsExplained ==
    \A p \in Periods :
        LET marked == marks[p] \/ (tick.step = "mark" /\ Period = p /\ tick.current[p])
        IN  delivered[p] = doubtful[p] + (IF marked THEN 1 ELSE 0)

(* Two alerts reach the administrator within the cooldown only if the send *)
(* of the first raised all the same or the process started in between.     *)
AlertsSpaced == [][mail'.no # mail.no => mail.since = Cooldown \/ mail.excused]_vars

(* A form leaves the settings of the other one alone, unless that one was  *)
(* saved between its load and its save.                                    *)
FormsKept ==
    [][\A f \in Forms :
        form[f] # NoForm /\ form'[f] = NoForm /\ ~form[f].overtaken
            => Rest(f, ops') = Rest(f, ops)]_vars

Wanted == ops.admin_email /\ ops.email_alerts

(* While the load stays critical, Exchange answers and alerts are wanted,  *)
(* the administrator is told again and again: neither the first alert,     *)
(* held back on a host just started, nor a failed one is the last; and the *)
(* dashboards have been told so.                                           *)
AlertsRecur ==
    "watcher" \in activity /\ <>[](Level(load) = "critical" /\ backend /\ Wanted)
        => (\A n \in 0..1 : []<>(mail.no = n)) /\ <>[](announced = "critical")

=============================================================================
