# Verification of msgate

msgate is a relay: devices hand it mail over SMTP, it keeps the mail in a
database and worker threads deliver it to Exchange through EWS. This directory
holds TLA+ models of its parts, TLC configurations that check them on small
instances, and proofs, checked by TLAPS, of what holds for every value of the
constants. Paths below are relative to `src/msgate/`.

## Inventory

| Component | State | Operations | Hard behaviour | Correct when |
| --- | --- | --- | --- | --- |
| Message store (`queue/repository.py`) | rows: status, attempts, next_retry_at | insert, select due, claim, mark sent / retry / failed, count | select and update are two statements, several workers | one worker per row, attempts bounded, final states final |
| Circuit breaker (`queue/circuit_breaker.py`) | failures, state, opened_at | allow, state, record success / failure | lazy half-open, late outcomes | closed exactly below the threshold, a cooldown and a probe after opening |
| Queue service (`queue/service.py`) | none of its own | backpressure check, accept, API submit | check and insert apart, API unchecked | backlog bounded, accepted mail persisted before workers are woken |
| Workers (`queue/worker.py`, `queue/processor.py`) | position in the loop, row in hand, wake and stop events | drain, claim, send, record, wait, stop | races, retries, exceptions, death of the process | every accepted message ends sent or failed, no needless copy |
| SMTP front end (`smtp/`) | logins per peer address, default domain | login, DATA | sessions from one address, rejections, saves and failures during DATA | accepted mail is stored, once, with the credentials of its own session |
| EWS driver (`drivers/ews.py`, `ews/`) | accounts per thread, exchangelib's sessions per server | send, probe TLS again, fail over | repeated sends within an attempt | an attempt delivers once, failover only after a failure |
| TLS negotiation (`tls/`) | cache of profiles, process-wide adapter | negotiate, apply, invalidate | several threads, one adapter | what a thread installs is for its own server, a second try installs nothing kept from before |
| Event hub (`events/hub.py`, `api/routes/ws.py`) | history, subscribers and their queues | publish from any thread, subscribe with replay, unsubscribe | replay against publish, full queues | an open socket misses nothing, a new one sees the history |
| Configuration (`config/`, `api/routes/config.py`) | running copy, stored copy | load, merge, replace, save | concurrent requests, failed save | both copies agree when no request is running |
| Capacity watcher (`ops/watcher.py`, `ops/capacity.py`, `ops/alert_mail.py`) | last level, time of last mail | tick | clocks, failing mail | one alert per cooldown, none lost for good |
| Digests (`ops/digest_scheduler.py`) | marker of the last digest | tick, manual send | mail before marker, restart | one digest per period |
| Alert and digest settings (`api/routes/ui.py`) | one stored record | two forms that load, change, save | concurrent forms | neither form undoes the other |
| Administrator and sessions (`auth/`, `api/routes/auth_ui.py`, `cli/admin.py`) | admin row, session cookies | set up, log in, change, log out, reset on the host | two first visits, answers out of order, partial updates | one administrator, the cookie follows the last sign-in or sign-out |

The parts meet in few places: the SMTP thread and the API threads insert rows
and set the wake event; workers read rows, call the driver and tell the
breaker; the SMTP thread reads the breaker and the row count to push back;
everyone publishes to the hub; the operator's requests replace the
configuration the workers read. `PROJECT.json` lists every component with its
status, and every hazard with the line where it bites.

## Modules

| Module | Models |
| --- | --- |
| `CircuitBreaker` | the breaker; also a specification of its own in which any thread calls any method at any time |
| `MessageStore` | the table and one operator per committed statement |
| `MailQueue` | extends both: producers, workers, wake and stop events, sends with any outcome, raising steps, crash and restart |
| `Delivery` | the abstract promise made to whoever hands over a message |
| `MCMailQueue` | TLC instances: symmetry and views |
| `SmtpSession`, `MCSmtpSession` | the SMTP dialogue of several devices down to the stored row, with saves of the configuration |
| `EventHub`, `MCEventHub` | publishing threads, subscribing and leaving sockets |
| `EwsDelivery`, `MCEwsDelivery` | one driver call from inside: failover, second try, TLS cache, adapter, kept sessions |
| `DriverCall` | the abstract driver call that the one-step send of `MailQueue` stands for |
| `Console`, `MCConsole` | the administrator, the session cookie, the running and the stored configuration |
| `Ops`, `MCOps` | the capacity watcher, the digest scheduler and the forms that configure them |
| `CircuitBreakerProofs`, `MailQueueProofs` | theorems about the breaker and the queue, and the refinement of `Delivery` |
| `MailQueueBounds` | theorems about what the queue counts and about its wake-ups |
| `EwsDeliveryProofs` | theorems about the driver call, and the refinement of `DriverCall` |
| `SmtpSessionProofs`, `EventHubProofs`, `ConsoleProofs`, `OpsProofs` | theorems about the module of that name |

### The queue

A step of `MailQueue` is what one thread does between two points where another
thread can act: a committed statement, a call under the breaker's lock, the
network call, an operation on an event. `pc[w]` follows `QueueWorker._run` and
`_drain`:

    admit -> select -> claim -> prepare -> sending -> confirmed -> recorded -> refresh
                         sending | recorded -> retriable | permanent -> refresh
          refresh -> succeeded | faulted -> admit             (one message)
    admit | select | claim -> idle -> waiting -> woken -> admit  (nothing to do)

- `Admit` is the stop test and `circuit.allow()`. Leaving `_drain` goes straight
  back in after work, otherwise to the wait (`LeaveDrain`).
- `Select` and `ClaimWon`/`ClaimLost` are the two statements of `claim_next`.
- `NotConfigured`, `StartSend`, `SendOk`, `SendRaises` are `process_row` up to the
  driver's answer. A send that raises may have delivered: `ambiguous` counts
  those, `copies` all that arrived. Which errors are retriable is left open.
- `RecordSent`, `RecordRetry`, `RecordFailed` are the `mark_*` commits, with the
  attempt limit and the backoff.
- After `mark_sent` is committed, and still inside the `try`, a log line reads the
  expired row back and `publish_sync` runs: `ReportSent`. When one of them raises
  (`ReportRaises`) the `except` clause takes it for a failed send, and `RecordRetry` or
  `RecordFailed` overwrites the sent row; `undone` counts this.
- `Refresh` re-reads the row, as it may be by then, and `TellSuccess` and
  `TellFailure` report to the breaker.
- `StartWait`, `PollTimeout`, `ClearWake` are `wake.wait` and `wake.clear`; `SetWake`
  keeps the flag up and releases the threads waiting at that moment.
- `Escape` is an exception out of any of these steps but the send and the report,
  whose exceptions `process_row` catches: `_run` logs it, what was committed stays.
- `Crash` is the death of the process at any point (also a stop that did not wait
  for a worker) with the restart by the service manager.

Time is relative: `delay[m]` is what is left until `next_retry_at`, `age` what has
passed since the breaker opened. `Tick` moves both. Events published to the hub
are left out: publishing changes nothing the queue reads. Mail is numbered in the
order of `created_at`. A driver call is one step, so `copies` counts attempts
that delivered, not the sends within one attempt; that a call may be taken so is
what `EwsDelivery` shows.

`copies`, `ambiguous`, `undone`, `overrun`, `faults` and `crashes` are history: no
guard but the bounds reads them.

### The SMTP front end

`SmtpSession` refines the producer "smtp" of `MailQueue` in another direction: not
when a row becomes visible to workers, but whose credentials it carries and what
its client was told. All connections are served by one event loop and `handle_DATA`
never awaits, so while `hand` holds a DATA command no other SMTP step is taken
(`LoopFree`); only a request of the API (`Save`) and a restart come in between.

- `LogIn` is `SmtpAuthenticator.__call__`: the credentials of the address, with
  the domain read when the controller was created.
- `Denied`, `NotConfigured`, `Deferred`, `NoCredentials`, `Choose` are the branches
  of `handle_DATA` in their order, each with the guards of those before it;
  `BackpressureRaises` is the one call outside the `try`.
- `InsertRow` is the commit in `insert_message`, `Accepted` the answer. `InsertRaises`
  and `AcceptRaises` are exceptions before and after the commit, both answered 451.

Why pressure is applied is left to `MailQueue`: `Deferred` is always possible. A
device offers its mail again after a 4xx answer or none, as SMTP clients do.
An address is on the allowlist or not and a user name has a domain or not; the
parsing of both is left out. Saves are those of the running copy; the stored one
is assumed to agree at a restart.

### The event hub

In `EventHub` `publish_sync` appends to the history, lists the subscribers, then takes
each queue in turn and discards the full ones. `put_nowait` is two steps, `TestRoom`
and `PutEvent`: an `asyncio.Queue` is made for one thread, publishers hold no lock, and
others put between the test and the put, so a queue may exceed its `maxsize`. The
discards count as one step. `put[s]` is all that was ever put for socket `s` and
`taken[s]` what it sent of it; the history is the last `HistorySize` of the events
published. A subscription takes the asyncio lock, registers, and replays event by
event: `FetchEvent` is a step of the iterator, `FindRoom` (`RetestRoom` after a wait)
the test `Queue.put` makes before its `put_nowait`, which tests once more and then puts
(`ReplayEvent`) or, when publishers have filled the queue between the two tests, raises
(`ReplayRefused`). If the history changed, the next step of the iterator raises
(`ReplayBroken`). Either way the lock is released and the socket ends without
`unsubscribe`. The login check of the socket, its keepalive, and how late a waiting
reader notices a put from another thread are left out.

### The driver call

`EwsDelivery` opens the step `sending` of `MailQueue`. `DriverCall` says what the
queue assumes of it: `ok` means the mail got to Exchange during the call, `raised`
leaves that open, and nothing is delivered for a call that has ended.

    lookup -> probe -> store -> apply -> account -> send -> ok        (a try)
    any of them raises -> renew -> probe -> ... (stage "forced")      (the second try)
                       -> lookup ... at "failover"                    (EwsDriver.send)
                       -> raised

- `LookupHit`, `LookupMiss`, `Store`, `Renew` are `get_cached`, `put_cached` and
  `invalidate`, each under the lock of `tls/cache.py`, on memory and file.
  `ProbeFinds` walks the ladder, whose earlier rungs may fail for any reason.
- `Apply` sets `BaseProtocol.HTTP_ADAPTER_CLS`, one class attribute for all threads.
- `TakeAccount` is the rest of `build_account`. `pool[s]` is the session exchangelib keeps
  to server `s`, for the whole process and whatever account asks: only when there is
  none does a new account open one, with whatever adapter is installed by then. The
  accounts of each thread have no session of their own and are left out.
- `Raise` is any exception: `LooksTls` is the heuristic of `is_tls_failure`, then
  `TryAgain` (`send_mime`), `FailOver` (`EwsDriver.send`) or `GiveUp`.
- `StartCheck` and `StartSave` are the same code called from the API: the health
  check, and `put_config`, which swallows what it raises (`Replace`). `Main` is the
  `prepare_ews_tls` of `_cmd_serve`, before which no worker runs.

What exchangelib does is outside: a message goes through the session kept for its
server or one opened with the adapter of the moment (`Works`), and any request may
end the kept session and open another (`MayReopen`). One session a server stands for
the few of a pool. A handshake succeeds when the server offers the profile and its
certificate is verifiable or not verified. All mail is sent under one login.

The code shows some things no property forbids. Nothing in it ends a session that
exchangelib keeps, so a second try may send through the one the first try had, under
its profile, and a saved change of trust reaches the wire only with the next session
(`OwnAdapter` excepts it). What another thread had probed before a renewal it may
store after it, and a second try then uses that (`SecondTryIsFresh` allows for it).
The text "no working TLS profile" contains "tls",
so a failed negotiation is itself tried again; so does the name of the cache file.
A send that delivered and then raised something with "ssl" or "tls" in it is
repeated at once (`CopiesExplained` counts it). A modern rung that failed once for
a passing reason leaves a legacy profile in the cache.

### The console

`Console` has one step per database statement or locked operation, and the arrival
and the answer of requests, several of a browser at a time.

- `Arrive` is `SessionMiddleware` and `AuthMiddleware` up to the handler; `Answer` is
  `save_session`: every response sets the cookie, to the session its request
  came with unless the handler signed in or out (`rules`).
- A set-up or a change is `CheckRow`, then `LoadRow` after the slow hash, then
  `WriteRow`. SQLAlchemy writes only columns that differ from what was loaded, so an
  update that loaded `must_change_password` as it wants it leaves it as it is by
  then (`Writes`); an INSERT that finds a row fails. `ResetLoad` and `ResetWrite` are
  the command line, another process.
- `PutRead`, `PutReplace`, `Save` are `put_config`; `Import` replaces at once. `SaveFails`
  leaves the running configuration ahead.

`tangled`, `overtaken`, `raced` and `unsaved` are history: they mark the races the
properties except, each of which the code lets happen. After a reset by root a browser
that was signed in keeps its full session, and nobody there has to change the password;
`CookieFollows` says nothing of that. A browser that has signed
out is signed in again when a request that was under way is answered late; two
first visitors both become the administrator's last writer; a change that races
with a reset may keep the forced change; of two overlapping saves one may run
and the other be stored.

### Watcher, digests and forms

`Ops` counts time twice: `since` and `uptime` on the monotonic clock, in units of
which the cooldown has `Cooldown`, and `clock` on the calendar, with `Hours` a day and
`Weekdays` a week. `Look` is the session of a watcher's tick with `Level`
(`evaluate_capacity`), `Announce` the event and the decision to mail, `AlertSent` and
`AlertFails` the mail. `StartTick` reads settings, markers and time of a scheduler's
tick once; `DigestSent`, `DigestFails` and `Mark` follow for each period. A marker is
kept as "today's" or "this week's", so `NextHour` turns markers and the tick in
progress into yesterday's. `FormLoad` and `FormSave` are the two halves of a form; the second selects
the row once more and writes the whole setting over it. Digest hour and weekday are constants; what a form submits is the
switches and whether there is an address. One request of each form is under way at
a time. Sends answer as in `DriverCall`.

Left out: the text of alerts, the report and its window, the PDF, and `send_manual`,
which changes no state. `_last_email_at` is 0 at start on a clock that counts from
the start of the host, so on a fresh host the first alert waits for a cooldown:
`AlertsRecur` says it is not lost. A weekly digest whose weekday passes while
Exchange is down is not sent that week.

### What the properties say

| Property | Says |
| --- | --- |
| `ExclusiveClaim` | a row in a worker's hands is marked processing and in nobody else's |
| `AttemptsBounded` | a row that may be claimed again has an attempt left |
| `CopiesExplained` | copies at Exchange = ambiguous attempts, plus deliveries taken back because their report raised (at most one per raised step), plus one once sent; races and crashes add none |
| `FinalStates` | nothing changes a failed row; a sent one is reopened only by the worker that recorded it, when its report raised, and keeps its attempts |
| `StrandedExplained` | a row processing in nobody's hands is the trace of a raised step or a crash, so there is none after a clean run or a graceful stop |
| `OverrunBounded` | after the breaker opened at most one claim per other worker follows |
| `PendingBounded` | with SMTP only, waiting and held rows exceed the limit by at most one per worker |
| `NoMissedWake` | no accepted message depends on the poll interval for its first attempt |
| `ImplementsDelivery` | the queue implements `Delivery` under the mapping `Stage` |
| `EventuallyResolved` | every accepted message ends sent or failed, unless the service is stopped |
| `StopCompletes` | after `stop()` every worker leaves its loop |
| `CredentialsMatch` | user name and password of a row come from one login or one configuration |
| `SoleDeviceKeepsLogin` | mail of a device alone at its address never goes out under another device's login |
| `StoredAsTold` | a mail answered 250 is stored, and stored again only after a failure between commit and answer, or a restart |
| `OverrunBounded` (`EventHub`) | a queue exceeds its size by at most one event per publishing thread |
| `NothingMissed` | an open subscribed socket misses nothing of the history at its start or since |
| `TwiceOnlyAcrossReplay` | an event comes twice only if it was in the replayed history, never more often |
| `ClosedIsGone` | a closed socket leaves no queue with the hub |
| `LockReleased` | a replay gives the hub's lock back |
| `CopiesExplained` (`EwsDelivery`) | copies of one call = sends that raised after delivering, plus the one answered; at most two tries a server |
| `OwnAdapter` | a session that a thread opened under the adapter it had installed itself is for the server it talks to and trusts it as configured, whoever uses it |
| `SecondTryIsFresh` | the adapter a second try installs has a profile probed since its renewal, or one another thread had probed and not yet stored; never one the cache had kept |
| `ImplementsDriverCall` | the driver implements `DriverCall` |
| `CallsEnd` | every call of a worker ends |
| `CookieFollows` | a browser has the session it last signed in or out to, but for answers to requests under way then |
| `AdminExplained` | a change is forced exactly when root or the environment chose the password; a set-up never replaces an administrator, but for two at once |
| `CopiesAgree` | what runs is what a restart would find, but between replace and save, after a failed save, after overlapping saves |
| `MaskedKeepsSecret` | a masked or blank password leaves the running one as it is |
| `AlertsSpaced` | alerts come a cooldown apart, but after a send that raised or a restart |
| `AlertsRecur` | while the load stays critical the administrator is told again and again, and the dashboards once |
| `DigestsExplained` | digests of a day or week = its marker, plus those whose send raised or whose marker was not saved |
| `FormsKept` | a form leaves the settings of the other alone, unless that one was saved in between |
| `ClosedBelowThreshold`, `HalfOpenDecides` | the breaker's state against its count; one outcome ends the half-open phase |

## Runs

| Run | Instance | Shows |
| --- | --- | --- |
| `queue_races` | 3 workers, 2 messages, 3 attempts, threshold 2 | claims, attempts and the breaker under races |
| `queue_faults` | 2 workers, 2 messages, a raised step, a crash | copies, stranded rows, final states, refinement |
| `queue_limit` | 2 workers, 4 messages, limit 1 | how far the backlog can pass the limit |
| `queue_live` | 2 workers, SMTP and an API thread, 2 messages, stop at any time, fair | wake-ups, every message resolved, the workers leave |
| `smtp_sessions` | 3 devices, 2 at one address, 4 configurations, 2 saves, a fault | credentials, what is stored against what was answered |
| `hub_fanout` | 2 publishers, 2 sockets, 2 events or with one socket 3, history 1, queue 1, fair | what sockets receive, full and overfull queues included, and the hub's lock |
| `ews_delivery` | 1 worker, 1 API thread, 2 servers, 2 profiles, health checks together with a change of server, a fault or a restart, or a save without checks, fair | copies and answer of a call, whose TLS settings it uses, that it ends, refinement |
| `console` | 2 browsers, 2 requests at once, root's command; 2 servers and 2 passwords | cookie, administrator, running and stored configuration |
| `ops` | 4 loads, a cooldown of 2, days of 3 hours, weeks of 2 days, 2 faults, fair | alerts, digests, forms |
| `backoff_bypassed`, `crash_strands`, `smtp_shared_address` | small | the disagreements below |

The bounds let the interesting cases happen: two workers and two rows suffice
for lost claims and for a row claimed again behind a worker's back, a third worker
for two sends behind an opened breaker; three attempts give two different
backoffs, the second cut to the maximum; a threshold of one or two lets
the breaker open, half-open and open again while others send; four messages let
the backlog reach limit + workers = 3 and be seen not to pass it. `MaxMessages`,
`MaxFaults`, `MaxCrashes`, `MaxMails`, `MaxSaves`, `MaxEvents`, `SharedEvents`, `Disturbances`, `Slots`,
`Traffic` and `Activities` are the only bounds in guards. Workers are interchangeable, so the safety runs of the queue use
symmetry; the views leave out history no property of their run looks at and no
guard reads, so states they identify have the same future (this also holds for
`queue_live`, whose steps all change something its view keeps). For SMTP one
address with two devices and one with a single device cover both cases, and of the
four configurations one has no EWS block, one no account, one an empty allowlist,
and they differ in account and domain; a device offers one mail, again and again
until it is taken. The hub's queue of one is filled by a live event or one of the
history, from which the second event pushes the first. Overrun by both publishers it
holds three: one replayed and two that were found to fit, so there are three events,
the third of them (beyond `SharedEvents`) only while a single socket has come.
In `ews_delivery` a failover server with a certificate of its own makes the trust
matter, a ladder of two with only the second rung offered makes the profile matter,
and one thread of each kind suffices to overwrite the adapter between `Apply` and
`TakeAccount`; each behaviour has one set of `Disturbances`. In `console` each has one
set of `Traffic`: signing in and out from everywhere, or saving and importing; two
requests race for every pair of steps, and browsers and slots are symmetric. In
`ops` each has two of the four activities, which meet in the settings only.
`CHECK_DEADLOCK FALSE` is given to `queue_live`, where the service may be stopped,
and to the hub, which has nothing to do once its sockets are closed and nobody
publishes.

Fairness (`FairSpec`): every worker thread is scheduled, time passes, a producer
that inserted a row goes on to wake. A worker's fairness includes that a driver
call ends, which the request timeouts of the EWS client see to; how it ends is
not assumed. In `EventHub` the event loop runs a subscription that can go on and
threads finish publishing; nobody need publish, connect or read. In `EwsDelivery`
a worker's step is fair: its thread runs and each use of the network ends, by the
timeouts of the probe and of exchangelib. In `Ops` the watcher's thread runs, its
send ends (`CallsEnd`) and the monotonic clock goes on; `AlertsRecur` need not assume
that the sends work, as `MaxFaults` bounds those that fail while Exchange answers. `LockReleased`
leaves out only a replay that waits for room in a full queue, with the lock held, and
its socket does not read yet. With the code's sizes, 256 against 200, that takes 57
events put between the registration and the end of the replay.

### Disagreements found

| Run | The code | Against |
| --- | --- | --- |
| `backoff_bypassed` | the `UPDATE` of `claim_next` does not test `next_retry_at`: worker A selects a row, B claims it, fails and puts it back with a delay, A claims it at once | `docs/queue.md:20` |
| `crash_strands` | rows processing at a crash are never picked up again | `service.py:91` |
| `smtp_shared_address` | the login of one device is used for a session without AUTH from the same address | `tests/test_smtp_ews_integration.py:116` |

More of the same kind follow from what is checked and have no run of their own:

- a half-open breaker lets every worker through (`Allow`), though `circuit_breaker.py:38`
  says "then allows a probe"; a late success closes an open breaker;
- the backlog passes its limit by what comes back for a retry (`PendingBounded`
  allows for it), and a raised step strands its row (`StrandedExplained` counts it);
- the default domain of logins is read once, when the controller is created, though
  `ui/templates/settings.html:348` says "EWS/auth changes apply immediately";
- a publication during the replay raises in `subscribe` and ends the socket
  (`ReplayBroken`), or fills the queue under it (`ReplayRefused`), and a queue takes
  more than its size (`OverrunBounded`), though `events/hub.py:36` says "Thread-safe
  fan-out";
- a mail that Exchange has confirmed and the queue recorded as sent is sent again, or
  recorded as failed, when the report of it raises (`processor.py:73-82`; `FinalStates`
  and `CopiesExplained` allow for exactly that);
- the docstring of `resolve_primary_smtp` lists four candidates, the code has five;
- what is said above of the driver call and the console.

## Proofs

Every safety invariant and action property of the passing runs is proved for
all values of the constants, and so are both refinements. Each proof module
ends in its theorems; `Invariance` (`BoundsHold` in `MailQueueBounds`, `CircuitInvStep`
for the breaker) is the inductive invariant, the others follow from it. TLC
checked each inductive invariant before it was proved.

| Theorem | Property |
| --- | --- |
| `MailQueueProofs`: `TypeCorrect`, `ClaimsAreExclusive`, `AttemptsStayBounded`, `CopiesAreExplained`, `FinalStatesStay` | `TypeOK`, `ExclusiveClaim`, `AttemptsBounded`, `CopiesExplained`, `FinalStates` |
| `MailQueueProofs`: `Implementation`, `QueueUsesCircuit` | `ImplementsDelivery`; every step of the queue is one of `CircuitSpec` |
| `MailQueueBounds`: `OverrunStaysBounded`, `PendingStaysBounded`, `StrandedStaysExplained`, `NoWakeIsMissed` | `OverrunBounded`, `PendingBounded`, `StrandedExplained`, `NoMissedWake` |
| `CircuitBreakerProofs`: `ClosedBelow`, `HalfOpenIsDecided`, and `...InQueue` of `MailQueueProofs` | `ClosedBelowThreshold`, `HalfOpenDecides` |
| `SmtpSessionProofs`: `TypeCorrect`, `CredentialsStayMatched`, `SoleDevicesKeepTheirLogin`, `WhatIsToldIsStored` | `TypeOK`, `CredentialsMatch`, `SoleDeviceKeepsLogin`, `StoredAsTold` |
| `EventHubProofs`: `TypeCorrect`, `OverrunIsBounded`, `NothingIsMissed`, `TwiceIsAcrossReplay`, `ClosedSocketsAreGone` | `TypeOK`, `OverrunBounded`, `NothingMissed`, `TwiceOnlyAcrossReplay`, `ClosedIsGone` |
| `EwsDeliveryProofs`: `Typing`, `CopiesAreExplained`, `AdapterIsOwn`, `SecondTriesAreFresh`, `Implementation` | `TypeOK`, `CopiesExplained`, `OwnAdapter`, `SecondTryIsFresh`, `ImplementsDriverCall` |
| `ConsoleProofs`: `Typing`, `CookiesFollow`, `AdminIsExplained`, `CopiesStayTogether`, `SecretsKept` | `TypeOK`, `CookieFollows`, `AdminExplained`, `CopiesAgree`, `MaskedKeepsSecret` |
| `OpsProofs`: `TypeCorrect`, `DigestsAreExplained`, `AlertsAreSpaced`, `FormsAreKept` | `TypeOK`, `DigestsExplained`, `AlertsSpaced`, `FormsKept` |

### The queue

The `IInv` of `MailQueueProofs` is `TypeOK`, `RowKnown` (a worker about to claim or
refresh knows its row), `ExclusiveClaim`, `AttemptsBounded` and `CopiesTracked`. None of
the parts is inductive alone. Attempts stay in range because a claimable row has
one left; an outcome hits the right row because claims are exclusive; a claim is
exclusive because the `UPDATE` tests the status, and a held row is "processing" or, from
the record to the end of the step, "sent", neither of which is claimable.
`CopiesTracked` adds to `CopiesExplained` the rows in hand: one that is being processed
has its ambiguous copies and those taken back, and one more once confirmed; one
whose report raised (`Doubts`) is still sent, and the raised step has been counted
as a fault but not yet as `undone`. `StepPreserves` has a step per action and
under it one per conjunct the action touches.

`Implementation` maps a row to the stages of `Delivery`: a confirmed message whose
report raised is "doubted", from where it is put back, given up or abandoned as sent.
It rests on lemmas about `Stage`: it changes only for the row of the worker that acts
(`StageKept`, `OthersKept`), and it is known for a held row before and after a step
(`HeldStage`, `HeldStageAfter`).

`QueueUsesCircuit` (`Spec => CircuitSpec`) shows that the queue, restarts included,
makes only calls the breaker's own specification has, and so carries its two
theorems over.

`MailQueueBounds` adds `BInv` to it. Every step of a worker is of one of four kinds
for the rows (`WorkerKinds`): nothing, a claim, a part of an attempt, a record; the
counts are moved by kinds, not by actions.

- `OverrunCounted`: while the breaker is open, `overrun` and the workers let through
  before (`LetThrough`) together stay below the number of workers. `OverrunBounded`
  alone is not inductive: it does not know how many may still claim.
- `ActiveCounted`: rows waiting or held stay within limit plus workers, and strictly
  below it while the SMTP thread is between its check and its insert.
- `StrandedExplained` is inductive with `IInv`: each step strands at most the row of
  the one worker that raises, a crash at most one row per worker.
- `WakeKept`: `NoMissedWake` speaks of the moment when all workers wait. At every
  other moment some worker will look again (`WillLook`), the flag is up, or a
  producer is about to raise it. It needs that nobody waits while the flag is up,
  that a first attempt is never delayed, and that a stop keeps the flag up until the
  workers leave.

### The SMTP front end

Three parts. `Typed` says where a device can be and that it has a mail left when it
gives a recipient. `LoginsTraced` follows credentials from the login over the command
in hand to the row: one pair, of a device at the same address. `CopiesCounted`
refines `StoredAsTold` by the moment in the handling of DATA: between the commit and
the answer the mail has a copy that no fault has paid for. A step is dialogue
(`Talks`), a part of DATA, a save or a restart (`Kinds`), and only DATA touches rows.

### The event hub

`PublishersOK` and `SocketsOK` say who has which event and how far each replay is.
`TimesCounted` counts for every socket and event the places the event has in what
was put plus the one its publisher may still take (`Coming`): one if published, one
if the replay has passed it. `TwiceOnlyAcrossReplay` alone is not inductive, since it
does not see the publisher that holds a list with the socket in it. `AllKept` is
`NothingMissed` from the beginning of the replay on, and not just once the socket is
open: what the replay has passed or was published since the registration is put or
under way (`Due`). `OverrunBounded` is not inductive either: it does not see what is
about to be put. `LoadsBounded` does: the length of a queue, the publishers that found
room in it and not yet put, and the replay that is about to put, stay together
within its size and one for each publishing thread. A test that finds room adds one
to it only while the length is below the size, and the publisher that tested is not
among those counted before.

### The driver call

`Shape` is where a thread can be. `TriesCounted` strengthens `CopiesExplained`: copies and
ambiguous sends are tied to the server and try the call is at, so that two tries a
server make at most four. `OwnKept` follows a setting from the moment a thread installs
it to the sessions in the pool that were opened under it, and says that its trust
can differ from the first configuration only after a save. `FreshKept` says of a
second try, between its renewal and its account, that the cache and every thread about
to store hold for its key only a profile probed since, one another thread had in hand
at the renewal (`InHand`), or nothing. `StepIsLocal` shows
once that a thread's step leaves the others' position and counts alone; what the
threads share (cache, adapter, pool) is covered by the two invariants. The refinement maps
each step of a worker to a step of `DriverCall` for it or to none (`NextCalls`).

### The console

`RequestsFollow` is `CookieFollows` for requests still under way: one that no answer
has overtaken carries the session its browser is due. `WritersKnow` is what a writer
that was not overtaken has read of the administrator's row, which is still so.
`SavesKnow`: if what runs is not what is stored, a save failed, or a request that was
not overtaken is about to save exactly that.

### Watcher, digests and forms

The three share little but the setting and the count of faults, so the invariant
is three invariants, each inductive by itself: `FormsOK` (a form nobody overtook has
seen the setting as it is), `WatchOK` (the watcher's clock is never ahead of the time
since the last mail, but for an excused one) and `DigestsOK` (what a tick has left is
not marked; every unmarked digest cost a fault).

### Assumptions

Only the named assumptions of the modules are used; TLC evaluates each on the
instances. Limits, thresholds, sizes and cooldowns are positive, as
the code's settings and defaults are; bounds are natural numbers. Beyond that:

- `WorkersAssumption`: the workers are finitely many and at least one, as
  `queue/worker.py:21` clamps them to 1..32;
- `HubAssumption`: the publishing threads are finitely many, and "no one" is not a
  socket;
- `SessionAssumption`: no configuration has as its domain the value `Own`, which stands
  for a user name that brings its domain along;
- `EwsAssumption`: `prepare_ews_tls` at start is the work of some API thread, "none" is
  not the name of a thread, workers and API threads differ, there is some set of
  `Disturbances` (possibly an empty one);
- `ConsoleAssumption`: "root", who writes from the command line, is not a slot, and the
  mask and the blank are not passwords.

### Only model-checked

`EventuallyResolved`, `StopCompletes`, `LockReleased`, `CallsEnd` and `AlertsRecur` are liveness
under fairness, out of the prover's reach, and stay with TLC on the instances
above; so do the three runs that show a disagreement. Numbers of events, faults,
mails and saves are bounded in the models by constants; the theorems hold for every
value of these.

## Plan

All components with state of their own are modelled, and their safety is proved.
What is left: the refinements that join the modules, namely that the rows `SmtpSession`
stores are accepted as `Delivery` promises, and that a send of `MailQueue` stands for a
whole call of `EwsDelivery` in one composed module; and the hazards without a
property. Of these the outdated domain of logins, the legacy profile kept in the cache
and the sessions kept in the pool break nothing the code promises, a half-open
breaker that lets everybody through shows in what follows (`OverrunBounded`), and the
window of a digest's report needs contents the model leaves out.

Not modelled and not planned: rendering and routing, digest reports and PDFs, the
counters of `observability/metrics.py` and the webhooks (nothing reads them back),
secrets (a library cipher behind two calls), the diagnostics of `tools/`, migrations,
installation. The spelling of user names (`auth/sanitize.py`) and the matching of
addresses are abstract in `SmtpSession`, exchangelib's accounts, sessions and mailbox
lookup external in `EwsDelivery`.
