---------------------------- MODULE EwsDelivery -----------------------------
(***************************************************************************)
(* One attempt of the queue seen from inside: EwsDriver.send with its      *)
(* failover (src/msgate/drivers/ews.py), send_mime with its second try     *)
(* after a TLS failure (src/msgate/ews/client.py), and the negotiation of  *)
(* a TLS profile with its cache and the adapter it installs for the whole  *)
(* process (src/msgate/tls/).  Workers send; threads of the API check the  *)
(* health of the backend and save the configuration, which negotiates as   *)
(* well.                                                                   *)
(*                                                                         *)
(* A step is one locked operation on the cache, one use of the network,    *)
(* or one access to the adapter.  All mail is sent under one login.  What  *)
(* exchangelib does is external: it keeps the session of a server and      *)
(* login for the whole process, whatever accounts are built on it, and     *)
(* opens every new one with the adapter class installed at that moment.    *)
(* The accounts that each thread keeps have no session of their own, so    *)
(* they are left out.                                                      *)
(***************************************************************************)
EXTENDS Integers, Sequences

CONSTANTS
    Workers,        \* threads that call EwsDriver.send
    Api,            \* threads that check the backend or save
    Servers,        \* names of configured servers, "primary" among them
    Ladder,         \* ladder_for_mode of each server: profiles in order
    SelfSigned,     \* servers whose certificate no authority signed
    Trusted,        \* the configuration at start: how each server is trusted
    Configs,        \* configurations an operator may save
    Offered,        \* the profiles each server accepts at first
    Changed,        \* the profiles each server may accept later: a set of these
    Disturbances    \* bound: which of "check", "save", "change", "fault" and
                    \* "restart" a behaviour may have, any number of checks
                    \* and the others once: a set of sets

NoProfile == "no profile"
Trusts == {"verify", "insecure"}    \* trust_self_signed
Profiles == UNION {{Ladder[s][i] : i \in 1..Len(Ladder[s])} : s \in Servers}
Threads == Workers \cup Api

ASSUME EwsAssumption ==
    /\ "primary" \in Servers /\ Servers \subseteq {"primary", "failover"}
    /\ DOMAIN Ladder = Servers /\ \A s \in Servers : Ladder[s] \in Seq(STRING)
    /\ NoProfile \notin Profiles
    /\ Workers \cap Api = {} /\ Api # {} /\ "none" \notin Threads
    /\ SelfSigned \subseteq Servers
    /\ Configs \subseteq [Servers -> Trusts] /\ Trusted \in Configs
    /\ Changed \cup {Offered} \subseteq [Servers -> SUBSET Profiles]
    /\ Disturbances # {}
    /\ Disturbances \subseteq SUBSET {"check", "save", "change", "fault", "restart"}

VARIABLES
    trust,      \* running configuration: how each server is trusted
    offers,     \* the profiles each server accepts now
    memory,     \* _memory: cached profile per server and trust
    file,       \* tls_cache.json, likewise
    adapter,    \* BaseProtocol.HTTP_ADAPTER_CLS
    pool,       \* the session exchangelib keeps to each server
    pc, at, stage, again,   \* per thread: where its call is, see below
    cfg,        \* per thread: the configuration the call was given
    prof,       \* per thread: the profile negotiated
    copies,     \* history: copies of the mail that reached Exchange
    ambiguous,  \* history: sends that raised although the mail got there
    renewed,    \* history: the profiles a second try may meet, see Renew
    happened    \* the disturbances so far

threadVars == <<pc, at, stage, again, cfg, prof, copies, ambiguous, renewed>>
vars == <<trust, offers, memory, file, adapter, pool, threadVars, happened>>

(* A call is at a server, in a stage: "check" is the bare negotiate of a   *)
(* health check, "save" the one of put_config, "forced" the prepare of a   *)
(* second try, "build" build_account, "boot" the prepare of _cmd_serve,    *)
(* which a thread of Api stands for.  `again' marks the second try.        *)
PCs == {"idle", "renew", "lookup", "probe", "store", "apply", "account",
        "send", "ok", "raised", "replace"}

(* An adapter and who installed it.  A session has the adapter it was      *)
(* opened with, and "none" for one that was opened by another thread.      *)
Setting == [server : Servers, trust : Trusts, profile : Profiles, by : Threads \cup {"none"}]
NoSetting == [server |-> "none", trust |-> "none", profile |-> NoProfile, by |-> "none"]

(* What a server does with a handshake: the profile must be offered, the   *)
(* certificate verifiable or not verified.                                 *)
Accepts(s, tr, p) == p \in offers[s] /\ (tr = "insecure" \/ s \notin SelfSigned)
Trust(t) == cfg[t][at[t]]
Rungs(s) == {Ladder[s][i] : i \in 1..Len(Ladder[s])}

Allowed(d) ==
    /\ happened' = happened \cup {d}
    /\ \E D \in Disturbances : happened' \subseteq D

Once(d) == d \notin happened /\ Allowed(d)

NoTrust == [s \in Servers |-> "verify"]

(* _cmd_serve negotiates before it starts the workers. *)
Main == CHOOSE a \in Api : TRUE
Booted == \A t \in Threads : stage[t] # "boot"

Init ==
    /\ trust = Trusted
    /\ offers = Offered
    /\ memory = [s \in Servers |-> [tr \in Trusts |-> NoProfile]]
    /\ file = memory
    /\ adapter = NoSetting
    /\ pool = [s \in Servers |-> NoSetting]
    /\ pc = [t \in Threads |-> IF t = Main THEN "lookup" ELSE "idle"]
    /\ at = [t \in Threads |-> "primary"]
    /\ stage = [t \in Threads |-> IF t = Main THEN "boot" ELSE "build"]
    /\ again = [t \in Threads |-> FALSE]
    /\ cfg = [t \in Threads |-> IF t = Main THEN trust ELSE NoTrust]
    /\ prof = [t \in Threads |-> NoProfile]
    /\ copies = [w \in Workers |-> 0]
    /\ ambiguous = [w \in Workers |-> 0]
    /\ renewed = [w \in Workers |-> {}]
    /\ happened = {}

-----------------------------------------------------------------------------
(* Beginning and ending a call.                                            *)

Begin(t, st, c) ==
    /\ pc[t] = "idle"
    /\ pc' = [pc EXCEPT ![t] = "lookup"]
    /\ stage' = [stage EXCEPT ![t] = st]
    /\ cfg' = [cfg EXCEPT ![t] = c]
    /\ UNCHANGED <<trust, offers, memory, file, adapter, pool, at, again, prof,
                   copies, ambiguous, renewed>>

(* process_row copied the running configuration and calls send. *)
StartSend(w) ==
    /\ Booted
    /\ Begin(w, "build", trust)
    /\ UNCHANGED happened

(* check_backend_health of a request or of the capacity watcher. *)
StartCheck(a) ==
    /\ Allowed("check")
    /\ Begin(a, "check", trust)

(* put_config negotiates for the merged configuration before it replaces the running one. *)
StartSave(a) ==
    /\ Once("save")
    /\ \E c \in Configs \ {trust} : Begin(a, "save", c)

Blank(f, t, v) == [f EXCEPT ![t] = v]

(* The caller has its answer; what the call was about is forgotten. *)
Clear(t) ==
    /\ pc' = Blank(pc, t, "idle")
    /\ at' = Blank(at, t, "primary")
    /\ stage' = Blank(stage, t, "build")
    /\ again' = Blank(again, t, FALSE)
    /\ cfg' = Blank(cfg, t, NoTrust)
    /\ prof' = Blank(prof, t, NoProfile)
    /\ copies' = [w \in Workers |-> IF w = t THEN 0 ELSE copies[w]]
    /\ ambiguous' = [w \in Workers |-> IF w = t THEN 0 ELSE ambiguous[w]]
    /\ renewed' = [w \in Workers |-> IF w = t THEN {} ELSE renewed[w]]

Return(t) ==
    /\ pc[t] \in {"ok", "raised"}
    /\ Clear(t)
    /\ UNCHANGED <<trust, offers, memory, file, adapter, pool, happened>>

(* The rest of put_config, whether the negotiation succeeded or not. *)
Replace(a) ==
    /\ pc[a] = "replace"
    /\ trust' = cfg[a]
    /\ Clear(a)
    /\ UNCHANGED <<offers, memory, file, adapter, pool, happened>>

-----------------------------------------------------------------------------
(* An exception inside the call.  `tls' is what is_tls_failure makes of    *)
(* its text: a first try is repeated after a renewal, anything else goes   *)
(* on to the failover server, and what that raises to the caller.          *)

(* Mutated LooksTls: every try is repeated, not only the first. *)
LooksTlsAlways(t, tls) == t \in Workers /\ tls

LooksTls(t, tls) == t \in Workers /\ tls /\ ~again[t]
HasFailover(t) == t \in Workers /\ at[t] = "primary" /\ "failover" \in Servers

(* Mutated TryAgain: the second try begins as the first did. *)
TryAgainUnforced(t) ==
    /\ pc' = [pc EXCEPT ![t] = "lookup"]
    /\ stage' = [stage EXCEPT ![t] = "build"]
    /\ again' = [again EXCEPT ![t] = TRUE]
    /\ UNCHANGED at

TryAgain(t) ==
    /\ pc' = [pc EXCEPT ![t] = "renew"]
    /\ stage' = [stage EXCEPT ![t] = "forced"]
    /\ again' = [again EXCEPT ![t] = TRUE]
    /\ UNCHANGED at

(* Mutated FailOver: the failover server is used with what is installed. *)
FailOverUnprepared(t) ==
    /\ pc' = [pc EXCEPT ![t] = "account"]
    /\ at' = [at EXCEPT ![t] = "failover"]
    /\ stage' = [stage EXCEPT ![t] = "build"]
    /\ again' = [again EXCEPT ![t] = FALSE]

FailOver(t) ==
    /\ pc' = [pc EXCEPT ![t] = "lookup"]
    /\ at' = [at EXCEPT ![t] = "failover"]
    /\ stage' = [stage EXCEPT ![t] = "build"]
    /\ again' = [again EXCEPT ![t] = FALSE]

(* Mutated GiveUp: the last error is swallowed. *)
GiveUpQuietly(t) ==
    /\ pc' = [pc EXCEPT ![t] = IF stage[t] = "save" THEN "replace" ELSE "ok"]
    /\ UNCHANGED <<at, stage, again>>

GiveUp(t) ==
    /\ pc' = [pc EXCEPT ![t] = IF stage[t] = "save" THEN "replace" ELSE "raised"]
    /\ UNCHANGED <<at, stage, again>>

Raise(t, tls) ==
    /\ \/ LooksTls(t, tls) /\ TryAgain(t)
       \/ ~LooksTls(t, tls) /\ HasFailover(t) /\ FailOver(t)
       \/ ~LooksTls(t, tls) /\ ~HasFailover(t) /\ GiveUp(t)
    /\ prof' = [prof EXCEPT ![t] = NoProfile]
    /\ UNCHANGED cfg

-----------------------------------------------------------------------------
(* The cache of profiles, one locked operation at a time.                  *)

Put(f, t, p) == [f EXCEPT ![at[t]][Trust(t)] = p]
Cached(f, t) == f[at[t]][Trust(t)]
SameKey(w, t) == at[w] = at[t] /\ Trust(w) = Trust(t)

(* negotiate returns: the health check goes on to build_account, the       *)
(* others to apply_negotiated.                                             *)
Negotiated(t, p) ==
    /\ IF stage[t] = "check"
       THEN /\ pc' = [pc EXCEPT ![t] = "lookup"]
            /\ stage' = [stage EXCEPT ![t] = "build"]
            /\ prof' = [prof EXCEPT ![t] = NoProfile]
       ELSE /\ pc' = [pc EXCEPT ![t] = "apply"]
            /\ prof' = [prof EXCEPT ![t] = p]
            /\ UNCHANGED stage
    /\ UNCHANGED <<at, again, cfg>>

(* Mutated LookupHit: nothing found counts as found. *)
LookupUnchecked(t) ==
    LET p == IF Cached(memory, t) # NoProfile THEN Cached(memory, t) ELSE Cached(file, t)
    IN  /\ pc[t] = "lookup"
        /\ memory' = Put(memory, t, p)
        /\ Negotiated(t, p)
        /\ UNCHANGED <<trust, offers, file, adapter, pool, copies, ambiguous, renewed, happened>>

(* get_cached: memory, else the file, which fills memory. *)
LookupHit(t) ==
    LET p == IF Cached(memory, t) # NoProfile THEN Cached(memory, t) ELSE Cached(file, t)
    IN  /\ pc[t] = "lookup"
        /\ p # NoProfile
        /\ memory' = Put(memory, t, p)
        /\ Negotiated(t, p)
        /\ UNCHANGED <<trust, offers, file, adapter, pool, copies, ambiguous, renewed, happened>>

LookupMiss(t) ==
    /\ pc[t] = "lookup"
    /\ Cached(memory, t) = NoProfile /\ Cached(file, t) = NoProfile
    /\ pc' = [pc EXCEPT ![t] = "probe"]
    /\ UNCHANGED <<trust, offers, memory, file, adapter, pool, at, stage, again, cfg, prof,
                   copies, ambiguous, renewed, happened>>

(* Whoever repeats a send meets p from now on. *)
Noted(t, p) ==
    [w \in Workers |-> IF again[w] /\ SameKey(w, t) THEN renewed[w] \cup {p} ELSE renewed[w]]

(* The ladder is walked to the first profile that answers; a rung before   *)
(* it may have failed for another reason than the server's settings.       *)
ProbeFinds(t) ==
    /\ pc[t] = "probe"
    /\ \E p \in Rungs(at[t]) :
        /\ Accepts(at[t], Trust(t), p)
        /\ prof' = [prof EXCEPT ![t] = p]
        /\ renewed' = Noted(t, p)
    /\ pc' = [pc EXCEPT ![t] = "store"]
    /\ UNCHANGED <<trust, offers, memory, file, adapter, pool, at, stage, again, cfg,
                   copies, ambiguous, happened>>

(* No rung answers: "no working TLS profile" itself looks like a TLS failure. *)
ProbeFails(t) ==
    /\ pc[t] = "probe"
    /\ Raise(t, TRUE)
    /\ UNCHANGED <<trust, offers, memory, file, adapter, pool, copies, ambiguous, renewed, happened>>

(* put_cached. *)
Store(t) ==
    /\ pc[t] = "store"
    /\ memory' = Put(memory, t, prof[t])
    /\ file' = Put(file, t, prof[t])
    /\ Negotiated(t, prof[t])
    /\ UNCHANGED <<trust, offers, adapter, pool, copies, ambiguous, renewed, happened>>

(* The write fails after memory was set; the path in the error text, when  *)
(* there is one, has "tls" in it.                                          *)
StoreFails(t) ==
    /\ pc[t] = "store"
    /\ Once("fault")
    /\ memory' = Put(memory, t, prof[t])
    /\ \E tls \in BOOLEAN : Raise(t, tls)
    /\ UNCHANGED <<trust, offers, file, adapter, pool, copies, ambiguous, renewed>>

(* What other threads have found and not yet stored. *)
InHand(w) == {prof[t] : t \in {u \in Threads \ {w} : pc[u] = "store" /\ SameKey(u, w)}}

(* invalidate_ews_tls: the entry is forgotten; what other threads found    *)
(* before may be stored after.                                             *)
Renew(w) ==
    /\ pc[w] = "renew"
    /\ memory' = Put(memory, w, NoProfile)
    /\ file' = Put(file, w, NoProfile)
    /\ renewed' = [renewed EXCEPT ![w] = InHand(w)]
    /\ pc' = [pc EXCEPT ![w] = "probe"]
    /\ UNCHANGED <<trust, offers, adapter, pool, at, stage, again, cfg, prof,
                   copies, ambiguous, happened>>

(* The entry is in the file and cannot be removed: memory forgets it. *)
RenewFails(w) ==
    /\ pc[w] = "renew"
    /\ Cached(file, w) # NoProfile
    /\ Once("fault")
    /\ memory' = Put(memory, w, NoProfile)
    /\ Raise(w, TRUE)
    /\ UNCHANGED <<trust, offers, file, adapter, pool, copies, ambiguous, renewed>>

-----------------------------------------------------------------------------
(* The adapter, the session and the message.                               *)

(* Mutated Apply: a second try never gets past its preparation. *)
ApplyForever(t) ==
    /\ pc[t] = "apply"
    /\ adapter' = [server |-> at[t], trust |-> Trust(t), profile |-> prof[t], by |-> t]
    /\ pc' = [pc EXCEPT ![t] = CASE stage[t] = "save" -> "replace"
                                 [] stage[t] = "forced" -> "lookup"
                                 [] stage[t] = "boot" -> "ok"
                                 [] OTHER -> "account"]
    /\ prof' = [prof EXCEPT ![t] = NoProfile]
    /\ UNCHANGED <<trust, offers, memory, file, pool, at, stage, again, cfg,
                   copies, ambiguous, renewed, happened>>

(* apply_negotiated: exchangelib opens every session of the process with   *)
(* the adapter class installed last.                                       *)
Apply(t) ==
    /\ pc[t] = "apply"
    /\ adapter' = [server |-> at[t], trust |-> Trust(t), profile |-> prof[t], by |-> t]
    /\ pc' = [pc EXCEPT ![t] = CASE stage[t] = "save" -> "replace"
                                 [] stage[t] = "forced" -> "lookup"
                                 [] stage[t] = "boot" -> "ok"
                                 [] OTHER -> "account"]
    /\ stage' = [stage EXCEPT ![t] = IF @ = "forced" THEN "build" ELSE @]
    /\ prof' = [prof EXCEPT ![t] = NoProfile]
    /\ UNCHANGED <<trust, offers, memory, file, pool, at, again, cfg,
                   copies, ambiguous, renewed, happened>>

Opened(t) == IF adapter.by = t THEN adapter ELSE [adapter EXCEPT !.by = "none"]

(* A request may end the session it was made with, and open another one.   *)
MayReopen(t) == pool' \in {pool, [pool EXCEPT ![at[t]] = Opened(t)]}

(* The account of the thread, or a new one, which asks the server for its  *)
(* version when exchangelib has no session to it.                          *)
TakeAccount(t) ==
    /\ pc[t] = "account"
    /\ pool' = [pool EXCEPT ![at[t]] = IF @ = NoSetting THEN Opened(t) ELSE @]
    /\ pc' = [pc EXCEPT ![t] = "send"]
    /\ UNCHANGED <<trust, offers, memory, file, adapter, at, stage, again, cfg, prof,
                   copies, ambiguous, renewed, happened>>

(* The certificate file is missing; there is no mailbox address, the       *)
(* server refuses the login, the message has no recipients.                *)
PrepareRaises(t) ==
    /\ \/ pc[t] = "apply" /\ UNCHANGED pool
       \/ pc[t] = "account" /\ MayReopen(t)
    /\ \E tls \in BOOLEAN : Raise(t, tls)
    /\ UNCHANGED <<trust, offers, memory, file, adapter, copies, ambiguous, renewed, happened>>

(* Whether the server takes the session, or one opened in its place.       *)
Works(t) == \E s \in {pool[at[t]], adapter} : Accepts(at[t], s.trust, s.profile)

SendOk(w) ==
    /\ pc[w] = "send"
    /\ Works(w)
    /\ MayReopen(w)
    /\ copies' = [copies EXCEPT ![w] = @ + 1]
    /\ pc' = [pc EXCEPT ![w] = "ok"]
    /\ UNCHANGED <<trust, offers, memory, file, adapter, at, stage, again, cfg, prof,
                   ambiguous, renewed, happened>>

(* An error may come after the mail was taken, and any text may look like TLS. *)
SendRaises(w) ==
    /\ pc[w] = "send"
    /\ MayReopen(w)
    /\ \E got \in 0..1, tls \in BOOLEAN :
        /\ Works(w) \/ (got = 0 /\ tls)
        /\ copies' = [copies EXCEPT ![w] = @ + got]
        /\ ambiguous' = [ambiguous EXCEPT ![w] = @ + got]
        /\ Raise(w, tls)
    /\ UNCHANGED <<trust, offers, memory, file, adapter, renewed, happened>>

(* The health check reads the inbox. *)
ReadInbox(a) ==
    /\ pc[a] = "send"
    /\ MayReopen(a)
    /\ \/ Works(a) /\ pc' = [pc EXCEPT ![a] = "ok"]
       \/ pc' = [pc EXCEPT ![a] = "raised"]
    /\ UNCHANGED <<trust, offers, memory, file, adapter, at, stage, again, cfg, prof,
                   copies, ambiguous, renewed, happened>>

-----------------------------------------------------------------------------
(* Around the process.                                                     *)

(* The operator of a server changes what it offers. *)
ServerChanges ==
    /\ Once("change")
    /\ offers' \in Changed \ {offers}
    /\ UNCHANGED <<trust, memory, file, adapter, pool, threadVars>>

(* The file outlives the process, nothing else of this does; the next one  *)
(* begins with the running configuration, which was saved.                 *)
Restart ==
    /\ Once("restart")
    /\ memory' = [s \in Servers |-> [tr \in Trusts |-> NoProfile]]
    /\ adapter' = NoSetting
    /\ pool' = [s \in Servers |-> NoSetting]
    /\ pc' = [t \in Threads |-> IF t = Main THEN "lookup" ELSE "idle"]
    /\ at' = [t \in Threads |-> "primary"]
    /\ stage' = [t \in Threads |-> IF t = Main THEN "boot" ELSE "build"]
    /\ again' = [t \in Threads |-> FALSE]
    /\ cfg' = [t \in Threads |-> IF t = Main THEN trust ELSE NoTrust]
    /\ prof' = [t \in Threads |-> NoProfile]
    /\ copies' = [w \in Workers |-> 0]
    /\ ambiguous' = [w \in Workers |-> 0]
    /\ renewed' = [w \in Workers |-> {}]
    /\ UNCHANGED <<trust, offers, file>>

-----------------------------------------------------------------------------
Negotiating(t) ==
    \/ LookupHit(t) \/ LookupMiss(t) \/ ProbeFinds(t) \/ ProbeFails(t)
    \/ Store(t) \/ StoreFails(t) \/ Apply(t)

WorkerStep(w) ==
    \/ Negotiating(w) \/ Renew(w) \/ RenewFails(w) \/ TakeAccount(w) \/ PrepareRaises(w)
    \/ SendOk(w) \/ SendRaises(w) \/ Return(w)

ApiStep(a) ==
    \/ Negotiating(a) \/ TakeAccount(a) \/ PrepareRaises(a)
    \/ ReadInbox(a) \/ Replace(a) \/ Return(a)

Next ==
    \/ \E w \in Workers : StartSend(w) \/ WorkerStep(w)
    \/ \E a \in Api : StartCheck(a) \/ StartSave(a) \/ ApiStep(a)
    \/ ServerChanges
    \/ Restart

Spec == Init /\ [][Next]_vars

(* Worker threads are scheduled and their network calls end. *)
FairSpec == Spec /\ \A w \in Workers : WF_vars(WorkerStep(w))

-----------------------------------------------------------------------------
(* Every variable has its type. *)
TypeOK ==
    /\ trust \in [Servers -> Trusts]
    /\ offers \in [Servers -> SUBSET Profiles]
    /\ memory \in [Servers -> [Trusts -> Profiles \cup {NoProfile}]]
    /\ file \in [Servers -> [Trusts -> Profiles \cup {NoProfile}]]
    /\ adapter \in Setting \cup {NoSetting}
    /\ pool \in [Servers -> Setting \cup {NoSetting}]
    /\ pc \in [Threads -> PCs]
    /\ at \in [Threads -> Servers]
    /\ stage \in [Threads -> {"check", "save", "forced", "build", "boot"}]
    /\ again \in [Threads -> BOOLEAN]
    /\ cfg \in [Threads -> [Servers -> Trusts]]
    /\ prof \in [Threads -> Profiles \cup {NoProfile}]
    /\ copies \in [Workers -> Nat]
    /\ ambiguous \in [Workers -> Nat]
    /\ renewed \in [Workers -> SUBSET Profiles]
    /\ happened \in UNION {SUBSET D : D \in Disturbances}

(* However often a call sends (two tries at each of two servers), the      *)
(* copies at Exchange are the sends that failed after delivering, plus the *)
(* one that was answered; so a call whose errors are honest delivers once. *)
CopiesExplained ==
    \A w \in Workers :
        /\ copies[w] = ambiguous[w] + (IF pc[w] = "ok" THEN 1 ELSE 0)
        /\ ambiguous[w] <= (IF at[w] = "primary" THEN 0 ELSE 2) + 2

(* A session that a thread opened under the adapter it had installed       *)
(* itself, whoever uses it later, is for the server it talks to and trusts *)
(* it as configured, unless a save came in between.  Only where another    *)
(* thread's adapter got in before the session was opened does it have      *)
(* another server's settings.                                              *)
OwnAdapter ==
    \A s \in Servers :
        pool[s].by # "none" =>
            /\ pool[s].server = s
            /\ pool[s].trust # Trusted[s] => "save" \in happened

(* The second try after a TLS failure installs nothing that the cache had  *)
(* kept from before: the profile was found by a probe that ended after the *)
(* renewal, of its own or another thread, or was found by another thread   *)
(* before and stored after.  (Which session the message then goes through  *)
(* is up to exchangelib.)                                                  *)
SecondTryIsFresh ==
    \A w \in Workers :
        pc[w] = "account" /\ again[w] /\ adapter.by = w => adapter.profile \in renewed[w]

(* Every call of a worker ends, as the queue assumes of its sends. *)
CallsEnd == \A w \in Workers : pc[w] # "idle" ~> pc[w] = "idle"

(* What a caller sees of the calls. *)
Seen(w) ==
    CASE pc[w] = "idle" -> "none"
      [] pc[w] \in {"ok", "raised"} -> pc[w]
      [] OTHER -> "pending"

Calls == INSTANCE DriverCall WITH
    answer <- [w \in Workers |-> Seen(w)],
    delivered <- [w \in Workers |-> copies[w] > 0]

(* The driver is what the queue takes it for: an answer means the mail got *)
(* there, an exception leaves it open, nothing else comes of a call.       *)
ImplementsDriverCall == Calls!Spec

=============================================================================
