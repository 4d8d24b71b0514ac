----------------------------- MODULE SmtpSession -----------------------------
(***************************************************************************)
(* The SMTP front end (src/msgate/smtp/) down to accept_smtp of            *)
(* src/msgate/queue/service.py.  One event loop serves every connection,   *)
(* so while a DATA command is handled no other SMTP command is; requests   *)
(* of the API replace the configuration on threads of their own.  Logins   *)
(* are kept per peer address, and several devices may share one address    *)
(* (a NAT, one host).  A device whose mail is answered 4xx, or not at all, *)
(* offers it again; one answered 250 or 5xx goes on to its next mail.      *)
(***************************************************************************)
EXTENDS Integers, Sequences, FiniteSets

CONSTANTS
    Devices,        \* SMTP clients
    Peers,          \* addresses
    PeerOf,         \* the address each device connects from
    WithLogin,      \* devices set up with a user name and a password
    Plain,          \* those whose user name has no domain of its own
    Configs,        \* configurations an operator may save
    MaxMails,       \* bound: mails of a device
    MaxSaves,       \* bound: saves of the configuration
    MaxFaults       \* bound: rows stored whose client was not told so

NoAccount == "no account"
NoDomain == "no domain"
Own == "own domain"     \* the domain is part of the user name
NoLogin == [user |-> "nobody", domain |-> NoDomain, password |-> "nobody"]

Accounts == {c.account : c \in Configs} \ {NoAccount}
Domains == {c.domain : c \in Configs} \cup {NoDomain, Own}

(* `ews' tells whether the block is there; `account' stands for its user   *)
(* name with its password, which are set together.                         *)
ASSUME SessionAssumption ==
    /\ PeerOf \in [Devices -> Peers]
    /\ Plain \subseteq WithLogin /\ WithLogin \subseteq Devices
    /\ \A c \in Configs :
        /\ c.ews \in BOOLEAN
        /\ c.allowed \subseteq Peers
        /\ c.domain # Own
        /\ ~c.ews => c.domain = NoDomain /\ c.account = NoAccount
    /\ MaxMails \in Nat /\ MaxSaves \in Nat /\ MaxFaults \in Nat

VARIABLES
    config,         \* the running configuration
    defaultDomain,  \* default_domain of the authenticator
    logins,         \* _by_peer: the credentials last given from each address
    conn,           \* where each device is in its SMTP dialogue
    mail,           \* the mail each device is offering
    told,           \* its mails that were answered 250
    hand,           \* the DATA command being handled
    rows,           \* the rows stored for each device
    saves, faults           \* saves and failures so far, for the bounds

vars == <<config, defaultDomain, logins, conn, mail, told, hand, rows,
          saves, faults>>

Credentials == [user : Devices \cup Accounts, domain : Domains,
                password : Devices \cup Accounts]

NoData == [at |-> "none"]
AtWork(d) == hand.at # "none" /\ hand.device = d
LoopFree == hand = NoData

DomainOf(c) == IF c.ews THEN c.domain ELSE NoDomain

Init ==
    /\ config \in Configs
    /\ defaultDomain = DomainOf(config)
    /\ logins = [p \in Peers |-> NoLogin]
    /\ conn = [d \in Devices |-> "away"]
    /\ mail = [d \in Devices |-> 1]
    /\ told = [d \in Devices |-> {}]
    /\ hand = NoData
    /\ rows = [d \in Devices |-> <<>>]
    /\ saves = 0 /\ faults = 0

-----------------------------------------------------------------------------
(* The dialogue *)

Dialogue(d, from, to) ==
    /\ LoopFree
    /\ conn[d] = from
    /\ conn' = [conn EXCEPT ![d] = to]

Connect(d) ==
    /\ Dialogue(d, "away", IF d \in WithLogin THEN "greeted" ELSE "ready")
    /\ UNCHANGED <<config, defaultDomain, logins, mail, told, hand, rows, saves, faults>>

(* sanitize_username *)
Sanitized(d) ==
    [user |-> d, password |-> d,
     domain |-> IF d \in Plain THEN defaultDomain ELSE Own]

(* Mutated LogIn: one slot for all peers. *)
LogInEverywhere(d) ==
    /\ Dialogue(d, "greeted", "ready")
    /\ logins' = [p \in Peers |-> Sanitized(d)]
    /\ UNCHANGED <<config, defaultDomain, mail, told, hand, rows, saves, faults>>

(* AUTH, whose password nobody checks. *)
LogIn(d) ==
    /\ Dialogue(d, "greeted", "ready")
    /\ logins' = [logins EXCEPT ![PeerOf[d]] = Sanitized(d)]
    /\ UNCHANGED <<config, defaultDomain, mail, told, hand, rows, saves, faults>>

(* A mechanism or a user name it cannot use: what the address gave before  *)
(* stays.  The device may go on without a login.                           *)
LogInRefused(d) ==
    /\ \E to \in {"away", "ready"} : Dialogue(d, "greeted", to)
    /\ UNCHANGED <<config, defaultDomain, logins, mail, told, hand, rows, saves, faults>>

GiveRecipient(d) ==
    /\ Dialogue(d, "ready", "addressed")
    /\ mail[d] <= MaxMails
    /\ UNCHANGED <<config, defaultDomain, logins, mail, told, hand, rows, saves, faults>>

(* QUIT or a lost connection: no handler clears the login. *)
Leave(d) ==
    /\ \E from \in {"greeted", "ready", "addressed"} : Dialogue(d, from, "away")
    /\ UNCHANGED <<config, defaultDomain, logins, mail, told, hand, rows, saves, faults>>

-----------------------------------------------------------------------------
(* handle_DATA *)

Login(d) == logins[PeerOf[d]]
Allowed(d) == PeerOf[d] \in config.allowed
MayRelay(d) == Login(d) # NoLogin \/ Allowed(d)

(* DATA is answered before anything was stored: `goesOn' tells whether the *)
(* device turns to its next mail.                                          *)
Turned(d, goesOn) ==
    /\ Dialogue(d, "addressed", "ready")
    /\ mail' = IF goesOn THEN [mail EXCEPT ![d] = @ + 1] ELSE mail
    /\ UNCHANGED <<config, defaultDomain, logins, told, hand, rows, saves, faults>>

Denied(d) == ~MayRelay(d) /\ Turned(d, TRUE)

NotConfigured(d) == MayRelay(d) /\ ~config.ews /\ Turned(d, FALSE)

(* Mutated Deferred: the mail is stored before the backlog is looked at. *)
DeferredStored(d) ==
    /\ MayRelay(d) /\ config.ews
    /\ Login(d) # NoLogin
    /\ Len(rows[d]) < MaxMails + MaxFaults + 1
    /\ Dialogue(d, "addressed", "ready")
    /\ rows' = [rows EXCEPT ![d] = Append(@, [mail |-> mail[d], as |-> Login(d), by |-> "login"])]
    /\ UNCHANGED <<config, defaultDomain, logins, mail, told, hand, saves, faults>>

(* check_backpressure: the breaker is open or the backlog is full. *)
Deferred(d) == MayRelay(d) /\ config.ews /\ Turned(d, FALSE)

(* Counting the backlog raises outside the try block: aiosmtpd says 500. *)
BackpressureRaises(d) == MayRelay(d) /\ config.ews /\ Turned(d, TRUE)

NoCredentials(d) ==
    /\ Login(d) = NoLogin /\ Allowed(d)
    /\ config.ews /\ config.account = NoAccount
    /\ Turned(d, FALSE)

Chosen(d) ==
    IF Login(d) # NoLogin THEN Login(d)
    ELSE [user |-> config.account, password |-> config.account, domain |-> Own]

TakeData(d) ==
    /\ Dialogue(d, "addressed", "handled")
    /\ hand' = [at |-> "chosen", device |-> d, as |-> Chosen(d),
                by |-> IF Login(d) # NoLogin THEN "login" ELSE "config"]
    /\ UNCHANGED <<config, defaultDomain, logins, mail, told, rows, saves, faults>>

(* Mutated Choose: the configured credentials need not be there. *)
ChooseAnyAccount(d) == MayRelay(d) /\ config.ews /\ TakeData(d)

Choose(d) ==
    /\ MayRelay(d)
    /\ config.ews
    /\ Login(d) # NoLogin \/ config.account # NoAccount
    /\ TakeData(d)

-----------------------------------------------------------------------------
(* accept_smtp *)

(* The row is committed. *)
InsertAs(d, credentials) ==
    /\ AtWork(d) /\ hand.at = "chosen"
    /\ rows' = [rows EXCEPT ![d] = Append(@, [mail |-> mail[d], as |-> credentials, by |-> hand.by])]
    /\ hand' = [hand EXCEPT !.at = "stored"]
    /\ UNCHANGED <<config, defaultDomain, logins, conn, mail, told, saves, faults>>

(* Mutated InsertRow: the password is read from the configuration again. *)
InsertRowRereading(d) ==
    /\ AtWork(d)
    /\ config.account # NoAccount
    /\ InsertAs(d, IF hand.by = "config" THEN [hand.as EXCEPT !.password = config.account]
                   ELSE hand.as)

InsertRow(d) == AtWork(d) /\ InsertAs(d, hand.as)

Answered(d) ==
    /\ AtWork(d)
    /\ hand' = NoData
    /\ conn' = [conn EXCEPT ![d] = "ready"]

(* Parsing the mail or the INSERT raises: 451. *)
InsertRaises(d) ==
    /\ hand.at = "chosen"
    /\ Answered(d)
    /\ UNCHANGED <<config, defaultDomain, logins, mail, told, rows, saves, faults>>

(* 250, after the event was published and the workers were woken. *)
Accepted(d) ==
    /\ hand.at = "stored"
    /\ Answered(d)
    /\ told' = [told EXCEPT ![d] = @ \cup {mail[d]}]
    /\ mail' = [mail EXCEPT ![d] = @ + 1]
    /\ UNCHANGED <<config, defaultDomain, logins, rows, saves, faults>>

(* The row is committed, then reading it back or publishing raises: 451. *)
AcceptRaises(d) ==
    /\ hand.at = "stored"
    /\ faults < MaxFaults
    /\ Answered(d)
    /\ faults' = faults + 1
    /\ UNCHANGED <<config, defaultDomain, logins, mail, told, rows, saves>>

HandleData(d) ==
    \/ Denied(d) \/ NotConfigured(d) \/ Deferred(d) \/ BackpressureRaises(d)
    \/ NoCredentials(d) \/ Choose(d)
    \/ InsertRow(d) \/ InsertRaises(d) \/ Accepted(d) \/ AcceptRaises(d)

-----------------------------------------------------------------------------
(* RuntimeConfig.replace, called by a request of the API. *)
Save ==
    /\ saves < MaxSaves
    /\ \E c \in Configs \ {config} : config' = c
    /\ saves' = saves + 1
    /\ UNCHANGED <<defaultDomain, logins, conn, mail, told, hand, rows, faults>>

(* The process ends and is started again: connections and logins are gone. *)
Restart ==
    /\ faults < MaxFaults
    /\ faults' = faults + 1
    /\ defaultDomain' = DomainOf(config)
    /\ logins' = [p \in Peers |-> NoLogin]
    /\ conn' = [d \in Devices |-> "away"]
    /\ hand' = NoData
    /\ UNCHANGED <<config, mail, told, rows, saves>>

Next ==
    \/ \E d \in Devices :
        \/ Connect(d) \/ LogIn(d) \/ LogInRefused(d) \/ GiveRecipient(d) \/ Leave(d)
        \/ HandleData(d)
    \/ Save
    \/ Restart

Spec == Init /\ [][Next]_vars

-----------------------------------------------------------------------------
(* Every variable has its type; what is stored or kept is usable as credentials. *)
TypeOK ==
    /\ config \in Configs
    /\ defaultDomain \in Domains \ {Own}
    /\ logins \in [Peers -> Credentials \cup {NoLogin}]
    /\ conn \in [Devices -> {"away", "greeted", "ready", "addressed", "handled"}]
    /\ mail \in [Devices -> 1..MaxMails + 1]
    /\ \A d \in Devices : told[d] \subseteq 1..MaxMails
    /\ hand # NoData =>
        /\ hand \in [at : {"chosen", "stored"}, device : Devices,
                     as : Credentials, by : {"login", "config"}]
        /\ conn[hand.device] = "handled"
    /\ \A d \in Devices : \A i \in 1..Len(rows[d]) :
        rows[d][i] \in [mail : 1..MaxMails, as : Credentials, by : {"login", "config"}]
    /\ saves \in 0..MaxSaves /\ faults \in 0..MaxFaults

Stored(d) == {rows[d][i] : i \in 1..Len(rows[d])}
Copies(d, m) == Cardinality({i \in 1..Len(rows[d]) : rows[d][i].mail = m})

(* User name and password of a row belong together, whatever logins and    *)
(* saves came between the lookup and the insert.                           *)
CredentialsMatch ==
    \A d \in Devices : \A r \in Stored(d) : r.as.user = r.as.password

(* A device that shares its address with no other never has its mail sent  *)
(* under another device's login, though logins outlive connections.        *)
SoleDeviceKeepsLogin ==
    \A d \in Devices :
        (\A e \in Devices : PeerOf[e] = PeerOf[d] => e = d) =>
            \A r \in Stored(d) : r.by = "login" => r.as.user = d

(* What a client was told agrees with the queue: a mail answered 250 is     *)
(* stored, and one is stored again only because its client was not told of *)
(* the copy before: the answer failed after the commit, or the process     *)
(* ended.                                                                  *)
StoredAsTold ==
    \A d \in Devices : \A m \in 1..MaxMails :
        /\ m \in told[d] => Copies(d, m) > 0
        /\ Copies(d, m) <= 1 + faults

(* test_smtp_anonymous_allowlisted_uses_configured_ews_creds: a device     *)
(* without a login has its mail sent with the configured account.          *)
AnonymousUsesConfigured ==
    \A d \in Devices \ WithLogin : \A r \in Stored(d) : r.as.user \in Accounts

=============================================================================
