-------------------------- MODULE SmtpSessionProofs --------------------------
(* What SmtpSession promises, for every set of devices, addresses and      *)
(* configurations, and any number of mails, saves and faults.  The         *)
(* inductive invariant has three parts: the types, whose credentials are   *)
(* where, and how many copies of a mail may be stored at which moment of   *)
(* its handling.                                                           *)
EXTENDS SmtpSession, FiniteSetTheorems, TLAPS

Rows == [mail : 1..MaxMails, as : Credentials, by : {"login", "config"}]
Commands == [at : {"chosen", "stored"}, device : Devices, as : Credentials, by : {"login", "config"}]
ConnStates == {"away", "greeted", "ready", "addressed", "handled"}

(* A device gives a recipient only while it has a mail left to offer. *)
Typed ==
    /\ config \in Configs
    /\ defaultDomain \in Domains \ {Own}
    /\ logins \in [Peers -> Credentials \cup {NoLogin}]
    /\ conn \in [Devices -> ConnStates]
    /\ mail \in [Devices -> 1..MaxMails + 1]
    /\ told \in [Devices -> SUBSET (1..MaxMails)]
    /\ hand \in {NoData} \cup Commands
    /\ hand # NoData => conn[hand.device] = "handled"
    /\ rows \in [Devices -> Seq(Rows)]
    /\ saves \in 0..MaxSaves /\ faults \in 0..MaxFaults
    /\ \A d \in Devices : conn[d] \in {"addressed", "handled"} => mail[d] <= MaxMails

(* Credentials that are one pair, and, where they were a login, of a       *)
(* device at address p.                                                    *)
GivenFrom(p, c) == \E e \in Devices : PeerOf[e] = p /\ c.user = e
Fits(p, r) == r.as.user = r.as.password /\ (r.by = "login" => GivenFrom(p, r.as))

LoginsTraced ==
    /\ \A p \in Peers : logins[p] # NoLogin =>
        logins[p].user = logins[p].password /\ GivenFrom(p, logins[p])
    /\ hand # NoData => Fits(PeerOf[hand.device], hand)
    /\ \A d \in Devices : \A i \in 1..Len(rows[d]) : Fits(PeerOf[d], rows[d][i])

(* A copy is owed to no fault when its mail was answered for good, or when *)
(* it is the one being handled.                                            *)
InHand(d, m) == m = mail[d] /\ AtWork(d) /\ hand.at = "stored"
Owed(d, m) == m < mail[d] \/ InHand(d, m)

CopiesCounted ==
    \A d \in Devices : \A m \in 1..MaxMails :
        /\ m \in told[d] \/ InHand(d, m) => Copies(d, m) > 0
        /\ Copies(d, m) <= faults + (IF Owed(d, m) THEN 1 ELSE 0)

IInv == Typed /\ LoginsTraced /\ CopiesCounted


-----------------------------------------------------------------------------
(* The steps, by what they move.                                           *)

(* The dialogue goes on and nothing is in hand: perhaps a login, perhaps   *)
(* the turn to the next mail.                                              *)
Talks(d) ==
    /\ hand = NoData
    /\ UNCHANGED <<config, defaultDomain, told, hand, rows, saves, faults>>
    /\ logins' = logins \/ logins' = [logins EXCEPT ![PeerOf[d]] = Sanitized(d)]
    /\ \E to \in ConnStates \ {"handled"} :
        /\ conn' = [conn EXCEPT ![d] = to]
        /\ \/ mail' = mail /\ (to = "addressed" => mail[d] <= MaxMails)
           \/ mail' = [mail EXCEPT ![d] = @ + 1] /\ conn[d] = "addressed" /\ to = "ready"

(* A DATA command turned down at once is dialogue: nothing is stored.      *)
LEMMA TurnedTalks ==
  ASSUME NEW d \in Devices, NEW g \in BOOLEAN, Turned(d, g)
  PROVE  Talks(d)
<1>1. /\ hand = NoData /\ UNCHANGED <<config, defaultDomain, logins, told, hand, rows, saves, faults>>
      /\ conn[d] = "addressed" /\ conn' = [conn EXCEPT ![d] = "ready"]
      /\ mail' = mail \/ mail' = [mail EXCEPT ![d] = @ + 1]
  BY DEF Turned, Dialogue, LoopFree
<1>2. "ready" \in ConnStates \ {"handled"} /\ "ready" # "addressed"
  BY DEF ConnStates
<1>3. \E to \in ConnStates \ {"handled"} :
        /\ conn' = [conn EXCEPT ![d] = to]
        /\ \/ mail' = mail /\ (to = "addressed" => mail[d] <= MaxMails)
           \/ mail' = [mail EXCEPT ![d] = @ + 1] /\ conn[d] = "addressed" /\ to = "ready"
  BY <1>1, <1>2
<1>4. QED
  BY <1>1, <1>3 DEF Talks

(* A step of the dialogue in which the device keeps its mail. *)
LEMMA DialogueTalks ==
  ASSUME NEW d \in Devices, NEW from, NEW to \in ConnStates \ {"handled"}, Dialogue(d, from, to),
         to = "addressed" => mail[d] <= MaxMails,
         UNCHANGED <<config, defaultDomain, mail, told, hand, rows, saves, faults>>,
         logins' = logins \/ logins' = [logins EXCEPT ![PeerOf[d]] = Sanitized(d)]
  PROVE  Talks(d)
  BY DEF Talks, Dialogue, LoopFree

(* So is every other command but DATA.                                     *)
LEMMA TalkingTalks ==
  ASSUME NEW d \in Devices,
         Connect(d) \/ LogIn(d) \/ LogInRefused(d) \/ GiveRecipient(d) \/ Leave(d)
  PROVE  Talks(d)
<1>1. {"away", "greeted", "ready", "addressed"} \subseteq ConnStates \ {"handled"}
  BY DEF ConnStates
<1>2. CASE Connect(d)
  <2>1. PICK to \in {"greeted", "ready"} : Dialogue(d, "away", to)
    BY <1>2 DEF Connect
  <2>2. QED
    BY <1>1, <1>2, <2>1, DialogueTalks DEF Connect
<1>3. CASE LogIn(d)
  BY <1>1, <1>3, DialogueTalks DEF LogIn
<1>4. CASE LogInRefused(d)
  <2>1. PICK to \in {"away", "ready"} : Dialogue(d, "greeted", to)
    BY <1>4 DEF LogInRefused
  <2>2. QED
    BY <1>1, <1>4, <2>1, DialogueTalks DEF LogInRefused
<1>5. CASE GiveRecipient(d)
  BY <1>1, <1>5, DialogueTalks DEF GiveRecipient
<1>6. CASE Leave(d)
  <2>1. PICK from \in {"greeted", "ready", "addressed"} : Dialogue(d, from, "away")
    BY <1>6 DEF Leave
  <2>2. QED
    BY <1>1, <1>6, <2>1, DialogueTalks DEF Leave
<1>7. QED
  BY <1>2, <1>3, <1>4, <1>5, <1>6

(* A step is dialogue, a part of a DATA command, a save or a restart.      *)
LEMMA Kinds ==
  ASSUME [Next]_vars
  PROVE  \/ \E d \in Devices : Talks(d) \/ Choose(d) \/ InsertRow(d) \/ InsertRaises(d)
                               \/ Accepted(d) \/ AcceptRaises(d)
         \/ Save \/ Restart \/ UNCHANGED vars
<1>1. ASSUME NEW d \in Devices,
             Denied(d) \/ NotConfigured(d) \/ Deferred(d) \/ BackpressureRaises(d) \/ NoCredentials(d)
      PROVE  Talks(d)
  BY <1>1, TurnedTalks DEF Denied, NotConfigured, Deferred, BackpressureRaises, NoCredentials
<1>2. QED
  BY <1>1, TalkingTalks DEF Next, HandleData

(* A device whose DATA is handled is the one in hand, with a mail left to  *)
(* offer.                                                                  *)
LEMMA AtWorkIsHand ==
  ASSUME Typed, NEW d \in Devices, AtWork(d)
  PROVE  hand \in Commands /\ hand.device = d /\ conn[d] = "handled" /\ mail[d] \in 1..MaxMails
<1>1. hand # NoData
  BY DEF AtWork, NoData
<1>2. QED
  BY <1>1, SessionAssumption DEF AtWork, Typed

-----------------------------------------------------------------------------
(* The types.                                                              *)

(* A login is kept as credentials with a domain.                           *)
LEMMA SanitizedIsUsable ==
  ASSUME Typed, NEW d \in Devices
  PROVE  Sanitized(d) \in Credentials
  BY DEF Typed, Sanitized, Credentials, Domains

(* What handle_DATA chooses, from a login or the configured account, are   *)
(* credentials.                                                            *)
LEMMA ChosenIsUsable ==
  ASSUME Typed, NEW d \in Devices, Login(d) # NoLogin \/ config.account # NoAccount
  PROVE  Chosen(d) \in Credentials
<1>1. CASE Login(d) # NoLogin
  BY <1>1, SessionAssumption DEF Typed, Chosen, Login
<1>2. CASE Login(d) = NoLogin
  BY <1>2 DEF Typed, Chosen, Credentials, Accounts, Domains
<1>3. QED
  BY <1>1, <1>2

(* Dialogue keeps the types.                                               *)
LEMMA TalkKeepsTypes ==
  ASSUME Typed, NEW d \in Devices, Talks(d)
  PROVE  Typed'
<1>1. logins' \in [Peers -> Credentials \cup {NoLogin}]
  BY ZenonT(60), SanitizedIsUsable DEF Typed, Talks
<1>2. PICK to \in ConnStates \ {"handled"} :
        /\ conn' = [conn EXCEPT ![d] = to]
        /\ \/ mail' = mail /\ (to = "addressed" => mail[d] <= MaxMails)
           \/ mail' = [mail EXCEPT ![d] = @ + 1] /\ conn[d] = "addressed" /\ to = "ready"
  BY DEF Talks
<1>3. conn' \in [Devices -> ConnStates] /\ conn'[d] = to /\ \A e \in Devices \ {d} : conn'[e] = conn[e]
  BY <1>2 DEF Typed
<1>4. mail' \in [Devices -> 1..MaxMails + 1] /\ \A e \in Devices \ {d} : mail'[e] = mail[e]
  <2>1. MaxMails \in Nat /\ mail \in [Devices -> 1..MaxMails + 1]
    BY SessionAssumption DEF Typed
  <2>2. conn[d] = "addressed" => mail[d] + 1 \in 1..MaxMails + 1
    BY <2>1 DEF Typed
  <2>3. QED
    BY <1>2, <2>1, <2>2
<1>5. \A e \in Devices : conn'[e] \in {"addressed", "handled"} => mail'[e] <= MaxMails
  BY <1>2, <1>3, <1>4 DEF Typed
<1>6. hand' = NoData
  BY DEF Talks
<1>7. QED
  BY <1>1, <1>3, <1>4, <1>5, <1>6 DEF Typed, Talks

(* What a handled mail leaves behind: nothing in hand, and the device ready. *)
LEMMA AnsweredMoves ==
  ASSUME Typed, NEW d \in Devices, Answered(d)
  PROVE  /\ AtWork(d) /\ hand' = NoData
         /\ conn' \in [Devices -> ConnStates] /\ conn'[d] = "ready"
         /\ \A e \in Devices \ {d} : conn'[e] = conn[e] /\ ~AtWork(e)
  BY DEF Typed, Answered, ConnStates, AtWork

(* No step breaks a type.                                                  *)
LEMMA TypesStep == Typed /\ [Next]_vars => Typed'
<1> SUFFICES ASSUME Typed, [Next]_vars PROVE Typed'
  OBVIOUS
<1>1. ASSUME NEW d \in Devices, Talks(d) PROVE Typed'
  BY <1>1, TalkKeepsTypes
<1>2. ASSUME NEW d \in Devices, Choose(d) PROVE Typed'
  <2>1. /\ conn[d] = "addressed" /\ conn' = [conn EXCEPT ![d] = "handled"]
        /\ hand' = [at |-> "chosen", device |-> d, as |-> Chosen(d),
                    by |-> IF Login(d) # NoLogin THEN "login" ELSE "config"]
        /\ UNCHANGED <<config, defaultDomain, logins, mail, told, rows, saves, faults>>
    BY <1>2 DEF Choose, TakeData, Dialogue
  <2>2. hand' \in Commands /\ hand'.device = d
    BY <1>2, <2>1, ChosenIsUsable DEF Choose, Commands
  <2>3. conn' \in [Devices -> ConnStates] /\ conn'[d] = "handled" /\ \A e \in Devices \ {d} : conn'[e] = conn[e]
    BY <2>1 DEF Typed, ConnStates
  <2>4. \A e \in Devices : conn'[e] \in {"addressed", "handled"} => mail'[e] <= MaxMails
    BY <2>1, <2>3 DEF Typed
  <2>5. QED
    BY <2>1, <2>2, <2>3, <2>4 DEF Typed
<1>3. ASSUME NEW d \in Devices, InsertRow(d) PROVE Typed'
  <2>1. /\ AtWork(d) /\ hand.at = "chosen"
        /\ rows' = [rows EXCEPT ![d] = Append(@, [mail |-> mail[d], as |-> hand.as, by |-> hand.by])]
        /\ hand' = [hand EXCEPT !.at = "stored"]
        /\ UNCHANGED <<config, defaultDomain, logins, conn, mail, told, saves, faults>>
    BY <1>3 DEF InsertRow, InsertAs
  <2>2. hand \in Commands /\ hand.device = d /\ conn[d] = "handled" /\ mail[d] \in 1..MaxMails
    BY <2>1, AtWorkIsHand
  <2>3. hand' \in Commands /\ hand'.device = d
    BY <2>1, <2>2 DEF Commands
  <2>4. [mail |-> mail[d], as |-> hand.as, by |-> hand.by] \in Rows
    BY <2>2 DEF Rows, Commands
  <2>5. rows' \in [Devices -> Seq(Rows)]
    BY <2>1, <2>4 DEF Typed
  <2>6. QED
    BY <2>1, <2>2, <2>3, <2>5 DEF Typed
<1>4. ASSUME NEW d \in Devices, InsertRaises(d) \/ AcceptRaises(d) PROVE Typed'
  <2>1. /\ Answered(d) /\ UNCHANGED <<config, defaultDomain, logins, mail, told, rows, saves>>
        /\ faults' \in 0..MaxFaults
    BY <1>4, SessionAssumption DEF InsertRaises, AcceptRaises, Typed
  <2>2. QED
    BY <2>1, AnsweredMoves DEF Typed
<1>5. ASSUME NEW d \in Devices, Accepted(d) PROVE Typed'
  <2>1. /\ Answered(d) /\ UNCHANGED <<config, defaultDomain, logins, rows, saves, faults>>
        /\ told' = [told EXCEPT ![d] = @ \cup {mail[d]}] /\ mail' = [mail EXCEPT ![d] = @ + 1]
    BY <1>5 DEF Accepted
  <2>2. mail[d] \in 1..MaxMails
    BY <2>1, AnsweredMoves, AtWorkIsHand
  <2>3. told' \in [Devices -> SUBSET (1..MaxMails)]
    BY <2>1, <2>2 DEF Typed
  <2>4. mail' \in [Devices -> 1..MaxMails + 1] /\ \A e \in Devices \ {d} : mail'[e] = mail[e]
    BY <2>1, <2>2, SessionAssumption DEF Typed
  <2>5. QED
    BY <2>1, <2>3, <2>4, AnsweredMoves DEF Typed
<1>6. CASE Save
  <2>1. config' \in Configs /\ saves' \in 0..MaxSaves
    BY <1>6, SessionAssumption DEF Save, Typed
  <2>2. QED
    BY <1>6, <2>1 DEF Save, Typed
<1>7. CASE Restart
  <2>1. faults' \in 0..MaxFaults /\ defaultDomain' \in Domains \ {Own}
    <3>1. faults' \in 0..MaxFaults
      BY <1>7, SessionAssumption DEF Restart, Typed
    <3>2. config \in Configs /\ defaultDomain' = DomainOf(config)
      BY <1>7 DEF Restart, Typed
    <3>3. DomainOf(config) \in Domains \ {Own}
      BY <3>2, SessionAssumption DEF DomainOf, Domains, NoDomain, Own
    <3>4. QED
      BY <3>1, <3>2, <3>3
  <2>2. /\ logins' \in [Peers -> Credentials \cup {NoLogin}] /\ hand' = NoData
        /\ conn' = [d \in Devices |-> "away"]
    BY <1>7 DEF Restart
  <2>3. QED
    BY <1>7, <2>1, <2>2 DEF Restart, Typed, ConnStates
<1>8. CASE UNCHANGED vars
  BY <1>8 DEF vars, Typed
<1>9. QED
  BY <1>1, <1>2, <1>3, <1>4, <1>5, <1>6, <1>7, <1>8, Kinds


-----------------------------------------------------------------------------
(* Whose credentials are where.                                            *)

(* No step mixes two pairs, or moves a login to another address.           *)
LEMMA LoginsStep == Typed /\ LoginsTraced /\ [Next]_vars => LoginsTraced'
<1> SUFFICES ASSUME Typed, LoginsTraced, [Next]_vars PROVE LoginsTraced'
  OBVIOUS
<1> USE DEF Fits, GivenFrom
<1>1. ASSUME UNCHANGED <<logins, rows>>, hand' = hand \/ hand' = NoData PROVE LoginsTraced'
  BY <1>1 DEF LoginsTraced
<1>2. ASSUME NEW d \in Devices, Talks(d) PROVE LoginsTraced'
  <2>1. UNCHANGED <<hand, rows>>
    BY <1>2 DEF Talks
  <2>2. CASE logins' = logins
    BY <1>1, <2>1, <2>2
  <2>3. CASE logins' = [logins EXCEPT ![PeerOf[d]] = Sanitized(d)]
    <3>1. logins \in [Peers -> Credentials \cup {NoLogin}] /\ PeerOf[d] \in Peers
      BY SessionAssumption DEF Typed
    <3>2. Sanitized(d).user = d /\ Sanitized(d).password = d
      BY DEF Sanitized
    <3>3. \A p \in Peers : logins'[p] # NoLogin =>
            logins'[p].user = logins'[p].password /\ GivenFrom(p, logins'[p])
      BY <2>3, <3>1, <3>2 DEF LoginsTraced
    <3>4. QED
      BY <2>1, <3>3 DEF LoginsTraced
  <2>4. QED
    BY <1>2, <2>2, <2>3 DEF Talks
<1>3. ASSUME NEW d \in Devices, Choose(d) PROVE LoginsTraced'
  <2>1. /\ hand' = [at |-> "chosen", device |-> d, as |-> Chosen(d),
                    by |-> IF Login(d) # NoLogin THEN "login" ELSE "config"]
        /\ UNCHANGED <<logins, rows>>
    BY <1>3 DEF Choose, TakeData
  <2>2. PeerOf[d] \in Peers
    BY SessionAssumption
  <2>3. CASE Login(d) # NoLogin
    <3>1. Chosen(d) = logins[PeerOf[d]] /\ logins[PeerOf[d]] # NoLogin
      BY <2>3 DEF Chosen, Login
    <3>2. Fits(PeerOf[d], hand') /\ hand'.device = d
      BY <2>1, <2>2, <3>1 DEF LoginsTraced
    <3>3. QED
      BY <2>1, <3>2 DEF LoginsTraced
  <2>4. CASE Login(d) = NoLogin
    <3>1. Chosen(d).user = Chosen(d).password
      BY <2>4 DEF Chosen
    <3>2. Fits(PeerOf[d], hand') /\ hand'.device = d
      BY <2>1, <2>4, <3>1
    <3>3. QED
      BY <2>1, <3>2 DEF LoginsTraced
  <2>5. QED
    BY <2>3, <2>4
<1>4. ASSUME NEW d \in Devices, InsertRow(d) PROVE LoginsTraced'
  <2> DEFINE r == [mail |-> mail[d], as |-> hand.as, by |-> hand.by]
  <2>1. /\ AtWork(d) /\ rows' = [rows EXCEPT ![d] = Append(@, r)]
        /\ hand' = [hand EXCEPT !.at = "stored"] /\ UNCHANGED logins
    BY <1>4 DEF InsertRow, InsertAs
  <2>2. hand \in Commands /\ hand.device = d /\ hand # NoData
    BY <2>1, AtWorkIsHand DEF AtWork, NoData
  <2>3. Fits(PeerOf[d], hand)
    BY <2>2 DEF LoginsTraced
  <2>4. r.as = hand.as /\ r.by = hand.by
    OBVIOUS
  <2>5. hand'.as = hand.as /\ hand'.by = hand.by /\ hand'.device = d
    BY <2>1, <2>2 DEF Commands
  <2>6. rows[d] \in Seq(Rows) /\ Len(rows[d]) \in Nat
    BY DEF Typed
  <2> HIDE DEF r
  <2>7. /\ Len(Append(rows[d], r)) = Len(rows[d]) + 1 /\ Append(rows[d], r)[Len(rows[d]) + 1] = r
        /\ \A i \in 1..Len(rows[d]) : Append(rows[d], r)[i] = rows[d][i]
    BY <2>6
  <2>8. Fits(PeerOf[d], r)
    BY <2>3, <2>4
  <2>9. \A e \in Devices : \A i \in 1..Len(rows'[e]) : Fits(PeerOf[e], rows'[e][i])
    <3> SUFFICES ASSUME NEW e \in Devices, NEW i \in 1..Len(rows'[e])
                 PROVE  Fits(PeerOf[e], rows'[e][i])
      OBVIOUS
    <3>1. CASE e # d
      BY <2>1, <3>1 DEF Typed, LoginsTraced
    <3>2. CASE e = d
      <4>1. rows'[e] = Append(rows[d], r)
        BY <2>1, <3>2 DEF Typed
      <4>2. i = Len(rows[d]) + 1 \/ i \in 1..Len(rows[d])
        BY <2>6, <2>7, <4>1
      <4>3. QED
        BY <2>7, <2>8, <3>2, <4>1, <4>2 DEF LoginsTraced
    <3>3. QED
      BY <3>1, <3>2
  <2>10. Fits(PeerOf[hand'.device], hand')
    BY <2>3, <2>5
  <2>11. \A p \in Peers : logins'[p] # NoLogin =>
            logins'[p].user = logins'[p].password /\ GivenFrom(p, logins'[p])
    BY <2>1 DEF LoginsTraced
  <2>12. QED
    BY <2>9, <2>10, <2>11 DEF LoginsTraced
<1>5. ASSUME NEW d \in Devices, InsertRaises(d) \/ Accepted(d) \/ AcceptRaises(d) PROVE LoginsTraced'
  BY <1>1, <1>5 DEF InsertRaises, Accepted, AcceptRaises, Answered
<1>6. CASE Save \/ UNCHANGED vars
  BY <1>1, <1>6 DEF Save, vars
<1>7. CASE Restart
  <2>1. hand' = NoData /\ rows' = rows /\ \A p \in Peers : logins'[p] = NoLogin
    BY <1>7 DEF Restart
  <2>2. QED
    BY <2>1 DEF LoginsTraced
<1>8. QED
  BY <1>2, <1>3, <1>4, <1>5, <1>6, <1>7, Kinds


-----------------------------------------------------------------------------
(* The copies of a mail.                                                   *)

Places(d, m) == {i \in 1..Len(rows[d]) : rows[d][i].mail = m}

(* Copies counts the finitely many places of a mail among the rows.        *)
LEMMA CopiesAreFinite ==
  ASSUME Typed, NEW d \in Devices, NEW m
  PROVE  IsFiniteSet(Places(d, m)) /\ Copies(d, m) = Cardinality(Places(d, m)) /\ Copies(d, m) \in Nat
<1>1. Len(rows[d]) \in Nat
  BY DEF Typed
<1>2. IsFiniteSet(1..Len(rows[d])) /\ Places(d, m) \subseteq 1..Len(rows[d])
  <2>1. IsFiniteSet(1..Len(rows[d]))
    BY <1>1, FS_Interval
  <2>2. QED
    BY <2>1 DEF Places
<1>3. IsFiniteSet(Places(d, m))
  BY <1>2, FS_Subset
<1>4. Copies(d, m) = Cardinality(Places(d, m))
  BY DEF Copies, Places
<1>5. QED
  BY <1>3, <1>4, FS_CardinalityType

(* Rows that stay are counted as before.                                   *)
LEMMA CopiesStay == rows' = rows => \A d, m : Copies(d, m)' = Copies(d, m)
  BY DEF Copies

(* A row stored is one copy more, of the mail in hand. *)
LEMMA CopiesGrow ==
  ASSUME Typed, NEW d \in Devices, InsertRow(d), NEW e \in Devices, NEW m
  PROVE  Copies(e, m)' = Copies(e, m) + (IF e = d /\ m = mail[d] THEN 1 ELSE 0)
<1> DEFINE r == [mail |-> mail[d], as |-> hand.as, by |-> hand.by]
           s == rows[d]
<1>1. rows' = [rows EXCEPT ![d] = Append(s, r)] /\ r.mail = mail[d]
  BY DEF InsertRow, InsertAs
<1>2. s \in Seq(Rows) /\ Len(s) \in Nat
  BY DEF Typed
<1>3. IsFiniteSet(Places(e, m)) /\ Copies(e, m) = Cardinality(Places(e, m)) /\ Copies(e, m) \in Nat
  BY CopiesAreFinite
<1>4. Copies(e, m)' = Cardinality(Places(e, m)')
  BY DEF Copies, Places
<1>5. CASE e # d
  <2>1. rows'[e] = rows[e]
    BY <1>1, <1>5 DEF Typed
  <2>2. Places(e, m)' = Places(e, m)
    BY <2>1 DEF Places
  <2>3. QED
    BY <1>3, <1>4, <1>5, <2>2
<1>6. CASE e = d
  <2>1. rows'[e] = Append(s, r)
    BY <1>1, <1>6 DEF Typed
  <2> HIDE DEF r
  <2>2. /\ Len(rows'[e]) = Len(s) + 1 /\ rows'[e][Len(s) + 1] = r
        /\ \A i \in 1..Len(s) : rows'[e][i] = s[i]
    BY <1>2, <2>1
  <2> HIDE DEF s
  <2>3. Places(e, m)' = {i \in 1..Len(s) + 1 : rows'[e][i].mail = m}
    BY <2>2 DEF Places
  <2>4. Places(e, m) = {i \in 1..Len(s) : s[i].mail = m}
    BY <1>6 DEF Places, s
  <2>5. CASE m = mail[d]
    <3>1. Places(e, m)' = Places(e, m) \cup {Len(s) + 1}
      BY <1>1, <1>2, <2>2, <2>3, <2>4, <2>5
    <3>2. Len(s) + 1 \notin Places(e, m)
      BY <1>2, <2>4
    <3>3. Cardinality(Places(e, m)') = Cardinality(Places(e, m)) + 1
      BY <1>3, <3>1, <3>2, FS_AddElement
    <3>4. QED
      BY <1>3, <1>4, <1>6, <2>5, <3>3
  <2>6. CASE m # mail[d]
    <3>1. Places(e, m)' = Places(e, m)
      BY <1>1, <1>2, <2>2, <2>3, <2>4, <2>6
    <3>2. QED
      BY <1>3, <1>4, <2>6, <3>1
  <2>7. QED
    BY <2>5, <2>6
<1>7. QED
  BY <1>5, <1>6

(* A copy more is the mail in hand, and a mail offered again after it was  *)
(* stored cost a fault.                                                    *)
LEMMA CopiesStep == Typed /\ CopiesCounted /\ [Next]_vars => CopiesCounted'
<1> SUFFICES ASSUME Typed, CopiesCounted, [Next]_vars PROVE CopiesCounted'
  OBVIOUS
<1>1. /\ faults \in Nat /\ mail \in [Devices -> Nat] /\ told \in [Devices -> SUBSET (1..MaxMails)]
      /\ \A d \in Devices : \A m \in 1..MaxMails : Copies(d, m) \in Nat
  BY CopiesAreFinite, SessionAssumption DEF Typed
<1>2. \A d \in Devices : \A m \in 1..MaxMails :
        /\ m \in told[d] \/ InHand(d, m) => Copies(d, m) > 0
        /\ Copies(d, m) <= faults + (IF Owed(d, m) THEN 1 ELSE 0)
  BY DEF CopiesCounted
<1>3. ASSUME rows' = rows, told' = told, faults' \in {faults, faults + 1}, hand'.at # "stored",
             \A d \in Devices : \A m \in 1..MaxMails : Owed(d, m) => Owed(d, m)' \/ faults' = faults + 1
      PROVE  CopiesCounted'
  <2>1. \A d, m : ~InHand(d, m)'
    BY <1>3 DEF InHand
  <2>2. QED
    BY <1>1, <1>2, <1>3, <2>1, CopiesStay DEF CopiesCounted
<1>4. ASSUME NEW d \in Devices, Talks(d) PROVE CopiesCounted'
  <2>1. rows' = rows /\ told' = told /\ faults' = faults /\ hand' = hand /\ hand.at # "stored"
    BY <1>4 DEF Talks, NoData
  <2>2. \A e \in Devices : mail'[e] \in Nat /\ mail'[e] >= mail[e]
    BY <1>1, <1>4 DEF Talks
  <2>3. \A e \in Devices : \A m \in 1..MaxMails : Owed(e, m) => Owed(e, m)'
    BY <1>1, <2>1, <2>2 DEF Owed, InHand
  <2>4. QED
    BY <1>3, <2>1, <2>3
<1>5. ASSUME NEW d \in Devices, Choose(d) PROVE CopiesCounted'
  <2>1. /\ rows' = rows /\ told' = told /\ faults' = faults /\ mail' = mail
        /\ hand'.at # "stored" /\ hand.at # "stored"
    BY <1>5 DEF Choose, TakeData, Dialogue, LoopFree, NoData
  <2>2. \A e \in Devices : \A m \in 1..MaxMails : Owed(e, m) => Owed(e, m)'
    BY <2>1 DEF Owed, InHand
  <2>3. QED
    BY <1>3, <2>1, <2>2
<1>6. ASSUME NEW d \in Devices, InsertRow(d) PROVE CopiesCounted'
  <2>1. /\ AtWork(d) /\ hand.at = "chosen" /\ hand' = [hand EXCEPT !.at = "stored"]
        /\ UNCHANGED <<mail, told, faults>>
    BY <1>6 DEF InsertRow, InsertAs
  <2>2. hand \in Commands /\ hand.device = d /\ mail[d] \in 1..MaxMails
    BY <2>1, AtWorkIsHand
  <2>3. hand'.at = "stored" /\ hand'.device = d
    BY <2>1, <2>2 DEF Commands
  <2>4. \A e \in Devices : \A m \in 1..MaxMails :
          Copies(e, m)' = Copies(e, m) + (IF e = d /\ m = mail[d] THEN 1 ELSE 0)
    BY <1>6, CopiesGrow
  <2>5. \A e \in Devices : \A m \in 1..MaxMails :
          ~InHand(e, m) /\ (InHand(e, m)' <=> e = d /\ m = mail[d])
    BY <2>1, <2>2, <2>3 DEF InHand, AtWork
  <2>6. ASSUME NEW e \in Devices, NEW m \in 1..MaxMails
        PROVE  /\ m \in told'[e] \/ InHand(e, m)' => Copies(e, m)' > 0
               /\ Copies(e, m)' <= faults' + (IF Owed(e, m)' THEN 1 ELSE 0)
    <3>1. CASE e = d /\ m = mail[d]
      <4>1. ~Owed(e, m) /\ Owed(e, m)'
        BY <1>1, <2>5, <3>1 DEF Owed
      <4>2. Copies(e, m)' = Copies(e, m) + 1 /\ Copies(e, m) \in Nat /\ Copies(e, m) <= faults
        BY <1>1, <1>2, <2>4, <3>1, <4>1
      <4>3. QED
        BY <1>1, <2>1, <4>1, <4>2
    <3>2. CASE ~(e = d /\ m = mail[d])
      <4>1. /\ Copies(e, m)' = Copies(e, m) /\ (Owed(e, m)' <=> Owed(e, m))
            /\ (InHand(e, m)' <=> InHand(e, m))
        BY <1>1, <2>1, <2>4, <2>5, <3>2 DEF Owed
      <4>2. QED
        BY <1>2, <2>1, <4>1
    <3>3. QED
      BY <3>1, <3>2
  <2>7. QED
    BY <2>6 DEF CopiesCounted
<1>7. ASSUME NEW d \in Devices, InsertRaises(d) PROVE CopiesCounted'
  <2>1. /\ AtWork(d) /\ hand.at = "chosen" /\ hand' = NoData /\ UNCHANGED <<rows, mail, told, faults>>
    BY <1>7 DEF InsertRaises, Answered
  <2>2. \A e \in Devices : \A m \in 1..MaxMails : Owed(e, m) => Owed(e, m)'
    BY <2>1 DEF Owed, InHand
  <2>3. hand'.at # "stored"
    BY <2>1 DEF NoData
  <2>4. QED
    BY <1>3, <2>1, <2>2, <2>3
<1>8. ASSUME NEW d \in Devices, Accepted(d) PROVE CopiesCounted'
  <2>1. /\ AtWork(d) /\ hand.at = "stored" /\ hand' = NoData /\ UNCHANGED <<rows, faults>>
        /\ told' = [told EXCEPT ![d] = @ \cup {mail[d]}] /\ mail' = [mail EXCEPT ![d] = @ + 1]
    BY <1>8 DEF Accepted, Answered
  <2>2. hand.device = d /\ mail[d] \in 1..MaxMails
    BY <2>1, AtWorkIsHand
  <2>3. \A m \in 1..MaxMails : InHand(d, m) <=> m = mail[d]
    BY <2>1, <2>2 DEF InHand
  <2>4. \A e \in Devices \ {d} : \A m : ~InHand(e, m)
    BY <2>2 DEF InHand, AtWork
  <2>5. \A e \in Devices : \A m \in 1..MaxMails : Owed(e, m) => Owed(e, m)'
    BY <1>1, <2>1, <2>3, <2>4 DEF Owed
  <2>6. \A e \in Devices : \A m \in 1..MaxMails : m \in told'[e] => Copies(e, m) > 0
    BY <1>1, <1>2, <2>1, <2>3
  <2>7. \A e, m : ~InHand(e, m)'
    BY <2>1 DEF InHand, NoData
  <2>8. QED
    BY <1>1, <1>2, <2>1, <2>5, <2>6, <2>7, CopiesStay DEF CopiesCounted
<1>9. ASSUME NEW d \in Devices, AcceptRaises(d) PROVE CopiesCounted'
  BY <1>3, <1>9 DEF AcceptRaises, Answered, NoData
<1>10. CASE Restart
  BY <1>3, <1>10 DEF Restart, NoData
<1>11. CASE Save \/ UNCHANGED vars
  <2>1. UNCHANGED <<rows, told, faults, hand, mail>>
    BY <1>11 DEF Save, vars
  <2>2. \A d, m : (Owed(d, m)' <=> Owed(d, m)) /\ (InHand(d, m)' <=> InHand(d, m))
    BY <2>1 DEF Owed, InHand, AtWork
  <2>3. QED
    BY <2>1, <2>2, CopiesStay DEF CopiesCounted
<1>12. QED
  BY <1>4, <1>5, <1>6, <1>7, <1>8, <1>9, <1>10, <1>11, Kinds

-----------------------------------------------------------------------------
(* The theorems.                                                           *)

(* Before the first connection nothing is stored and nobody is told        *)
(* anything.                                                               *)
LEMMA InitEstablishes == Init => IInv
<1> SUFFICES ASSUME Init PROVE IInv
  OBVIOUS
<1>1. DomainOf(config) \in Domains \ {Own}
  BY SessionAssumption DEF Init, DomainOf, Domains, NoDomain, Own
<1>2. \A d \in Devices : rows[d] = <<>> /\ Len(rows[d]) = 0
  BY DEF Init
<1>3. Typed
  BY <1>1, SessionAssumption DEF Init, Typed, ConnStates
<1>4. LoginsTraced
  BY <1>2 DEF Init, LoginsTraced
<1>5. \A d \in Devices : \A m \in 1..MaxMails : Copies(d, m) = 0
  <2>1. \A d \in Devices : \A m \in 1..MaxMails : {i \in 1..Len(rows[d]) : rows[d][i].mail = m} = {}
    BY <1>2
  <2>2. QED
    BY <2>1, FS_EmptySet DEF Copies
<1>6. CopiesCounted
  BY <1>5 DEF Init, CopiesCounted, InHand, NoData
<1>7. QED
  BY <1>3, <1>4, <1>6 DEF IInv

(* The invariant holds in every state, whatever sessions, saves, faults    *)
(* and restarts come between.                                              *)
THEOREM Invariance == Spec => []IInv
<1>1. IInv /\ [Next]_vars => IInv'
  BY TypesStep, LoginsStep, CopiesStep DEF IInv
<1>2. QED
  BY <1>1, InitEstablishes, PTL DEF Spec

(* TypeOK: in particular what SmtpSession stores or keeps is usable as     *)
(* credentials, and no mail is stored beyond those a device has.           *)
THEOREM TypeCorrect == Spec => []TypeOK
<1>1. IInv => TypeOK
  <2> SUFFICES ASSUME Typed PROVE TypeOK
    BY DEF IInv
  <2>1. \A d \in Devices : \A i \in 1..Len(rows[d]) : rows[d][i] \in Rows
    BY DEF Typed
  <2>2. QED
    BY <2>1 DEF Typed, TypeOK, Rows, Commands, ConnStates
<1>2. QED
  BY <1>1, Invariance, PTL

(* CredentialsMatch: handle_DATA takes user name and password together,    *)
(* and no login or save in between mixes two pairs in a row.               *)
THEOREM CredentialsStayMatched == Spec => []CredentialsMatch
<1>1. IInv => CredentialsMatch
  BY DEF IInv, LoginsTraced, Fits, CredentialsMatch, Stored
<1>2. QED
  BY <1>1, Invariance, PTL

(* SoleDeviceKeepsLogin: although the logins of the authenticator are    *)
(* kept per address and are never cleared, a device alone at its address   *)
(* sends under no other login than its own.                                *)
THEOREM SoleDevicesKeepTheirLogin == Spec => []SoleDeviceKeepsLogin
<1>1. IInv => SoleDeviceKeepsLogin
  BY DEF IInv, LoginsTraced, Fits, GivenFrom, SoleDeviceKeepsLogin, Stored
<1>2. QED
  BY <1>1, Invariance, PTL

(* StoredAsTold: a mail answered 250 is stored, and stored again only for  *)
(* a fault between the commit of accept_smtp and the answer.               *)
THEOREM WhatIsToldIsStored == Spec => []StoredAsTold
<1>1. IInv => StoredAsTold
  <2> SUFFICES ASSUME IInv, NEW d \in Devices, NEW m \in 1..MaxMails
               PROVE  /\ m \in told[d] => Copies(d, m) > 0
                      /\ Copies(d, m) <= 1 + faults
    BY DEF StoredAsTold
  <2>1. faults \in Nat /\ Copies(d, m) \in Nat
    BY CopiesAreFinite, SessionAssumption DEF IInv, Typed
  <2>2. QED
    BY <2>1 DEF IInv, CopiesCounted
<1>2. QED
  BY <1>1, Invariance, PTL

=============================================================================
