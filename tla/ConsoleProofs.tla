---------------------------- MODULE ConsoleProofs ----------------------------
(* The safety of Console for every number of browsers and of requests      *)
(* under way, every set of server settings and passwords, and every        *)
(* traffic.                                                                *)
EXTENDS Console, TLAPS

USE ConsoleAssumption

-----------------------------------------------------------------------------
(* The inductive invariant.                                                *)

(* CookieFollows, request by request: one that no answer has overtaken     *)
(* carries the session its browser is due, or the one it signs in or out   *)
(* to.                                                                     *)
RequestsFollow ==
    \A q \in Slots : req[q].pc # "free" =>
        /\ req[q].browser \in Browsers
        /\ req[q].rules # "none" => req[q].pc = "answer" /\ req[q].session = req[q].rules
        /\ req[q].rules = "none" /\ ~req[q].late
            => req[q].browser \in tangled \/ req[q].session = due[req[q].browser]

(* AdminExplained, writer by writer: what a writer that was not overtaken  *)
(* has read of the row is still true.                                      *)
WritersKnow ==
    /\ \A q \in Slots : req[q].pc \in {"row", "write"} =>
        /\ req[q].kind \in {"setup", "change"}
        /\ ~req[q].overtaken /\ req[q].kind = "setup" => admin = "none"
        /\ ~req[q].overtaken /\ req[q].pc = "write" => req[q].seen = admin
    /\ reset # Idle /\ ~reset.overtaken => reset.seen = admin

(* CopiesAgree and MaskedKeepsSecret, request by request: of those about   *)
(* to save, the one that replaced last has what runs.                      *)
SavesKnow ==
    /\ \A q \in Slots :
        /\ req[q].pc = "save" /\ ~req[q].overtaken => req[q].config = running
        /\ req[q].pc = "replace" /\ req[q].kept /\ ~req[q].overtaken
            => req[q].config.secret = running.secret
    /\ \/ running = stored
       \/ unsaved
       \/ \E q \in Slots : req[q].pc = "save" /\ ~req[q].overtaken

IInv ==
    /\ TypeOK
    /\ CookieFollows /\ RequestsFollow
    /\ AdminExplained /\ WritersKnow
    /\ SavesKnow

-----------------------------------------------------------------------------
(* Types.                                                                  *)

(* A slot without a request is a request record like any other.            *)
LEMMA FreeIsRequest == Free \in Request
  BY DEF Free, Request, Steps, Kinds, Sessions, Rows, NoConfig, Configs

(* What a handler leaves behind is a request waiting for its answer. *)
LEMMA EndedIsRequest ==
  ASSUME TypeOK, NEW q \in Slots, NEW s \in Sessions \cup {"none"}
  PROVE  Ended(q, s) \in Request
  BY FreeIsRequest DEF TypeOK, Ended, Free, Request, Steps, Kinds, Sessions

(* What put_config makes of a form and the running copy is a               *)
(* configuration.                                                          *)
LEMMA MergeIsConfig ==
  ASSUME NEW c \in Configs, NEW u \in Updates
  PROVE  Merge(c, u) \in Configs
  BY DEF Merge, Updates, Configs, NoConfig

(* Every step keeps every variable in its type. *)
LEMMA TypeStep == IInv /\ [Next]_vars => TypeOK'
<1> SUFFICES ASSUME IInv, [Next]_vars PROVE TypeOK'
  OBVIOUS
<1> USE DEF IInv, TypeOK, adminVars, configVars, browserVars
<1>1. ASSUME NEW q \in Slots, NEW b \in Browsers, NEW k \in Kinds, Arrive(q, b, k)
      PROVE  TypeOK'
  <2>1. req' \in [Slots -> Request]
    BY <1>1, FreeIsRequest DEF Arrive, Free, Request, Steps
  <2>2. QED
    BY <1>1, <2>1 DEF Arrive
<1>2. ASSUME NEW q \in Slots, Answer(q)
      PROVE  TypeOK'
  <2>1. \A r \in Slots : [req[r] EXCEPT !.late = TRUE] \in Request
    BY ZenonT(60) DEF Request
  <2>2. req' \in [Slots -> Request]
    BY <1>2, <2>1, FreeIsRequest DEF Answer
  <2>3. req[q].browser \in Browsers /\ req[q].session \in Sessions /\ req[q].rules \in Sessions \cup {"none"}
    BY <1>2 DEF Answer, RequestsFollow, Request
  <2>4. QED
    BY <1>2, <2>2, <2>3 DEF Answer
<1>3. ASSUME NEW q \in Slots, Lost(q)
      PROVE  TypeOK'
  BY <1>3, FreeIsRequest DEF Lost
<1>4. ASSUME NEW q \in Slots, Refuse(q) \/ Login(q) \/ Logout(q)
      PROVE  TypeOK'
  <2>1. \E s \in Sessions \cup {"none"} : req' = [req EXCEPT ![q] = Ended(q, s)]
    BY <1>4 DEF Refuse, Login, Logout, Finish, Sessions
  <2>2. req' \in [Slots -> Request]
    BY <2>1, EndedIsRequest
  <2>3. QED
    BY <1>4, <2>2 DEF Refuse, Login, Logout
<1>5. ASSUME NEW q \in Slots, CheckRow(q) \/ LoadRow(q)
      PROVE  TypeOK'
  <2>1. req' \in [Slots -> Request]
    BY <1>5 DEF CheckRow, LoadRow, Request, Steps
  <2>2. QED
    BY <1>5, <2>1 DEF CheckRow, LoadRow
<1>6. ASSUME NEW q \in Slots, WriteRow(q)
      PROVE  TypeOK'
  <2>1. req' \in [Slots -> Request]
    <3>1. Ended(q, "full") \in Request
      BY EndedIsRequest DEF Sessions
    <3>2. QED
      BY ZenonT(60), <1>6, <3>1 DEF WriteRow, Overtakes, Request
  <2>2. QED
    BY <1>6, <2>1 DEF WriteRow, Writes, WritersKnow, Request, Rows, Writer, Resets
<1>7. ASSUME NEW q \in Slots, InsertFails(q) \/ SaveFails(q)
      PROVE  TypeOK'
  BY ZenonT(60), <1>7, FreeIsRequest DEF InsertFails, SaveFails, Request
<1>8. ASSUME NEW q \in Slots, PutRead(q)
      PROVE  TypeOK'
  <2>1. PICK u \in Updates :
            req' = [req EXCEPT ![q].pc = "replace", ![q].config = Merge(running, u), ![q].kept = Keeps(u)]
    BY <1>8 DEF PutRead
  <2>2. Merge(running, u) \in Configs /\ Keeps(u) \in BOOLEAN
    BY MergeIsConfig DEF Keeps
  <2>3. [req[q] EXCEPT !.pc = "replace", !.config = Merge(running, u), !.kept = Keeps(u)] \in Request
    BY ZenonT(60), <2>2 DEF Request, Steps
  <2>4. req' \in [Slots -> Request]
    BY <2>1, <2>3
  <2>5. QED
    BY <1>8, <2>4 DEF PutRead
<1>9. ASSUME NEW q \in Slots, NEW c \in Configs, Replace(q, c)
      PROVE  TypeOK'
  <2>1. [req[q] EXCEPT !.pc = "save", !.config = c, !.overtaken = FALSE] \in Request
    BY ZenonT(60) DEF Request, Steps
  <2>2. \A r \in Slots : [req[r] EXCEPT !.overtaken = TRUE] \in Request
    BY ZenonT(60) DEF Request
  <2>3. req' \in [Slots -> Request]
    BY <1>9, <2>1, <2>2 DEF Replace, Overtakes
  <2>4. QED
    BY <1>9, <2>3 DEF Replace
<1>10. ASSUME NEW q \in Slots, Save(q)
      PROVE  TypeOK'
  <2>1. req' \in [Slots -> Request]
    BY <1>10, EndedIsRequest DEF Save, Finish
  <2>2. QED
    BY <1>10, <2>1 DEF Save, Request
<1>11. ASSUME NEW b \in Browsers, Expire(b)
      PROVE  TypeOK'
  BY <1>11 DEF Expire, Sessions
<1>12. CASE ResetLoad \/ ResetFails
  <2>1. CASE ResetLoad
    BY <2>1 DEF ResetLoad, Resets
  <2>2. CASE ResetFails
    BY <2>2 DEF ResetFails
  <2>3. QED
    BY <1>12, <2>1, <2>2
<1>13. CASE ResetWrite
  <2>1. \A r \in Slots : [req[r] EXCEPT !.overtaken = TRUE] \in Request
    BY ZenonT(60) DEF Request
  <2>2. req' \in [Slots -> Request]
    BY <1>13, <2>1, FreeIsRequest DEF ResetWrite, Overtakes
  <2>3. reset \in Resets
    BY <1>13 DEF ResetWrite
  <2>4. admin' \in Rows /\ writer' \in Writer
    BY <1>13, <2>3 DEF ResetWrite, Writes, Resets, Rows, Writer
  <2>5. QED
    BY <1>13, <2>2, <2>4 DEF ResetWrite
<1>14. CASE Restart
  BY <1>14, FreeIsRequest DEF Restart
<1>15. CASE UNCHANGED vars
  BY <1>15 DEF vars
<1>16. ASSUME NEW q \in Slots, PutReplace(q) \/ Import(q)
       PROVE  TypeOK'
  BY <1>9, <1>16 DEF PutReplace, Import, Request
<1>17. QED
  BY <1>1, <1>2, <1>3, <1>4, <1>5, <1>6, <1>7, <1>8, <1>10, <1>11, <1>12,
     <1>13, <1>14, <1>15, <1>16 DEF Next, Handle

-----------------------------------------------------------------------------
(* Sessions.                                                               *)

(* Cookies and requests stay in step: an answer that rules makes the other *)
(* requests of its browser late, and a late one makes the browser tangled. *)
LEMMA CookieStep == IInv /\ [Next]_vars => (CookieFollows /\ RequestsFollow)'
<1> SUFFICES ASSUME IInv, [Next]_vars PROVE (CookieFollows /\ RequestsFollow)'
  OBVIOUS
<1> USE DEF IInv, browserVars
<1>t. /\ req \in [Slots -> Request]
      /\ cookie \in [Browsers -> Sessions] /\ due \in [Browsers -> Sessions]
      /\ tangled \subseteq Browsers
  BY DEF TypeOK
<1>e. ASSUME NEW q \in Slots, NEW s \in Sessions \cup {"none"},
             req[q].pc \notin {"free", "answer"},
             req' = [req EXCEPT ![q] = Ended(q, s)], UNCHANGED browserVars
      PROVE  (CookieFollows /\ RequestsFollow)'
  BY <1>e, <1>t DEF Ended, Free, CookieFollows, RequestsFollow, Sessions, Request
<1>1. ASSUME NEW q \in Slots, NEW b \in Browsers, NEW k \in Kinds, Arrive(q, b, k)
      PROVE  (CookieFollows /\ RequestsFollow)'
  BY <1>1, <1>t DEF Arrive, Free, CookieFollows, RequestsFollow, Sessions
<1>2. ASSUME NEW q \in Slots, Answer(q)
      PROVE  (CookieFollows /\ RequestsFollow)'
  <2>b. req[q].browser \in Browsers
    BY <1>2 DEF Answer, RequestsFollow
  <2>1. CASE req[q].rules # "none"
    <3>1. cookie' = [cookie EXCEPT ![req[q].browser] = req[q].session]
          /\ due' = [due EXCEPT ![req[q].browser] = req[q].session]
          /\ tangled' = tangled \ {req[q].browser}
      BY <1>2, <2>1 DEF Answer, RequestsFollow
    <3>2. ASSUME NEW r \in Slots, req'[r].pc # "free"
          PROVE  /\ r # q /\ req'[r].pc = req[r].pc /\ req'[r].browser = req[r].browser
                 /\ req'[r].session = req[r].session /\ req'[r].rules = req[r].rules
                 /\ req[r].browser = req[q].browser => req'[r].late
                 /\ req[r].browser # req[q].browser => req'[r].late = req[r].late
      BY <1>2, <2>1, <3>2, <1>t DEF Answer, Free, Request
    <3>3. CookieFollows'
      BY <3>1, <2>b, <1>t DEF CookieFollows
    <3>4. RequestsFollow'
      BY <3>1, <3>2, <2>b, <1>t DEF RequestsFollow
    <3>5. QED
      BY <3>3, <3>4
  <2>2. CASE req[q].rules = "none"
    <3>1. cookie' = [cookie EXCEPT ![req[q].browser] = req[q].session]
          /\ due' = due
          /\ tangled' = IF req[q].late THEN tangled \cup {req[q].browser} ELSE tangled
      BY <1>2, <2>2 DEF Answer
    <3>2. req' = [req EXCEPT ![q] = Free]
      BY <1>2, <2>2, <1>t DEF Answer
    <3>3. CookieFollows'
      BY <1>2, <2>2, <3>1, <2>b, <1>t DEF CookieFollows, RequestsFollow, Answer
    <3>4. RequestsFollow'
      BY <3>1, <3>2, <1>t DEF RequestsFollow, Free
    <3>5. QED
      BY <3>3, <3>4
  <2>3. QED
    BY <2>1, <2>2
<1>3. ASSUME NEW q \in Slots, Lost(q) \/ InsertFails(q) \/ SaveFails(q)
      PROVE  (CookieFollows /\ RequestsFollow)'
  BY <1>3, <1>t DEF Lost, InsertFails, SaveFails, Free, CookieFollows, RequestsFollow
<1>4. ASSUME NEW q \in Slots, Refuse(q) \/ Login(q) \/ Logout(q) \/ Save(q)
      PROVE  (CookieFollows /\ RequestsFollow)'
  <2>1. /\ \E s \in Sessions \cup {"none"} : req' = [req EXCEPT ![q] = Ended(q, s)]
        /\ req[q].pc \notin {"free", "answer"} /\ UNCHANGED browserVars
    BY <1>4 DEF Refuse, Login, Logout, Save, At, Finish, Sessions
  <2>2. QED
    BY <2>1, <1>e
<1>5. ASSUME NEW q \in Slots, CheckRow(q) \/ LoadRow(q) \/ PutRead(q)
      PROVE  (CookieFollows /\ RequestsFollow)'
  <2>1. req[q].pc \notin {"free", "answer"} /\ UNCHANGED browserVars
    BY <1>5 DEF CheckRow, LoadRow, PutRead, At
  <2>2. ASSUME NEW r \in Slots, r # q
        PROVE  req'[r] = req[r]
    BY <1>5, <2>2, <1>t DEF CheckRow, LoadRow, PutRead
  <2>3. /\ req'[q].browser = req[q].browser /\ req'[q].rules = req[q].rules
        /\ req'[q].session = req[q].session /\ req'[q].late = req[q].late
    <3>1. CASE CheckRow(q) \/ LoadRow(q)
      BY <3>1, <1>t DEF CheckRow, LoadRow, Request
    <3>2. CASE PutRead(q)
      <4>1. PICK u \in Updates :
                req' = [req EXCEPT ![q].pc = "replace", ![q].config = Merge(running, u), ![q].kept = Keeps(u)]
        BY <3>2 DEF PutRead
      <4>2. QED
        BY <4>1, <1>t DEF Request
    <3>3. QED
      BY <1>5, <3>1, <3>2
  <2>4. QED
    BY <2>1, <2>2, <2>3 DEF CookieFollows, RequestsFollow
<1>6. ASSUME NEW q \in Slots, WriteRow(q)
      PROVE  (CookieFollows /\ RequestsFollow)'
  <2>1. ASSUME NEW r \in Slots, r # q
        PROVE  /\ req'[r].browser = req[r].browser /\ req'[r].rules = req[r].rules
               /\ req'[r].session = req[r].session /\ req'[r].late = req[r].late
               /\ req'[r].pc = req[r].pc
    BY <1>6, <2>1, <1>t DEF WriteRow, Overtakes, Request
  <2>2. /\ req'[q].pc = "answer" /\ req'[q].browser = req[q].browser
        /\ req'[q].rules = "full" /\ req'[q].session = "full"
    BY <1>6 DEF WriteRow, Overtakes, Ended, Free
  <2>3. req[q].pc # "free" /\ UNCHANGED browserVars
    BY <1>6 DEF WriteRow
  <2>4. QED
    BY <2>1, <2>2, <2>3 DEF CookieFollows, RequestsFollow
<1>7. ASSUME NEW q \in Slots, PutReplace(q) \/ Import(q)
      PROVE  (CookieFollows /\ RequestsFollow)'
  <2>1. PICK c : Replace(q, c)
    BY <1>7 DEF PutReplace, Import
  <2>2. ASSUME NEW r \in Slots
        PROVE  /\ req'[r].browser = req[r].browser /\ req'[r].rules = req[r].rules
               /\ req'[r].session = req[r].session /\ req'[r].late = req[r].late
               /\ r # q => req'[r].pc = req[r].pc
    BY <2>1, <1>t DEF Replace, Overtakes, Request
  <2>3. req[q].pc \notin {"free", "answer"}
    BY <1>7 DEF PutReplace, Import, At
  <2>4. QED
    BY <2>1, <2>2, <2>3 DEF Replace, CookieFollows, RequestsFollow
<1>8. ASSUME NEW b \in Browsers, Expire(b)
      PROVE  (CookieFollows /\ RequestsFollow)'
  BY <1>8, <1>t DEF Expire, CookieFollows, RequestsFollow
<1>9. CASE ResetLoad \/ ResetFails \/ UNCHANGED vars
  BY <1>9 DEF ResetLoad, ResetFails, vars, CookieFollows, RequestsFollow
<1>10. CASE ResetWrite
  <2>1. ASSUME NEW r \in Slots, req'[r].pc # "free"
        PROVE  /\ req'[r].browser = req[r].browser /\ req'[r].rules = req[r].rules
               /\ req'[r].session = req[r].session /\ req'[r].late = req[r].late
               /\ req'[r].pc = req[r].pc
    BY <1>10, <2>1, <1>t DEF ResetWrite, Overtakes, Free, Request
  <2>2. QED
    BY <1>10, <2>1 DEF ResetWrite, CookieFollows, RequestsFollow
<1>11. CASE Restart
  BY <1>11 DEF Restart, Free, CookieFollows, RequestsFollow
<1>12. QED
  BY <1>1, <1>2, <1>3, <1>4, <1>5, <1>6, <1>7, <1>8, <1>9, <1>10, <1>11 DEF Next, Handle

-----------------------------------------------------------------------------
(* The row of the administrator.                                           *)

(* A step that is about neither the row nor a writer. *)
LEMMA RowUntouched ==
  ASSUME AdminExplained, WritersKnow, UNCHANGED adminVars,
         \A q \in Slots : req'[q].pc \in {"row", "write"} =>
            /\ req'[q].pc = req[q].pc /\ req'[q].kind = req[q].kind
            /\ req'[q].overtaken = req[q].overtaken /\ req'[q].seen = req[q].seen
  PROVE  (AdminExplained /\ WritersKnow)'
  BY DEF AdminExplained, WritersKnow, adminVars

(* A write of the row from what was read of it, by somebody nobody         *)
(* overtook, writes over what it read; everybody else is overtaken.        *)
LEMMA AdminStep == IInv /\ [Next]_vars => (AdminExplained /\ WritersKnow)'
<1> SUFFICES ASSUME IInv, [Next]_vars PROVE (AdminExplained /\ WritersKnow)'
  OBVIOUS
<1> USE DEF IInv
<1>t. req \in [Slots -> Request] /\ admin \in Rows /\ reset \in Resets \cup {Idle}
  BY DEF TypeOK
<1>1. ASSUME NEW q \in Slots, NEW b \in Browsers, NEW k \in Kinds, Arrive(q, b, k)
      PROVE  (AdminExplained /\ WritersKnow)'
  BY <1>1, <1>t, RowUntouched DEF Arrive, Free
<1>2. ASSUME NEW q \in Slots, Answer(q)
      PROVE  (AdminExplained /\ WritersKnow)'
  <2>1. ASSUME NEW r \in Slots, req'[r].pc \in {"row", "write"}
        PROVE  /\ req'[r].pc = req[r].pc /\ req'[r].kind = req[r].kind
               /\ req'[r].overtaken = req[r].overtaken /\ req'[r].seen = req[r].seen
    BY ZenonT(60), <1>2, <2>1, <1>t DEF Answer, Free, Request
  <2>2. QED
    BY <1>2, <2>1, RowUntouched DEF Answer
<1>3. ASSUME NEW q \in Slots, Lost(q) \/ InsertFails(q) \/ SaveFails(q)
      PROVE  (AdminExplained /\ WritersKnow)'
  BY <1>3, <1>t, RowUntouched DEF Lost, InsertFails, SaveFails, Free
<1>4. ASSUME NEW q \in Slots, Refuse(q) \/ Login(q) \/ Logout(q) \/ Save(q)
      PROVE  (AdminExplained /\ WritersKnow)'
  <2>1. PICK s : req' = [req EXCEPT ![q] = Ended(q, s)]
    BY <1>4 DEF Refuse, Login, Logout, Save, Finish
  <2>2. Ended(q, s).pc = "answer"
    BY DEF Ended, Free
  <2>3. UNCHANGED adminVars
    BY <1>4 DEF Refuse, Login, Logout, Save
  <2>4. QED
    BY <2>1, <2>2, <2>3, <1>t, RowUntouched
<1>5. ASSUME NEW q \in Slots, CheckRow(q)
      PROVE  (AdminExplained /\ WritersKnow)'
  BY <1>5, <1>t DEF CheckRow, adminVars, AdminExplained, WritersKnow, Request
<1>6. ASSUME NEW q \in Slots, LoadRow(q)
      PROVE  (AdminExplained /\ WritersKnow)'
  BY <1>6, <1>t DEF LoadRow, adminVars, AdminExplained, WritersKnow, Request
<1>7. ASSUME NEW q \in Slots, WriteRow(q)
      PROVE  (AdminExplained /\ WritersKnow)'
  <2>1. AdminExplained'
    BY <1>7 DEF WriteRow, Writes, AdminExplained, WritersKnow
  <2>2. ASSUME NEW r \in Slots, req'[r].pc \in {"row", "write"}
        PROVE  /\ req[r].pc \in {"row", "write"} /\ req'[r].kind = req[r].kind
               /\ req'[r].overtaken
    BY <1>7, <2>2, <1>t DEF WriteRow, Overtakes, Ended, Free, Request
  <2>3. reset' # Idle => reset'.overtaken
    BY <1>7, <1>t DEF WriteRow, Resets
  <2>4. WritersKnow'
    BY <2>2, <2>3 DEF WritersKnow
  <2>5. QED
    BY <2>1, <2>4
<1>8. ASSUME NEW q \in Slots, PutRead(q)
      PROVE  (AdminExplained /\ WritersKnow)'
  BY <1>8, <1>t, RowUntouched DEF PutRead
<1>9. ASSUME NEW q \in Slots, PutReplace(q) \/ Import(q)
      PROVE  (AdminExplained /\ WritersKnow)'
  <2>1. PICK c : Replace(q, c)
    BY <1>9 DEF PutReplace, Import
  <2>2. ASSUME NEW r \in Slots, req'[r].pc \in {"row", "write"}
        PROVE  /\ req'[r].pc = req[r].pc /\ req'[r].kind = req[r].kind
               /\ req'[r].overtaken = req[r].overtaken /\ req'[r].seen = req[r].seen
    BY ZenonT(60), <2>1, <2>2, <1>t DEF Replace, Overtakes, Request
  <2>3. QED
    BY <2>1, <2>2, RowUntouched DEF Replace
<1>10. ASSUME NEW b \in Browsers, Expire(b)
       PROVE  (AdminExplained /\ WritersKnow)'
  BY <1>10, RowUntouched DEF Expire
<1>11. CASE ResetLoad \/ ResetFails
  <2>1. CASE ResetLoad
    BY <2>1 DEF ResetLoad, AdminExplained, WritersKnow
  <2>2. CASE ResetFails
    BY <2>2 DEF ResetFails, AdminExplained, WritersKnow
  <2>3. QED
    BY <1>11, <2>1, <2>2
<1>12. CASE ResetWrite
  <2>1. AdminExplained'
    BY <1>12 DEF ResetWrite, Writes, AdminExplained, WritersKnow
  <2>2. ASSUME NEW r \in Slots, req'[r].pc \in {"row", "write"}
        PROVE  /\ req[r].pc \in {"row", "write"} /\ req'[r].kind = req[r].kind
               /\ req'[r].overtaken
    BY <1>12, <2>2, <1>t DEF ResetWrite, Overtakes, Free, Request
  <2>3. WritersKnow'
    BY <1>12, <2>2 DEF ResetWrite, WritersKnow
  <2>4. QED
    BY <2>1, <2>3
<1>13. CASE Restart
  BY <1>13, RowUntouched DEF Restart, Free
<1>14. CASE UNCHANGED vars
  BY <1>14, RowUntouched DEF vars
<1>15. QED
  BY <1>1, <1>2, <1>3, <1>4, <1>5, <1>6, <1>7, <1>8, <1>9, <1>10, <1>11,
     <1>12, <1>13, <1>14 DEF Next, Handle

-----------------------------------------------------------------------------
(* The configuration.                                                      *)

(* A step that is about neither configuration nor a request with one. *)
LEMMA ConfigUntouched ==
  ASSUME SavesKnow, UNCHANGED configVars,
         \A q \in Slots :
            /\ req'[q].pc \in {"replace", "save"} \/ req[q].pc = "save" =>
                /\ req'[q].pc = req[q].pc /\ req'[q].config = req[q].config
                /\ req'[q].overtaken = req[q].overtaken /\ req'[q].kept = req[q].kept
  PROVE  SavesKnow'
  BY DEF SavesKnow, configVars

(* Whoever replaces overtakes all that replaced or read before. *)
LEMMA SaveStep == IInv /\ [Next]_vars => SavesKnow'
<1> SUFFICES ASSUME IInv, [Next]_vars PROVE SavesKnow'
  OBVIOUS
<1> USE DEF IInv
<1>t. req \in [Slots -> Request] /\ running \in Configs
  BY DEF TypeOK
<1>1. ASSUME NEW q \in Slots, NEW b \in Browsers, NEW k \in Kinds, Arrive(q, b, k)
      PROVE  SavesKnow'
  BY <1>1, <1>t, ConfigUntouched DEF Arrive, Free
<1>2. ASSUME NEW q \in Slots, Answer(q)
      PROVE  SavesKnow'
  <2>1. ASSUME NEW r \in Slots, req'[r].pc \in {"replace", "save"} \/ req[r].pc = "save"
        PROVE  /\ req'[r].pc = req[r].pc /\ req'[r].config = req[r].config
               /\ req'[r].overtaken = req[r].overtaken /\ req'[r].kept = req[r].kept
    BY ZenonT(60), <1>2, <2>1, <1>t DEF Answer, Free, Request
  <2>2. QED
    BY <1>2, <2>1, ConfigUntouched DEF Answer
<1>3. ASSUME NEW q \in Slots, Lost(q) \/ InsertFails(q)
      PROVE  SavesKnow'
  BY <1>3, <1>t, ConfigUntouched DEF Lost, InsertFails, Free
<1>4. ASSUME NEW q \in Slots, Refuse(q) \/ Login(q) \/ Logout(q)
      PROVE  SavesKnow'
  <2>1. PICK s : req' = [req EXCEPT ![q] = Ended(q, s)]
    BY <1>4 DEF Refuse, Login, Logout, Finish
  <2>2. Ended(q, s).pc = "answer"
    BY DEF Ended, Free
  <2>3. req[q].pc # "save" /\ UNCHANGED configVars
    BY <1>4 DEF Refuse, Login, Logout, At
  <2>4. QED
    BY <2>1, <2>2, <2>3, <1>t, ConfigUntouched
<1>5. ASSUME NEW q \in Slots, CheckRow(q) \/ LoadRow(q)
      PROVE  SavesKnow'
  <2>1. ASSUME NEW r \in Slots, r # q PROVE req'[r] = req[r]
    BY <1>5, <2>1, <1>t DEF CheckRow, LoadRow
  <2>2. req[q].pc # "save" /\ req'[q].pc \notin {"replace", "save"} /\ UNCHANGED configVars
    BY <1>5, <1>t DEF CheckRow, LoadRow, Request
  <2>3. QED
    BY <2>1, <2>2, ConfigUntouched
<1>6. ASSUME NEW q \in Slots, WriteRow(q)
      PROVE  SavesKnow'
  <2>1. ASSUME NEW r \in Slots, req'[r].pc \in {"replace", "save"} \/ req[r].pc = "save"
        PROVE  /\ req'[r].pc = req[r].pc /\ req'[r].config = req[r].config
               /\ req'[r].overtaken = req[r].overtaken /\ req'[r].kept = req[r].kept
    BY ZenonT(60), <1>6, <2>1, <1>t DEF WriteRow, Overtakes, Ended, Free, Request
  <2>2. QED
    BY <1>6, <2>1, ConfigUntouched DEF WriteRow
<1>7. ASSUME NEW q \in Slots, PutRead(q)
      PROVE  SavesKnow'
  <2>1. PICK u \in Updates :
            req' = [req EXCEPT ![q].pc = "replace", ![q].config = Merge(running, u), ![q].kept = Keeps(u)]
    BY <1>7 DEF PutRead
  <2>2. /\ req'[q].pc = "replace"
        /\ req'[q].kept => req'[q].config.secret = running.secret
    BY <2>1, <1>t DEF Merge, Keeps, Updates, Request
  <2>3. ASSUME NEW r \in Slots, r # q PROVE req'[r] = req[r]
    BY <2>1, <2>3, <1>t
  <2>4. req[q].pc = "begin"
    BY <1>7 DEF PutRead, At
  <2>5. QED
    BY <1>7, <2>2, <2>3, <2>4 DEF PutRead, configVars, SavesKnow
<1>8. ASSUME NEW q \in Slots, PutReplace(q) \/ Import(q)
      PROVE  SavesKnow'
  <2>1. PICK c : Replace(q, c)
    BY <1>8 DEF PutReplace, Import
  <2>2. /\ req'[q].pc = "save" /\ req'[q].config = running' /\ ~req'[q].overtaken
    BY <2>1, <1>t DEF Replace, Overtakes, Request
  <2>3. ASSUME NEW r \in Slots, r # q, req'[r].pc \in {"replace", "save"}
        PROVE  req'[r].overtaken
    BY <2>1, <2>3, <1>t DEF Replace, Overtakes, Request
  <2>4. QED
    BY <2>2, <2>3 DEF SavesKnow
<1>9. ASSUME NEW q \in Slots, Save(q)
      PROVE  SavesKnow'
  BY <1>9, <1>t DEF Save, Finish, Ended, Free, SavesKnow
<1>10. ASSUME NEW q \in Slots, SaveFails(q)
       PROVE  SavesKnow'
  BY <1>10, <1>t DEF SaveFails, Free, SavesKnow
<1>11. ASSUME NEW b \in Browsers, Expire(b)
       PROVE  SavesKnow'
  BY <1>11, ConfigUntouched DEF Expire
<1>12. CASE ResetLoad \/ ResetFails \/ UNCHANGED vars
  BY <1>12, ConfigUntouched DEF ResetLoad, ResetFails, vars
<1>13. CASE ResetWrite
  <2>1. ASSUME NEW r \in Slots
        PROVE  /\ req'[r].pc = req[r].pc /\ req'[r].config = req[r].config
               /\ req'[r].kept = req[r].kept
               /\ req[r].pc \in {"replace", "save"} => req'[r].overtaken = req[r].overtaken
    BY <1>13, <2>1, <1>t DEF ResetWrite, Overtakes, Request
  <2>2. QED
    BY <1>13, <2>1, ConfigUntouched DEF ResetWrite
<1>14. CASE Restart
  BY <1>14 DEF Restart, Free, SavesKnow
<1>15. QED
  BY <1>1, <1>2, <1>3, <1>4, <1>5, <1>6, <1>7, <1>8, <1>9, <1>10, <1>11,
     <1>12, <1>13, <1>14 DEF Next, Handle

(* A first start, without requests, satisfies the invariant.               *)
LEMMA InitEstablishes == Init => IInv
<1> SUFFICES ASSUME Init PROVE IInv
  OBVIOUS
<1>1. TypeOK
  BY FreeIsRequest DEF Init, TypeOK, Rows, Sessions, Writer
<1>2. QED
  BY <1>1 DEF Init, IInv, CookieFollows, RequestsFollow, AdminExplained, WritersKnow,
     SavesKnow, Free

(* The invariant holds in every state of the console, whatever requests    *)
(* overlap.                                                                *)
THEOREM Invariance == Spec => []IInv
<1>1. IInv /\ [Next]_vars => IInv'
  BY TypeStep, CookieStep, AdminStep, SaveStep DEF IInv
<1>2. QED
  BY <1>1, InitEstablishes, PTL DEF Spec

(* TypeOK: however many requests are under way at once, every variable     *)
(* keeps its type.                                                         *)
THEOREM Typing == Spec => []TypeOK
<1>1. IInv => TypeOK
  BY DEF IInv
<1>2. QED
  BY <1>1, Invariance, PTL

(* CookieFollows: a browser has the session it last signed in or out to,   *)
(* unless save_session answered an older request of its own since.         *)
THEOREM CookiesFollow == Spec => []CookieFollows
<1>1. IInv => CookieFollows
  BY DEF IInv
<1>2. QED
  BY <1>1, Invariance, PTL

(* AdminExplained: a password must be changed exactly when somebody else   *)
(* chose it, and a set-up replaces no administrator, unless two writers of *)
(* the row raced.                                                          *)
THEOREM AdminIsExplained == Spec => []AdminExplained
<1>1. IInv => AdminExplained
  BY DEF IInv
<1>2. QED
  BY <1>1, Invariance, PTL

(* CopiesAgree: what runs is what a restart would find, but for a          *)
(* put_config between replace and save, one whose save failed, or saves in *)
(* another order than their replaces.                                      *)
THEOREM CopiesStayTogether == Spec => []CopiesAgree
<1>1. IInv => CopiesAgree
  BY DEF IInv, SavesKnow, CopiesAgree
<1>2. QED
  BY <1>1, Invariance, PTL

(* MaskedKeepsSecret: put_config leaves a password that came masked or     *)
(* blank as it is, unless another configuration came in between.           *)
THEOREM SecretsKept == Spec => MaskedKeepsSecret
<1>1. ASSUME IInv, Next, NEW q \in Slots,
             req[q].pc = "replace", req'[q].pc = "save", req[q].kept, ~req[q].overtaken
      PROVE  running'.secret = running.secret
  <2>t. req \in [Slots -> Request]
    BY <1>1 DEF IInv, TypeOK
  <2>1. ASSUME NEW r \in Slots, Handle(r), r # q
        PROVE  req'[q].pc \in {"free", "replace"}
    <3>1. CASE Answer(r) \/ Lost(r)
      BY <1>1, <2>1, <2>t, <3>1 DEF Answer, Lost, Free, Request
    <3>2. CASE Refuse(r) \/ Login(r) \/ Logout(r) \/ Save(r)
      BY <1>1, <2>1, <2>t, <3>2 DEF Refuse, Login, Logout, Save, Finish
    <3>3. CASE CheckRow(r) \/ LoadRow(r) \/ PutRead(r)
      BY <1>1, <2>1, <2>t, <3>3 DEF CheckRow, LoadRow, PutRead
    <3>4. CASE WriteRow(r)
      BY <1>1, <2>1, <2>t, <3>4 DEF WriteRow, Overtakes, Request
    <3>5. CASE InsertFails(r) \/ SaveFails(r)
      BY <1>1, <2>1, <2>t, <3>5 DEF InsertFails, SaveFails
    <3>6. CASE PutReplace(r) \/ Import(r)
      <4>1. PICK c : Replace(r, c)
        BY <3>6 DEF PutReplace, Import
      <4>2. QED
        BY <1>1, <2>1, <2>t, <4>1 DEF Replace, Overtakes, Request
    <3>7. QED
      BY <2>1, <3>1, <3>2, <3>3, <3>4, <3>5, <3>6 DEF Handle
  <2>2. ASSUME Handle(q) PROVE PutReplace(q)
    <3>1. CASE Answer(q) \/ Lost(q) \/ Refuse(q) \/ Login(q) \/ Logout(q)
      BY <1>1, <3>1 DEF Answer, Lost, Refuse, Login, Logout, At
    <3>2. CASE CheckRow(q) \/ LoadRow(q) \/ WriteRow(q) \/ InsertFails(q)
      BY <1>1, <3>2 DEF CheckRow, LoadRow, WriteRow, InsertFails
    <3>3. CASE PutRead(q) \/ Import(q) \/ Save(q) \/ SaveFails(q)
      BY <1>1, <3>3 DEF PutRead, Import, Save, SaveFails, At
    <3>4. QED
      BY <2>2, <3>1, <3>2, <3>3 DEF Handle
  <2>3. ASSUME NEW r \in Slots, NEW b \in Browsers, NEW k \in Kinds, Arrive(r, b, k)
        PROVE  FALSE
    BY <1>1, <2>t, <2>3 DEF Arrive, Free
  <2>4. ASSUME \/ \E b \in Browsers : Expire(b)
               \/ ResetLoad \/ ResetWrite \/ ResetFails \/ Restart
        PROVE  FALSE
    <3>1. CASE ResetWrite
      BY <1>1, <2>t, <3>1 DEF ResetWrite, Overtakes, Request
    <3>2. CASE Restart
      BY <1>1, <3>2 DEF Restart, Free
    <3>3. QED
      BY <1>1, <2>4, <3>1, <3>2 DEF Expire, ResetLoad, ResetFails
  <2>5. PutReplace(q)
    BY <1>1, <2>1, <2>2, <2>3, <2>4 DEF Next
  <2>6. QED
    BY <1>1, <2>5 DEF PutReplace, Replace, IInv, SavesKnow
<1>2. IInv /\ [Next]_vars
        => [\A q \in Slots :
                req[q].pc = "replace" /\ req'[q].pc = "save" /\ req[q].kept /\ ~req[q].overtaken
                    => running'.secret = running.secret]_vars
  BY <1>1
<1>3. QED
  BY <1>2, Invariance, PTL DEF Spec, MaskedKeepsSecret

=============================================================================
