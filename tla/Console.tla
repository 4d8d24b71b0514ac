------------------------------ MODULE Console -------------------------------
(***************************************************************************)
(* The administrator's side of the API: the one administrator and the      *)
(* password that must be changed (src/msgate/auth/admin.py, cli/admin.py), *)
(* the session cookie that every response issues again and the gate in     *)
(* front of the handlers (auth/web_middleware.py, api/routes/auth_ui.py),  *)
(* and the configuration, running and stored (config/, api/routes/         *)
(* config.py).                                                             *)
(*                                                                         *)
(* Handlers run in a pool of threads: a step is one statement on the       *)
(* database, one locked operation on the running configuration, or the     *)
(* arrival or the answer of a request.  A browser has several requests     *)
(* under way: tabs, and pages that poll.                                   *)
(***************************************************************************)

CONSTANTS
    Browsers,
    Slots,      \* bound: requests under way at once
    Servers,    \* values of the ews block, its password left out
    Secrets,    \* values of its password
    EnvConfig,  \* the configuration of the environment
    Traffic     \* bound: the requests and commands each behaviour has, a set of sets

NoServer == "no ews block"
NoSecret == "no password"
Mask == "***"

(* A configuration; only a configured server has a password. *)
Configs ==
    {c \in [server : Servers \cup {NoServer}, secret : Secrets \cup {NoSecret}] :
        c.server = NoServer => c.secret = NoSecret}

(* What a PUT may send: the password new, left blank, or masked as GET gave it. *)
Updates == [server : Servers \cup {NoServer}, secret : Secrets \cup {NoSecret, Mask}]

Kinds == {"page", "setup", "login", "change", "logout", "put", "import"}

ASSUME ConsoleAssumption ==
    /\ EnvConfig \in Configs
    /\ Traffic \subseteq SUBSET (Kinds \cup {"reset"})
    /\ NoServer \notin Servers
    /\ {NoSecret, Mask} \cap Secrets = {}
    /\ "root" \notin Slots

VARIABLES
    traffic,    \* what this behaviour has
    admin,      \* the row of the administrator: none, or must_change_password
    reset,      \* msgate admin reset-password: the row it has loaded, or Idle
    cookie,     \* the session in each browser's cookie
    running,    \* RuntimeConfig
    stored,     \* the gateway_config setting
    req,        \* per slot: a request under way, or Free
    writer,     \* history: how the row was last written
    due,        \* history: the session each browser last signed in or out to
    tangled,    \* history: browsers answered late since, see Answer
    unsaved     \* history: a save failed or came after another's replace

adminVars == <<admin, reset, writer>>
configVars == <<running, stored, unsaved>>
browserVars == <<cookie, due, tangled>>
vars == <<traffic, adminVars, configVars, browserVars, req>>

Rows == {"none", "forced", "chosen"}        \* must_change_password: "forced"
Sessions == {"out", "forced", "full"}       \* no session, or the one for such a row
Steps == {"free", "begin", "row", "write", "replace", "save", "answer"}
Writer == [by : {"env", "setup", "change", "reset", "nobody"}, over : Rows, raced : BOOLEAN]
Resets == [seen : Rows, overtaken : BOOLEAN]
Idle == [seen |-> "none", overtaken |-> FALSE, pc |-> "idle"]

NoConfig == [server |-> NoServer, secret |-> NoSecret]

Request == [
    pc : Steps,
    browser : Browsers \cup {"nobody"},
    kind : Kinds,
    session : Sessions,             \* request.state.msgate_session
    rules : Sessions \cup {"none"}, \* the session it has signed in or out to
    late : BOOLEAN,                 \* history: an answer ruled since it arrived
    seen : Rows,                    \* the row its write has loaded
    config : Configs,               \* what it replaces and saves
    kept : BOOLEAN,                 \* history: it leaves the password as it is
    overtaken : BOOLEAN]            \* history: another replaced or wrote what it read

Free == [pc |-> "free", browser |-> "nobody", kind |-> "page", session |-> "out",
         rules |-> "none", late |-> FALSE, seen |-> "none",
         config |-> NoConfig, kept |-> FALSE, overtaken |-> FALSE]

Init ==
    /\ traffic \in Traffic
    /\ admin \in {"none", "forced"}
    /\ reset = Idle
    /\ cookie = [b \in Browsers |-> "out"]
    /\ running = EnvConfig
    /\ stored = EnvConfig
    /\ req = [q \in Slots |-> Free]
    /\ writer = [by |-> IF admin = "none" THEN "nobody" ELSE "env", over |-> "none", raced |-> FALSE]
    /\ due = cookie
    /\ tangled = {}
    /\ unsaved = FALSE

-----------------------------------------------------------------------------
(* The middleware, around every handler.                                   *)

(* The paths the gate lets through with a session. *)
Allowed(session) ==
    IF admin = "none" THEN {"setup"}
    ELSE CASE session = "out" -> {"login"}
           [] session = "forced" -> {"change", "logout"}
           [] session = "full" -> Kinds \ {"setup"}

(* The session is decoded once; a request that is refused is answered. *)
Arrive(q, b, k) ==
    /\ req[q].pc = "free"
    /\ k \in traffic
    /\ req' = [req EXCEPT ![q] =
                [Free EXCEPT !.pc = IF k \in Allowed(cookie[b]) \ {"page"} THEN "begin" ELSE "answer",
                             !.browser = b, !.kind = k, !.session = cookie[b]]]
    /\ UNCHANGED <<traffic, adminVars, configVars, browserVars>>

(* The handler returns, having signed in or out to s or, with "none", not. *)
Ended(q, s) ==
    [Free EXCEPT !.pc = "answer", !.browser = req[q].browser, !.late = req[q].late,
                 !.rules = s, !.session = IF s = "none" THEN req[q].session ELSE s]

Finish(q, s) == req' = [req EXCEPT ![q] = Ended(q, s)]

(* Request q moves on; those between the given steps worked from what it overwrote. *)
Overtakes(q, steps, then) ==
    req' = [r \in Slots |->
        IF r = q THEN then
        ELSE IF req[r].pc \in steps THEN [req[r] EXCEPT !.overtaken = TRUE] ELSE req[r]]

(* Mutated Answer: an empty session leaves the cookie alone. *)
AnswerKeepsCookie(q) ==
    LET b == req[q].browser
        rules == req[q].rules # "none"
    IN  /\ req[q].pc = "answer"
        /\ cookie' = IF req[q].session = "out" THEN cookie ELSE [cookie EXCEPT ![b] = req[q].session]
        /\ due' = IF rules THEN [due EXCEPT ![b] = req[q].rules] ELSE due
        /\ tangled' = IF rules THEN tangled \ {b} ELSE IF req[q].late THEN tangled \cup {b} ELSE tangled
        /\ req' = [r \in Slots |->
                    IF r = q THEN Free
                    ELSE IF rules /\ req[r].browser = b THEN [req[r] EXCEPT !.late = TRUE] ELSE req[r]]
        /\ UNCHANGED <<traffic, adminVars, configVars>>

(* Every response sets the cookie to the session its request arrived with, *)
(* or signed in or out to.  Other requests of this browser that loaded     *)
(* theirs before will issue an older one when they are answered.           *)
Answer(q) ==
    LET b == req[q].browser
        rules == req[q].rules # "none"
    IN  /\ req[q].pc = "answer"
        /\ cookie' = [cookie EXCEPT ![b] = req[q].session]
        /\ due' = IF rules THEN [due EXCEPT ![b] = req[q].rules] ELSE due
        /\ tangled' = IF rules THEN tangled \ {b} ELSE IF req[q].late THEN tangled \cup {b} ELSE tangled
        /\ req' = [r \in Slots |->
                    IF r = q THEN Free
                    ELSE IF rules /\ req[r].browser = b THEN [req[r] EXCEPT !.late = TRUE] ELSE req[r]]
        /\ UNCHANGED <<traffic, adminVars, configVars>>

(* The answer never gets to the browser. *)
Lost(q) ==
    /\ req[q].pc = "answer"
    /\ req' = [req EXCEPT ![q] = Free]
    /\ UNCHANGED <<traffic, adminVars, configVars, browserVars>>

(* A week without a request: the cookie has expired. *)
Expire(b) ==
    /\ cookie[b] # "out"
    /\ \A q \in Slots : req[q].browser # b
    /\ cookie' = [cookie EXCEPT ![b] = "out"]
    /\ due' = [due EXCEPT ![b] = "out"]
    /\ tangled' = tangled \ {b}
    /\ UNCHANGED <<traffic, adminVars, configVars, req>>

At(q, k, step) == req[q].pc = step /\ req[q].kind = k

-----------------------------------------------------------------------------
(* Signing in and out, and the row of the administrator.                   *)

(* A wrong or too short password, two that differ, a bad bundle. *)
Refuse(q) ==
    /\ \/ req[q].pc = "begin" /\ req[q].kind \in {"setup", "login", "change", "import"}
       \/ req[q].pc = "row"
    /\ Finish(q, "none")
    /\ UNCHANGED <<traffic, adminVars, configVars, browserVars>>

(* The password is that of the row read. *)
Login(q) ==
    /\ At(q, "login", "begin")
    /\ Finish(q, IF admin = "forced" THEN "forced" ELSE "full")
    /\ UNCHANGED <<traffic, adminVars, configVars, browserVars>>

Logout(q) ==
    /\ At(q, "logout", "begin")
    /\ Finish(q, "out")
    /\ UNCHANGED <<traffic, adminVars, configVars, browserVars>>

(* Mutated CheckRow: a set-up leaves the check to the gate. *)
CheckRowUnlessSetup(q) ==
    /\ req[q].pc = "begin" /\ req[q].kind \in {"setup", "change"}
    /\ req' = [req EXCEPT ![q].pc = "row"]
    /\ UNCHANGED <<traffic, adminVars, configVars, browserVars>>

(* No administrator for a set-up, the current password for a change. *)
CheckRow(q) ==
    /\ req[q].pc = "begin"
    /\ \/ req[q].kind = "setup" /\ admin = "none"
       \/ req[q].kind = "change"
    /\ req' = [req EXCEPT ![q].pc = "row"]
    /\ UNCHANGED <<traffic, adminVars, configVars, browserVars>>

(* The new password is hashed, then the row is selected to be written. *)
LoadRow(q) ==
    /\ req[q].pc = "row"
    /\ req' = [req EXCEPT ![q].pc = "write", ![q].seen = admin]
    /\ UNCHANGED <<traffic, adminVars, configVars, browserVars>>

(* The commit: an INSERT fails when there is a row by now; an UPDATE sets  *)
(* must_change_password only when it differs from what was loaded.         *)
Writes(by, seen, new, raced) ==
    /\ seen = "none" => admin = "none"
    /\ admin' = IF seen = new THEN admin ELSE new
    /\ writer' = [by |-> by, over |-> admin, raced |-> raced]

WriteRow(q) ==
    /\ req[q].pc = "write"
    /\ Writes(req[q].kind, req[q].seen, "chosen", req[q].overtaken)
    /\ Overtakes(q, {"row", "write"}, Ended(q, "full"))
    /\ reset' = IF reset = Idle THEN Idle ELSE [reset EXCEPT !.overtaken = TRUE]
    /\ UNCHANGED <<traffic, configVars, browserVars>>

(* IntegrityError: an answer of status 500, which issues no cookie. *)
InsertFails(q) ==
    /\ req[q].pc = "write"
    /\ req[q].seen = "none" /\ admin # "none"
    /\ req' = [req EXCEPT ![q] = Free]
    /\ UNCHANGED <<traffic, adminVars, configVars, browserVars>>

(* The command on the console of the host, another process. *)
ResetLoad ==
    /\ "reset" \in traffic
    /\ reset = Idle
    /\ reset' = [seen |-> admin, overtaken |-> FALSE]
    /\ UNCHANGED <<traffic, admin, writer, configVars, browserVars, req>>

ResetWrite ==
    /\ reset # Idle
    /\ Writes("reset", reset.seen, "forced", reset.overtaken)
    /\ Overtakes("root", {"row", "write"}, Free)
    /\ reset' = Idle
    /\ UNCHANGED <<traffic, configVars, browserVars>>

ResetFails ==
    /\ reset # Idle
    /\ reset' = Idle
    /\ UNCHANGED <<traffic, admin, writer, configVars, browserVars, req>>

-----------------------------------------------------------------------------
(* The configuration.                                                      *)

(* Mutated Merge: only the mask keeps the password, a blank clears it. *)
MergeBlankClears(current, update) ==
    IF update.server = NoServer THEN NoConfig
    ELSE [update EXCEPT !.secret = IF @ = Mask THEN current.secret ELSE @]

(* Mutated Merge: an update is taken as it is. *)
MergeVerbatim(current, update) == update

(* merge_config_update: a blank or masked password is the current one. *)
Merge(current, update) ==
    IF update.server = NoServer THEN NoConfig
    ELSE [update EXCEPT !.secret = IF @ \in {NoSecret, Mask} THEN current.secret ELSE @]

Keeps(update) == update.server # NoServer /\ update.secret \notin Secrets

(* put_config reads and merges; it then negotiates TLS, which takes time. *)
PutRead(q) ==
    /\ At(q, "put", "begin")
    /\ \E u \in Updates :
        req' = [req EXCEPT ![q].pc = "replace", ![q].config = Merge(running, u), ![q].kept = Keeps(u)]
    /\ UNCHANGED <<traffic, adminVars, configVars, browserVars>>

Replace(q, c) ==
    /\ running' = c
    /\ Overtakes(q, {"replace", "save"},
                 [req[q] EXCEPT !.pc = "save", !.config = c, !.overtaken = FALSE])
    /\ UNCHANGED <<traffic, adminVars, stored, unsaved, browserVars>>

PutReplace(q) == At(q, "put", "replace") /\ Replace(q, req[q].config)

(* A bundle exported before, here or elsewhere. *)
Import(q) == At(q, "import", "begin") /\ \E c \in Configs : Replace(q, c)

Save(q) ==
    /\ req[q].pc = "save"
    /\ stored' = req[q].config
    /\ unsaved' = req[q].overtaken
    /\ Finish(q, "none")
    /\ UNCHANGED <<traffic, adminVars, running, browserVars>>

(* The database is locked: status 500, and running stays ahead of stored. *)
SaveFails(q) ==
    /\ req[q].pc = "save"
    /\ unsaved' = (unsaved \/ ~req[q].overtaken)
    /\ req' = [req EXCEPT ![q] = Free]
    /\ UNCHANGED <<traffic, adminVars, running, stored, browserVars>>

(* Mutated Restart: the environment overrides what was saved. *)
RestartFromEnv ==
    /\ running' = EnvConfig
    /\ unsaved' = FALSE
    /\ req' = [q \in Slots |-> Free]
    /\ UNCHANGED <<traffic, adminVars, stored, browserVars>>

(* The process ends and build_app_state runs again: the stored             *)
(* configuration is there, so the environment is not asked; nor for the    *)
(* administrator, who is either there or was not in the environment.       *)
Restart ==
    /\ running' = stored
    /\ unsaved' = FALSE
    /\ req' = [q \in Slots |-> Free]
    /\ UNCHANGED <<traffic, adminVars, stored, browserVars>>

-----------------------------------------------------------------------------
Handle(q) ==
    \/ Answer(q) \/ Lost(q) \/ Refuse(q) \/ Login(q) \/ Logout(q)
    \/ CheckRow(q) \/ LoadRow(q) \/ WriteRow(q) \/ InsertFails(q)
    \/ PutRead(q) \/ PutReplace(q) \/ Import(q) \/ Save(q) \/ SaveFails(q)

Next ==
    \/ \E q \in Slots, b \in Browsers, k \in Kinds : Arrive(q, b, k)
    \/ \E q \in Slots : Handle(q)
    \/ \E b \in Browsers : Expire(b)
    \/ ResetLoad \/ ResetWrite \/ ResetFails
    \/ Restart

Spec == Init /\ [][Next]_vars

-----------------------------------------------------------------------------
(* Every variable has its type. *)
TypeOK ==
    /\ traffic \in Traffic
    /\ admin \in Rows
    /\ reset \in Resets \cup {Idle}
    /\ cookie \in [Browsers -> Sessions]
    /\ running \in Configs
    /\ stored \in Configs
    /\ req \in [Slots -> Request]
    /\ writer \in Writer
    /\ due \in [Browsers -> Sessions]
    /\ tangled \subseteq Browsers
    /\ unsaved \in BOOLEAN

(* A browser has the session it last signed in or out to, unless a request *)
(* that was under way at the time was answered since.  (A session outlives *)
(* a reset of the password by root.)                                       *)
CookieFollows == \A b \in Browsers \ tangled : cookie[b] = due[b]

(* A user must change a password exactly when root or the environment      *)
(* chose it, and a set-up creates the administrator, never replaces one;   *)
(* unless the row changed between the check of the last writer and its     *)
(* commit, as when two first visitors set up at once.                      *)
AdminExplained ==
    ~writer.raced =>
        /\ admin = "forced" <=> writer.by \in {"env", "reset"}
        /\ writer.by = "setup" => writer.over = "none"

(* What runs is what a restart would find, except from a replace to its    *)
(* save, after a save that failed, and after saves in the other order than *)
(* the replaces.                                                           *)
CopiesAgree == running = stored \/ unsaved \/ \E q \in Slots : req[q].pc = "save"

(* A request that leaves the password out, or sends the mask back, does    *)
(* not change it; unless the configuration was replaced since it was read. *)
MaskedKeepsSecret ==
    [][\A q \in Slots :
        req[q].pc = "replace" /\ req'[q].pc = "save" /\ req[q].kept /\ ~req[q].overtaken
            => running'.secret = running.secret]_vars

=============================================================================
