---------------------------- MODULE AuthService ----------------------------
(***************************************************************************)
(* The authentication server's accounts (Authentication/DBUtils.cpp and the  *)
(* two request handlers) over its MySQL database, one SQL statement a step.   *)
(*                                                                          *)
(* The server handles one request at a time.  Statements are committed one   *)
(* by one (autocommit); any of them may throw, without effect or, when the   *)
(* connection breaks, after taking effect.  The connection is opened once    *)
(* and never again.  The process may die at any point and be restarted; the  *)
(* tables survive.                                                          *)
(***************************************************************************)
EXTENDS Naturals, FiniteSets

CONSTANTS
    Email, Password,
    PlainEmail,        \* emails that between double quotes in SQL stand for themselves
    Key, Collate,      \* those with one key are equal in the table's collation
    ShortPassword,     \* passwords of less than 8 characters
    MaxUserId          \* bound: ids the user table hands out

ASSUME AccountAssumption ==
    /\ Collate \in [PlainEmail -> Key]
    /\ ShortPassword \subseteq Password
    /\ MaxUserId \in Nat

\* The email of a request is put into the text of the statements as it came
\* (DBUtils.cpp:28, 86, 115).  One with a quote or a backslash would make
\* another statement of it; it is assumed that there is none.
ASSUME PlainEmails == Email \subseteq PlainEmail

VARIABLES
    user,       \* table user: its ids
    nextId,     \* its AUTO_INCREMENT value
    web_auth,   \* table web_auth: a set of rows
    connected,  \* m_Connection works
    at,         \* the statement that comes next, or "idle"
    request,    \* the request being handled
    userId,     \* its local variable, 0 while it has no id
    lastInsertId, \* last_insert_id() of the connection
    answer,     \* the last answer given
    answerId,   \* and the user id in it
    told        \* history: registrations that were answered SUCCESS

tables == <<user, nextId, web_auth>>
vars == <<tables, connected, at, request, userId, lastInsertId, answer, answerId, told>>

NoRequest == [kind |-> "none"]
Request == [kind : {"login", "register"}, email : Email, password : Password]
Id == 1 .. MaxUserId

\* Equality of emails in SQL: the tables' collation is utf8mb4_0900_ai_ci.
SameEmail(e, f) == Collate[e] = Collate[f]
Rows(e) == {w \in web_auth : SameEmail(w.email, e)}

GenerateSalt(email) == email
\* Distinct salts or passwords have distinct hashes.
HashPassword(salt, password) == <<salt, password>>

\* Mutation: the salt is generated again from the email of the request.
VerifyFromEmail(w, password) ==
    HashPassword(GenerateSalt(request.email), password) = w.hashed_password

VerifyHash(w, password) == HashPassword(w.salt, password) = w.hashed_password

Row(e, p, id) == [email |-> e, salt |-> GenerateSalt(e),
                  hashed_password |-> HashPassword(GenerateSalt(e), p), userId |-> id]

TypeOK ==
    /\ user \subseteq Id /\ nextId \in 1 .. MaxUserId + 1
    /\ web_auth \subseteq {Row(e, p, id) : e \in Email, p \in Password, id \in Id}
    /\ connected \in BOOLEAN
    /\ at \in {"idle", "findAccount", "creationDate", "lastLogin",
               "findExisting", "insertUser", "lastInsertId", "insertWebAuth"}
    /\ request \in Request \cup {NoRequest} /\ (at = "idle" <=> request = NoRequest)
    /\ userId \in Id \cup {0} /\ lastInsertId \in Id \cup {0}
    /\ answerId \in Id \cup {0}
    /\ told \subseteq Email \X Password

Init ==
    /\ user = {} /\ nextId = 1 /\ web_auth = {}
    /\ connected = TRUE
    /\ at = "idle" /\ request = NoRequest
    /\ userId = 0 /\ lastInsertId = 0
    /\ answer = NoRequest /\ answerId = 0
    /\ told = {}

-----------------------------------------------------------------------------
(* Steps between statements.                                                *)

\* Mutation: the request is kept after it was answered.
ReplyWithoutClear(r, result, id) ==
    /\ answer' = [kind |-> r.kind, email |-> r.email, password |-> r.password,
                  result |-> result]
    /\ answerId' = id
    /\ at' = "idle" /\ request' = r /\ userId' = 0

\* The handler returns: the result goes out and the server is idle again.
ReplyTo(r, result, id) ==
    /\ answer' = [kind |-> r.kind, email |-> r.email, password |-> r.password,
                  result |-> result]
    /\ answerId' = id
    /\ at' = "idle" /\ request' = NoRequest /\ userId' = 0

Reply(result, id) == ReplyTo(request, result, id)

Continue(next) ==
    /\ at' = next
    /\ UNCHANGED <<request, answer, answerId>>

\* Mutation: a statement of CreateAccount that throws is taken for a duplicate key.
ThrowsDuplicate ==
    /\ connected' \in {connected, FALSE}
    /\ Reply(IF request.kind = "register" THEN "ACCOUNT_ALREADY_EXISTS"
             ELSE "INTERNAL_SERVER_ERROR", userId)
    /\ UNCHANGED <<tables, lastInsertId, told>>

\* A statement runs, or throws with no effect: INTERNAL_SERVER_ERROR, and
\* userId is whatever it was.  A throw may mean that the connection is lost.
Runs == connected /\ UNCHANGED connected
Throws ==
    /\ connected' \in {connected, FALSE}
    /\ Reply("INTERNAL_SERVER_ERROR", userId)
    /\ UNCHANGED <<tables, lastInsertId, told>>

Receive == \E r \in Request :
    /\ at = "idle"
    /\ IF r.kind = "register" /\ r.password \in ShortPassword
       THEN ReplyTo(r, "INVALID_PASSWORD", 0)
       ELSE /\ request' = r
            /\ at' = IF r.kind = "login" THEN "findAccount" ELSE "findExisting"
            /\ UNCHANGED <<userId, answer, answerId>>
    /\ UNCHANGED <<tables, connected, lastInsertId, told>>

-----------------------------------------------------------------------------
(* AuthenticateAccount.                                                     *)

FindAccount ==
    /\ at = "findAccount"
    /\ \/ /\ Runs
          /\ IF Rows(request.email) = {}
             THEN Reply("INVALID_CREDENTIALS", 0)
             ELSE LET w == CHOOSE w \in Rows(request.email) : TRUE
                  IN IF VerifyHash(w, request.password)
                     THEN userId' = w.userId /\ Continue("creationDate")
                     ELSE Reply("INVALID_CREDENTIALS", w.userId)
          /\ UNCHANGED <<tables, lastInsertId, told>>
       \/ Throws

\* SELECT creation_date: getString throws when the user row is missing.
ReadCreationDate ==
    /\ at = "creationDate"
    /\ \/ /\ Runs /\ userId \in user
          /\ Continue("lastLogin")
          /\ UNCHANGED <<tables, userId, lastInsertId, told>>
       \/ Throws

UpdateLastLogin ==
    /\ at = "lastLogin"
    /\ \/ /\ Runs
          /\ Reply("SUCCESS", userId)
          /\ UNCHANGED <<tables, lastInsertId, told>>
       \/ Throws

-----------------------------------------------------------------------------
(* CreateAccount.                                                           *)

FindExisting ==
    /\ at = "findExisting"
    /\ \/ /\ Runs
          /\ IF Rows(request.email) # {}
             THEN Reply("ACCOUNT_ALREADY_EXISTS", 0)
             ELSE Continue("insertUser") /\ UNCHANGED userId
          /\ UNCHANGED <<tables, lastInsertId, told>>
       \/ Throws

\* A row with the next id; the id is used up even if the insert then fails.
InsertRow(applied) ==
    /\ nextId <= MaxUserId
    /\ nextId' = nextId + 1
    /\ user' = IF applied THEN user \cup {nextId} ELSE user
    /\ UNCHANGED web_auth

\* Mutation: a failed insert is taken for a good one.
InsertUserUnchecked ==
    /\ at = "insertUser"
    /\ Runs /\ (\E applied \in BOOLEAN : InsertRow(applied))
    /\ lastInsertId' = nextId
    /\ Continue("lastInsertId")
    /\ UNCHANGED <<userId, told>>

InsertUser ==
    /\ at = "insertUser"
    /\ \/ /\ Runs /\ InsertRow(TRUE)
          /\ lastInsertId' = nextId
          /\ Continue("lastInsertId")
          /\ UNCHANGED <<userId, told>>
       \/ /\ \E applied \in BOOLEAN : InsertRow(applied)   \* the connection breaks
          /\ connected /\ connected' = FALSE
          /\ Reply("INTERNAL_SERVER_ERROR", userId)
          /\ UNCHANGED <<lastInsertId, told>>
       \/ Throws

SelectLastInsertId ==
    /\ at = "lastInsertId"
    /\ \/ /\ Runs
          /\ userId' = lastInsertId
          /\ Continue("insertWebAuth")
          /\ UNCHANGED <<tables, lastInsertId, told>>
       \/ Throws

\* The insert succeeds unless the unique key email is taken.
InsertWebAuthRow ==
    /\ Rows(request.email) = {}
    /\ web_auth' = web_auth \cup {Row(request.email, request.password, userId)}
    /\ UNCHANGED <<user, nextId>>

\* Mutation: SUCCESS is answered although the insert failed.
InsertWebAuthUnchecked ==
    /\ at = "insertWebAuth"
    /\ Runs /\ (InsertWebAuthRow \/ UNCHANGED tables)
    /\ told' = told \cup {<<request.email, request.password>>}
    /\ Reply("SUCCESS", userId)
    /\ UNCHANGED lastInsertId

InsertWebAuth ==
    /\ at = "insertWebAuth"
    /\ \/ /\ Runs /\ InsertWebAuthRow
          /\ told' = told \cup {<<request.email, request.password>>}
          /\ Reply("SUCCESS", userId)
          /\ UNCHANGED lastInsertId
       \/ /\ InsertWebAuthRow                              \* the connection breaks
          /\ connected /\ connected' = FALSE
          /\ Reply("INTERNAL_SERVER_ERROR", userId)
          /\ UNCHANGED <<lastInsertId, told>>
       \/ Throws

-----------------------------------------------------------------------------
\* The process dies, between two statements, and is started again: a new
\* connection.  The request is never answered.
Restart ==
    /\ connected' = TRUE
    /\ at' = "idle" /\ request' = NoRequest /\ userId' = 0 /\ lastInsertId' = 0
    /\ UNCHANGED <<tables, answer, answerId, told>>

Next == Receive \/ FindAccount \/ ReadCreationDate \/ UpdateLastLogin \/ FindExisting
        \/ InsertUser \/ SelectLastInsertId \/ InsertWebAuth \/ Restart

Spec == Init /\ [][Next]_vars

-----------------------------------------------------------------------------
(* Every account belongs to a user row of its own, whatever statement of an    *)
(* earlier registration failed; rows left over by one belong to no account.  *)
AccountsOwnUsers ==
    /\ \A w \in web_auth : w.userId \in user
    /\ \A v, w \in web_auth : v # w => v.userId # w.userId /\ ~SameEmail(v.email, w.email)

(* The user id in a SUCCESS is the account's, although userId is a variable    *)
(* the handlers leave uninitialised on other paths; for emails that are      *)
(* plain data (PlainEmails).                                                 *)
SuccessNamesUser ==
    answer # NoRequest /\ answer.result = "SUCCESS" =>
        \E w \in Rows(answer.email) : w.userId = answerId /\ answerId \in user

(* Credentials whose registration was answered SUCCESS are never called        *)
(* invalid afterwards, across failures and restarts, in whatever case the    *)
(* email is written; for emails that are plain data (PlainEmails).           *)
NeverForgotten ==
    answer # NoRequest /\ answer.kind = "login" /\ answer.result = "INVALID_CREDENTIALS" =>
        \A t \in told : ~(SameEmail(t[1], answer.email) /\ t[2] = answer.password)

accounts ==
    [k \in {Collate[w.email] : w \in web_auth} |->
        (CHOOSE w \in web_auth : Collate[w.email] = k).hashed_password[2]]

AccountsSpec == INSTANCE Accounts

(* The tables, read as a map from emails to passwords, and the answers behave   *)
(* like the abstract accounts: the multi-statement requests look atomic, for *)
(* emails that are plain data (PlainEmails).                                 *)
ImplementsAccounts == AccountsSpec!Spec
=============================================================================
