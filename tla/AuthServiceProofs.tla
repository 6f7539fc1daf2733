-------------------------- MODULE AuthServiceProofs --------------------------
(***************************************************************************)
(* Proofs about module AuthService, for any emails, collation, passwords and *)
(* number of user ids: type correctness; that every account owns a user row   *)
(* whatever statements failed and whenever the process was restarted; that   *)
(* an answer SUCCESS names that row and a confirmed account is never called   *)
(* invalid; and that the service implements the abstract accounts.           *)
(***************************************************************************)
EXTENDS AuthService, Integers, TLAPS

\* The id InsertUser produced is a row nobody owns, until InsertWebAuth gives
\* it an owner.
FreshId(id) == id \in user /\ \A w \in web_auth : w.userId # id

\* The strengthening: ids are handed out in order, and a registration carries
\* its fresh id through the two statements that follow the first insert.
IInv ==
    /\ TypeOK
    /\ AccountsOwnUsers
    /\ \A id \in user : id < nextId
    /\ at = "lastInsertId" => FreshId(lastInsertId)
    /\ at = "insertWebAuth" => FreshId(userId)

(* A request that is being handled is one of Request.                         *)
LEMMA RequestType ==
    ASSUME TypeOK, at # "idle"
    PROVE  request \in Request
BY DEF TypeOK

(* The rows of web_auth have the fields of one.                               *)
LEMMA RowType ==
    ASSUME NEW e \in Email, NEW p \in Password, NEW id \in Id
    PROVE  Row(e, p, id).userId = id /\ Row(e, p, id).email = e
BY DEF Row

(* A reply leaves the server idle.                                            *)
LEMMA ReplyType ==
    ASSUME NEW r, NEW result, NEW id \in Id \cup {0}, ReplyTo(r, result, id)
    PROVE  /\ at' = "idle" /\ request' = NoRequest /\ userId' = 0
           /\ answerId' \in Id \cup {0}
BY DEF ReplyTo

(* A statement that throws without effect preserves the invariant.            *)
LEMMA ThrowsIInv == ASSUME IInv, Throws PROVE IInv'
<1>1. at' = "idle" /\ request' = NoRequest /\ userId' = 0 /\ answerId' \in Id \cup {0}
  BY ReplyType DEF Throws, Reply, IInv, TypeOK
<1>2. connected' \in BOOLEAN
  <2>1. connected \in BOOLEAN
    BY DEF IInv, TypeOK
  <2>2. connected' = connected \/ connected' = FALSE
    BY DEF Throws
  <2> QED BY <2>1, <2>2
<1>3. UNCHANGED <<tables, lastInsertId, told>>
  BY DEF Throws
<1> QED BY <1>1, <1>2, <1>3 DEF IInv, TypeOK, AccountsOwnUsers, SameEmail, tables

(* So does one that replies and changes no table.                             *)
LEMMA ReplyIInv ==
    ASSUME IInv, NEW r, NEW result, NEW id \in Id \cup {0}, ReplyTo(r, result, id),
           connected' \in BOOLEAN, UNCHANGED <<tables, lastInsertId, told>>
    PROVE  IInv'
<1>1. at' = "idle" /\ request' = NoRequest /\ userId' = 0 /\ answerId' \in Id \cup {0}
  BY ReplyType
<1> QED BY <1>1 DEF IInv, TypeOK, AccountsOwnUsers, SameEmail, tables

(* The empty tables satisfy the invariant.                                    *)
LEMMA InitIInv == Init => IInv
BY AccountAssumption DEF Init, IInv, TypeOK, AccountsOwnUsers, Id, NoRequest

(* Moving on to a statement that carries no fresh id preserves the invariant.  *)
LEMMA ContinueIInv ==
    ASSUME IInv, at # "idle", NEW next,
           next \in {"creationDate", "lastLogin", "insertUser"}, Continue(next),
           userId' \in Id \cup {0}, Runs, UNCHANGED <<tables, lastInsertId, told>>
    PROVE  IInv'
<1>1. /\ at' = next /\ UNCHANGED <<request, answerId>>
  BY DEF Continue
<1>2. connected' = connected
  BY DEF Runs
<1> QED BY <1>1, <1>2 DEF IInv, TypeOK, AccountsOwnUsers, SameEmail, tables

(* Receiving a request changes no table.                                      *)
LEMMA ReceiveIInv == ASSUME IInv, Receive PROVE IInv'
<1>1. PICK r \in Request :
         /\ at = "idle"
         /\ IF r.kind = "register" /\ r.password \in ShortPassword
            THEN ReplyTo(r, "INVALID_PASSWORD", 0)
            ELSE /\ request' = r
                 /\ at' = IF r.kind = "login" THEN "findAccount" ELSE "findExisting"
                 /\ UNCHANGED <<userId, answer, answerId>>
         /\ UNCHANGED <<tables, connected, lastInsertId, told>>
  BY DEF Receive
<1>2. CASE ReplyTo(r, "INVALID_PASSWORD", 0)
  <2>1. connected' \in BOOLEAN
    BY <1>1 DEF IInv, TypeOK
  <2>2. 0 \in Id \cup {0}
    OBVIOUS
  <2> QED BY <1>1, <1>2, <2>1, <2>2, ReplyIInv
<1>3. CASE /\ request' = r
           /\ at' = IF r.kind = "login" THEN "findAccount" ELSE "findExisting"
           /\ UNCHANGED <<userId, answer, answerId>>
  <2>1. r # NoRequest
    BY DEF Request, NoRequest
  <2>2. at' \in {"findAccount", "findExisting"}
    BY <1>3
  <2> QED BY <1>1, <1>3, <2>1, <2>2
          DEF IInv, TypeOK, AccountsOwnUsers, SameEmail, tables
<1> QED BY <1>1, <1>2, <1>3

(* Looking an account up changes no table.                                    *)
LEMMA FindAccountIInv == ASSUME IInv, FindAccount PROVE IInv'
<1>1. CASE Throws
  BY <1>1, ThrowsIInv
<1>2. ASSUME Runs, UNCHANGED <<tables, lastInsertId, told>>,
             Reply("INVALID_CREDENTIALS", 0)
      PROVE  IInv'
  <2>1. connected' \in BOOLEAN
    BY <1>2 DEF Runs, IInv, TypeOK
  <2>2. 0 \in Id \cup {0}
    OBVIOUS
  <2> QED BY <1>2, <2>1, <2>2, ReplyIInv DEF Reply
<1>3. ASSUME Runs, UNCHANGED <<tables, lastInsertId, told>>, Rows(request.email) # {},
             NEW w, w = CHOOSE v \in Rows(request.email) : TRUE,
             \/ Reply("INVALID_CREDENTIALS", w.userId)
             \/ userId' = w.userId /\ Continue("creationDate")
      PROVE  IInv'
  <2>1. w \in web_auth
    BY <1>3 DEF Rows
  <2>2. w.userId \in Id \cup {0}
    BY <2>1 DEF IInv, TypeOK, Row
  <2>3. connected' \in BOOLEAN
    BY <1>3 DEF Runs, IInv, TypeOK
  <2>4. CASE Reply("INVALID_CREDENTIALS", w.userId)
    BY <1>3, <2>2, <2>3, <2>4, ReplyIInv DEF Reply
  <2>5. CASE userId' = w.userId /\ Continue("creationDate")
    <3>1. at # "idle"
      BY DEF FindAccount
    <3>2. userId' \in Id \cup {0}
      BY <2>2, <2>5
    <3> QED BY <1>3, <2>5, <3>1, <3>2, ContinueIInv
  <2> QED BY <1>3, <2>4, <2>5
<1> QED BY <1>1, <1>2, <1>3 DEF FindAccount

(* Reading the creation date changes no table.                                *)
LEMMA ReadCreationDateIInv == ASSUME IInv, ReadCreationDate PROVE IInv'
<1>1. CASE Throws
  BY <1>1, ThrowsIInv
<1>2. CASE Runs /\ Continue("lastLogin") /\ UNCHANGED <<tables, userId, lastInsertId, told>>
  <2>1. at # "idle"
    BY DEF ReadCreationDate
  <2>2. userId' \in Id \cup {0}
    BY <1>2 DEF IInv, TypeOK
  <2> QED BY <1>2, <2>1, <2>2, ContinueIInv
<1> QED BY <1>1, <1>2 DEF ReadCreationDate

(* The answer to a login changes nothing but the answer.                      *)
LEMMA UpdateLastLoginIInv == ASSUME IInv, UpdateLastLogin PROVE IInv'
<1>1. CASE Throws
  BY <1>1, ThrowsIInv
<1>2. CASE Runs /\ Reply("SUCCESS", userId) /\ UNCHANGED <<tables, lastInsertId, told>>
  <2>1. connected' \in BOOLEAN
    BY <1>2 DEF Runs, IInv, TypeOK
  <2>2. userId \in Id \cup {0}
    BY DEF IInv, TypeOK
  <2> QED BY <1>2, <2>1, <2>2, ReplyIInv DEF Reply
<1> QED BY <1>1, <1>2 DEF UpdateLastLogin

(* A registration first looks for the email, and changes no table.            *)
LEMMA FindExistingIInv == ASSUME IInv, FindExisting PROVE IInv'
<1>1. CASE Throws
  BY <1>1, ThrowsIInv
<1>2. ASSUME Runs, UNCHANGED <<tables, lastInsertId, told>>,
             Reply("ACCOUNT_ALREADY_EXISTS", 0)
      PROVE  IInv'
  <2>1. connected' \in BOOLEAN
    BY <1>2 DEF Runs, IInv, TypeOK
  <2>2. 0 \in Id \cup {0}
    OBVIOUS
  <2> QED BY <1>2, <2>1, <2>2, ReplyIInv DEF Reply
<1>3. ASSUME Runs, UNCHANGED <<tables, lastInsertId, told>>,
             Continue("insertUser"), UNCHANGED userId
      PROVE  IInv'
  <2>1. at # "idle"
    BY DEF FindExisting
  <2>2. userId' \in Id \cup {0}
    BY <1>3 DEF IInv, TypeOK
  <2> QED BY <1>3, <2>1, <2>2, ContinueIInv
<1> QED BY <1>1, <1>2, <1>3 DEF FindExisting

(* The new user row is one that no account has.                               *)
LEMMA InsertUserIInv == ASSUME IInv, InsertUser PROVE IInv'
<1>1. CASE Throws
  BY <1>1, ThrowsIInv
<1>2. ASSUME NEW applied \in BOOLEAN, InsertRow(applied)
      PROVE  /\ nextId \in Id /\ nextId' = nextId + 1 /\ nextId' \in 1 .. MaxUserId + 1
             /\ user \subseteq user' /\ user' \subseteq user \cup {nextId}
             /\ user' \subseteq Id /\ \A id \in user' : id < nextId'
             /\ web_auth' = web_auth
             /\ \A w \in web_auth : w.userId # nextId
  <2>1. nextId \in Id /\ nextId' = nextId + 1 /\ nextId' \in 1 .. MaxUserId + 1
    BY <1>2, AccountAssumption DEF InsertRow, IInv, TypeOK, Id
  <2>2. user \subseteq user' /\ user' \subseteq user \cup {nextId} /\ web_auth' = web_auth
    BY <1>2 DEF InsertRow
  <2>3. user' \subseteq Id
    BY <2>1, <2>2 DEF IInv, TypeOK
  <2>4. \A id \in user' : id < nextId'
    <3> SUFFICES ASSUME NEW id \in user' PROVE id < nextId + 1
      BY <2>1
    <3>1. id \in Int /\ nextId \in Int
      BY <2>1, <2>3 DEF Id
    <3>2. id = nextId \/ id < nextId
      BY <2>2 DEF IInv
    <3> QED BY <3>1, <3>2
  <2>5. \A w \in web_auth : w.userId # nextId
    <3> SUFFICES ASSUME NEW w \in web_auth, w.userId = nextId PROVE FALSE
      OBVIOUS
    <3>1. nextId \in user
      BY DEF IInv, AccountsOwnUsers
    <3>2. nextId < nextId /\ nextId \in Int
      BY <2>1, <3>1 DEF IInv, Id
    <3> QED BY <3>2
  <2> QED BY <2>1, <2>2, <2>3, <2>4, <2>5
<1>3. ASSUME NEW applied \in BOOLEAN, InsertRow(applied) PROVE AccountsOwnUsers'
  BY <1>2, <1>3 DEF IInv, AccountsOwnUsers, SameEmail
<1>4. CASE /\ Runs /\ InsertRow(TRUE) /\ lastInsertId' = nextId
           /\ Continue("lastInsertId") /\ UNCHANGED <<userId, told>>
  <2>1. at' = "lastInsertId" /\ UNCHANGED <<request, answerId>> /\ at = "insertUser"
    BY <1>4 DEF Continue, InsertUser
  <2>2. connected' = connected
    BY <1>4 DEF Runs
  <2>3. nextId \in user'
    BY <1>4 DEF InsertRow
  <2>4. FreshId(lastInsertId)'
    BY <1>2, <1>4, <2>3 DEF FreshId
  <2>5. TypeOK'
    <3>1. connected' \in BOOLEAN
      BY <2>2 DEF IInv, TypeOK
    <3>2. /\ nextId \in Id /\ nextId' \in 1 .. MaxUserId + 1 /\ user' \subseteq Id
          /\ web_auth' = web_auth
      BY <1>2, <1>4
    <3>3. UNCHANGED <<userId, told>> /\ lastInsertId' = nextId
      BY <1>4
    <3> QED BY <2>1, <3>1, <3>2, <3>3 DEF IInv, TypeOK, NoRequest
  <2> QED BY <1>2, <1>3, <1>4, <2>1, <2>4, <2>5 DEF IInv
<1>5. CASE /\ \E applied \in BOOLEAN : InsertRow(applied)
           /\ connected' = FALSE
           /\ Reply("INTERNAL_SERVER_ERROR", userId)
           /\ UNCHANGED <<lastInsertId, told>>
  <2>1. at' = "idle" /\ request' = NoRequest /\ userId' = 0 /\ answerId' \in Id \cup {0}
    BY <1>5, ReplyType DEF Reply, IInv, TypeOK
  <2>2. TypeOK'
    <3>1. connected' \in BOOLEAN
      BY <1>5
    <3>2. /\ nextId' \in 1 .. MaxUserId + 1 /\ user' \subseteq Id
          /\ web_auth' = web_auth
      BY <1>2, <1>5
    <3>3. UNCHANGED <<lastInsertId, told>>
      BY <1>5
    <3> QED BY <2>1, <3>1, <3>2, <3>3 DEF IInv, TypeOK
  <2> QED BY <1>2, <1>3, <1>5, <2>1, <2>2 DEF IInv
<1> QED BY <1>1, <1>4, <1>5 DEF InsertUser

(* last_insert_id() is the row that was just inserted.                        *)
LEMMA SelectLastInsertIdIInv == ASSUME IInv, SelectLastInsertId PROVE IInv'
<1>1. CASE Throws
  BY <1>1, ThrowsIInv
<1>2. CASE /\ Runs /\ userId' = lastInsertId /\ Continue("insertWebAuth")
           /\ UNCHANGED <<tables, lastInsertId, told>>
  <2>1. at' = "insertWebAuth" /\ UNCHANGED <<request, answerId>> /\ at = "lastInsertId"
    BY <1>2 DEF Continue, SelectLastInsertId
  <2>2. connected' = connected
    BY <1>2 DEF Runs
  <2>3. FreshId(userId)'
    BY <1>2, <2>1 DEF IInv, FreshId, tables
  <2> QED BY <1>2, <2>1, <2>2, <2>3
          DEF IInv, TypeOK, AccountsOwnUsers, SameEmail, tables
<1> QED BY <1>1, <1>2 DEF SelectLastInsertId

(* The new account takes the fresh user row; its email was free.              *)
LEMMA InsertWebAuthIInv == ASSUME IInv, InsertWebAuth PROVE IInv'
<1>1. CASE Throws
  BY <1>1, ThrowsIInv
<1>2. ASSUME InsertWebAuthRow
      PROVE  /\ AccountsOwnUsers'
             /\ web_auth' \subseteq {Row(e, p, id) : e \in Email, p \in Password, id \in Id}
             /\ UNCHANGED <<user, nextId>>
  <2> DEFINE new == Row(request.email, request.password, userId)
  <2>1. at = "insertWebAuth"
    BY DEF InsertWebAuth
  <2>2. request.email \in Email /\ request.password \in Password
    BY <2>1, RequestType DEF IInv, Request
  <2>3. FreshId(userId) /\ userId \in Id
    BY <2>1 DEF IInv, FreshId, TypeOK
  <2>4. /\ new \in {Row(e, p, id) : e \in Email, p \in Password, id \in Id}
        /\ new.userId = userId /\ new.email = request.email
    BY <2>2, <2>3, RowType
  <2>5. web_auth' = web_auth \cup {new} /\ Rows(request.email) = {} /\ UNCHANGED <<user, nextId>>
    BY <1>2 DEF InsertWebAuthRow
  <2> HIDE DEF new
  <2>6. \A w \in web_auth : ~SameEmail(w.email, new.email) /\ ~SameEmail(new.email, w.email)
    BY <2>4, <2>5 DEF Rows, SameEmail
  <2>7. \A w \in web_auth : w.userId # new.userId
    BY <2>3, <2>4 DEF FreshId
  <2>8. \A w \in web_auth' : w.userId \in user'
    BY <2>3, <2>4, <2>5 DEF FreshId, IInv, AccountsOwnUsers
  <2>9. \A v, w \in web_auth' : v # w => v.userId # w.userId /\ ~SameEmail(v.email, w.email)
    BY <2>5, <2>6, <2>7 DEF IInv, AccountsOwnUsers
  <2>10. AccountsOwnUsers'
    BY <2>8, <2>9 DEF AccountsOwnUsers, SameEmail
  <2> QED BY <2>4, <2>5, <2>10 DEF IInv, TypeOK
<1>3. ASSUME InsertWebAuthRow, NEW result, Reply(result, userId), connected' \in BOOLEAN,
             UNCHANGED lastInsertId, told' \subseteq Email \X Password
      PROVE  IInv'
  <2>1. at' = "idle" /\ request' = NoRequest /\ userId' = 0 /\ answerId' \in Id \cup {0}
    BY <1>3, ReplyType DEF Reply, IInv, TypeOK
  <2> QED BY <1>2, <1>3, <2>1 DEF IInv, TypeOK
<1>4. CASE /\ Runs /\ InsertWebAuthRow
           /\ told' = told \cup {<<request.email, request.password>>}
           /\ Reply("SUCCESS", userId) /\ UNCHANGED lastInsertId
  <2>1. connected' \in BOOLEAN
    BY <1>4 DEF Runs, IInv, TypeOK
  <2>2. request \in Request
    BY RequestType DEF IInv, InsertWebAuth
  <2>3. told' \subseteq Email \X Password
    BY <1>4, <2>2 DEF Request, IInv, TypeOK
  <2> QED BY <1>3, <1>4, <2>1, <2>3
<1>5. CASE /\ InsertWebAuthRow /\ connected' = FALSE
           /\ Reply("INTERNAL_SERVER_ERROR", userId) /\ UNCHANGED <<lastInsertId, told>>
  <2>1. connected' \in BOOLEAN
    BY <1>5
  <2>2. told' \subseteq Email \X Password
    BY <1>5 DEF IInv, TypeOK
  <2> QED BY <1>3, <1>5, <2>1, <2>2
<1> QED BY <1>1, <1>4, <1>5 DEF InsertWebAuth

(* A restart keeps the tables and forgets the rest.                           *)
LEMMA RestartIInv == ASSUME IInv, Restart PROVE IInv'
<1>1. connected' \in BOOLEAN
  BY DEF Restart
<1> QED BY <1>1 DEF Restart, IInv, TypeOK, AccountsOwnUsers, SameEmail, tables

(* Every step preserves the invariant.                                        *)
LEMMA StepIInv == IInv /\ [Next]_vars => IInv'
<1> SUFFICES ASSUME IInv, [Next]_vars PROVE IInv'
  OBVIOUS
<1>1. CASE UNCHANGED vars
  BY <1>1 DEF IInv, TypeOK, AccountsOwnUsers, SameEmail, FreshId, vars, tables
<1>2. CASE Next
  BY <1>2, ReceiveIInv, FindAccountIInv, ReadCreationDateIInv, UpdateLastLoginIInv,
     FindExistingIInv, InsertUserIInv, SelectLastInsertIdIInv, InsertWebAuthIInv,
     RestartIInv DEF Next
<1> QED BY <1>1, <1>2

(* The state of the service always has its type.                              *)
THEOREM ServiceTypeCorrect == Spec => []TypeOK
<1>1. IInv => TypeOK
  BY DEF IInv
<1> QED BY <1>1, InitIInv, StepIInv, PTL DEF Spec

(* Every account owns a user row of its own, whatever failed on the way.       *)
THEOREM AccountsAlwaysOwnUsers == Spec => []AccountsOwnUsers
<1>1. IInv => AccountsOwnUsers
  BY DEF IInv
<1> QED BY <1>1, InitIInv, StepIInv, PTL DEF Spec

-----------------------------------------------------------------------------
(* Answers, and the implementation of module Accounts.                      *)

\* A login that is past its check carries the id of the account, whose password
\* the one in the request is.
Verified ==
    at \in {"creationDate", "lastLogin"} =>
        \E w \in Rows(request.email) :
            w.userId = userId /\ VerifyHash(w, request.password)

\* The statements of AuthenticateAccount serve logins, the others registrations
\* with a password that is long enough.
KindFits ==
    /\ at \in {"findAccount", "creationDate", "lastLogin"} => request.kind = "login"
    /\ at \in {"findExisting", "insertUser", "lastInsertId", "insertWebAuth"} =>
          request.kind = "register" /\ request.password \notin ShortPassword

\* What was confirmed is in the table.
Kept == \A t \in told : \E w \in web_auth : SameEmail(w.email, t[1]) /\ VerifyHash(w, t[2])

JInv == IInv /\ Verified /\ KindFits /\ SuccessNamesUser /\ Kept /\ NeverForgotten

\* The tables only grow.
Grows == web_auth \subseteq web_auth' /\ user \subseteq user'

-----------------------------------------------------------------------------
(* What a step can do to the answers.                                       *)

(* Between two statements nothing is answered.                                *)
LEMMA QuietJInv ==
    ASSUME JInv, IInv', Grows, UNCHANGED <<told, answer, answerId>>, Verified', KindFits'
    PROVE  JInv'
<1>1. SuccessNamesUser'
  BY DEF JInv, SuccessNamesUser, Grows, Rows, SameEmail
<1>2. Kept'
  BY DEF JInv, Kept, Grows, SameEmail, VerifyHash, HashPassword
<1>3. NeverForgotten'
  BY DEF JInv, NeverForgotten, SameEmail
<1> QED BY <1>1, <1>2, <1>3 DEF JInv

(* An answer that is neither a success nor a refusal of credentials.          *)
LEMMA OtherAnswerJInv ==
    ASSUME JInv, IInv', Grows, UNCHANGED told, NEW r, NEW id, NEW result,
           result \notin {"SUCCESS", "INVALID_CREDENTIALS"}, ReplyTo(r, result, id)
    PROVE  JInv'
<1>1. at' = "idle" /\ answer'.result = result
  BY DEF ReplyTo
<1>2. Verified' /\ KindFits'
  BY <1>1 DEF Verified, KindFits
<1>3. SuccessNamesUser' /\ NeverForgotten'
  BY <1>1 DEF SuccessNamesUser, NeverForgotten
<1>4. Kept'
  BY DEF JInv, Kept, Grows, SameEmail, VerifyHash, HashPassword
<1> QED BY <1>2, <1>3, <1>4 DEF JInv

(* A refusal of credentials that no confirmed account has.                    *)
LEMMA RefusalJInv ==
    ASSUME JInv, IInv', Grows, UNCHANGED told, NEW r, NEW id,
           ReplyTo(r, "INVALID_CREDENTIALS", id),
           \A t \in told : ~(SameEmail(t[1], r.email) /\ t[2] = r.password)
    PROVE  JInv'
<1>1. /\ at' = "idle" /\ answer'.result = "INVALID_CREDENTIALS"
      /\ answer'.email = r.email /\ answer'.password = r.password
  BY DEF ReplyTo
<1>2. Verified' /\ KindFits'
  BY <1>1 DEF Verified, KindFits
<1>3. SuccessNamesUser' /\ NeverForgotten'
  BY <1>1 DEF SuccessNamesUser, NeverForgotten, SameEmail
<1>4. Kept'
  BY DEF JInv, Kept, Grows, SameEmail, VerifyHash, HashPassword
<1> QED BY <1>2, <1>3, <1>4 DEF JInv

(* A success that names the user of a row with the email.                     *)
LEMMA SuccessJInv ==
    ASSUME JInv, IInv', Kept', NEW r, NEW id, ReplyTo(r, "SUCCESS", id),
           \E w \in web_auth' : SameEmail(w.email, r.email) /\ w.userId = id /\ id \in user'
    PROVE  JInv'
<1>1. at' = "idle" /\ answer'.result = "SUCCESS" /\ answer'.email = r.email /\ answerId' = id
  BY DEF ReplyTo
<1>2. Verified' /\ KindFits'
  BY <1>1 DEF Verified, KindFits
<1>3. SuccessNamesUser' /\ NeverForgotten'
  BY <1>1 DEF SuccessNamesUser, NeverForgotten, Rows, SameEmail
<1> QED BY <1>2, <1>3 DEF JInv

(* A statement that throws without effect.                                    *)
LEMMA ThrowsJInv == ASSUME JInv, IInv', Throws PROVE JInv'
<1>1. Grows /\ UNCHANGED told
  BY DEF Throws, tables, Grows
<1>2. ReplyTo(request, "INTERNAL_SERVER_ERROR", userId)
  BY DEF Throws, Reply
<1>3. "INTERNAL_SERVER_ERROR" \notin {"SUCCESS", "INVALID_CREDENTIALS"}
  OBVIOUS
<1> QED BY <1>1, <1>2, <1>3, OtherAnswerJInv

(* Nothing was answered yet.                                                  *)
LEMMA InitJInv == Init => JInv
BY InitIInv DEF Init, JInv, Verified, KindFits, SuccessNamesUser, Kept, NeverForgotten

-----------------------------------------------------------------------------
(* The steps.                                                               *)

(* A new request starts at the first statement of its handler.                *)
LEMMA ReceiveJInv == ASSUME JInv, IInv', Receive PROVE JInv'
<1>1. PICK r \in Request :
         /\ IF r.kind = "register" /\ r.password \in ShortPassword
            THEN ReplyTo(r, "INVALID_PASSWORD", 0)
            ELSE /\ request' = r
                 /\ at' = IF r.kind = "login" THEN "findAccount" ELSE "findExisting"
                 /\ UNCHANGED <<userId, answer, answerId>>
         /\ UNCHANGED <<tables, connected, lastInsertId, told>>
  BY DEF Receive
<1>2. Grows /\ UNCHANGED told
  BY <1>1 DEF tables, Grows
<1>3. CASE ReplyTo(r, "INVALID_PASSWORD", 0)
  <2>1. "INVALID_PASSWORD" \notin {"SUCCESS", "INVALID_CREDENTIALS"}
    OBVIOUS
  <2> QED BY <1>2, <1>3, <2>1, OtherAnswerJInv
<1>4. CASE /\ ~(r.kind = "register" /\ r.password \in ShortPassword)
           /\ request' = r
           /\ at' = IF r.kind = "login" THEN "findAccount" ELSE "findExisting"
           /\ UNCHANGED <<userId, answer, answerId>>
  <2>1. r.kind \in {"login", "register"}
    BY DEF Request
  <2>2. Verified' /\ KindFits'
    BY <1>4, <2>1 DEF Verified, KindFits
  <2> QED BY <1>2, <1>4, <2>2, QuietJInv
<1> QED BY <1>1, <1>3, <1>4

(* The row that is found is the one row of the email, so that a confirmed     *)
(* password passes the check.                                                *)
LEMMA FindAccountJInv == ASSUME JInv, IInv', FindAccount PROVE JInv'
<1>1. CASE Throws
  BY <1>1, ThrowsJInv
<1>2. CASE /\ Rows(request.email) = {} /\ Reply("INVALID_CREDENTIALS", 0)
           /\ UNCHANGED <<tables, lastInsertId, told>>
  <2>1. \A t \in told : ~(SameEmail(t[1], request.email) /\ t[2] = request.password)
    BY <1>2 DEF JInv, Kept, Rows, SameEmail
  <2>2. Grows /\ UNCHANGED told /\ ReplyTo(request, "INVALID_CREDENTIALS", 0)
    BY <1>2 DEF tables, Grows, Reply
  <2> QED BY <2>1, <2>2, RefusalJInv
<1>3. ASSUME NEW w, w = CHOOSE v \in Rows(request.email) : TRUE,
             Rows(request.email) # {}, ~VerifyHash(w, request.password),
             Reply("INVALID_CREDENTIALS", w.userId),
             UNCHANGED <<tables, lastInsertId, told>>
      PROVE  JInv'
  <2>1. w \in web_auth /\ SameEmail(w.email, request.email)
    BY <1>3 DEF Rows
  <2>2. ASSUME NEW t \in told, SameEmail(t[1], request.email), t[2] = request.password
        PROVE  FALSE
    <3>1. PICK v \in web_auth : SameEmail(v.email, t[1]) /\ VerifyHash(v, t[2])
      BY DEF JInv, Kept
    <3>2. v = w
      BY <2>1, <2>2, <3>1 DEF JInv, IInv, AccountsOwnUsers, SameEmail
    <3> QED BY <1>3, <2>2, <3>1, <3>2
  <2>3. Grows /\ UNCHANGED told /\ ReplyTo(request, "INVALID_CREDENTIALS", w.userId)
    BY <1>3 DEF tables, Grows, Reply
  <2> QED BY <2>2, <2>3, RefusalJInv
<1>4. ASSUME NEW w, w = CHOOSE v \in Rows(request.email) : TRUE,
             Rows(request.email) # {}, VerifyHash(w, request.password),
             userId' = w.userId, Continue("creationDate"),
             UNCHANGED <<tables, lastInsertId, told>>
      PROVE  JInv'
  <2>1. w \in Rows(request.email)
    BY <1>4
  <2>2. at' = "creationDate" /\ UNCHANGED <<request, answer, answerId>>
    BY <1>4 DEF Continue
  <2>3. Verified'
    BY <1>4, <2>1, <2>2 DEF Verified, Rows, SameEmail, tables, VerifyHash, HashPassword
  <2>4. KindFits'
    BY <2>2 DEF JInv, KindFits, FindAccount
  <2>5. Grows /\ UNCHANGED told
    BY <1>4 DEF tables, Grows
  <2> QED BY <2>2, <2>3, <2>4, <2>5, QuietJInv
<1> QED BY <1>1, <1>2, <1>3, <1>4 DEF FindAccount

(* The check of the login still holds after its next statement.               *)
LEMMA ReadCreationDateJInv == ASSUME JInv, IInv', ReadCreationDate PROVE JInv'
<1>1. CASE Throws
  BY <1>1, ThrowsJInv
<1>2. CASE Continue("lastLogin") /\ UNCHANGED <<tables, userId, lastInsertId, told>>
  <2>1. at' = "lastLogin" /\ UNCHANGED <<request, answer, answerId>> /\ at = "creationDate"
    BY <1>2 DEF Continue, ReadCreationDate
  <2>2. Verified'
    BY <1>2, <2>1 DEF JInv, Verified, Rows, SameEmail, tables, VerifyHash, HashPassword
  <2>3. KindFits'
    BY <2>1 DEF JInv, KindFits
  <2>4. Grows /\ UNCHANGED told
    BY <1>2 DEF tables, Grows
  <2> QED BY <2>1, <2>2, <2>3, <2>4, QuietJInv
<1> QED BY <1>1, <1>2 DEF ReadCreationDate

(* A login succeeds with the id of the row it was checked against.            *)
LEMMA UpdateLastLoginJInv == ASSUME JInv, IInv', UpdateLastLogin PROVE JInv'
<1>1. CASE Throws
  BY <1>1, ThrowsJInv
<1>2. CASE Reply("SUCCESS", userId) /\ UNCHANGED <<tables, lastInsertId, told>>
  <2>1. PICK w \in Rows(request.email) : w.userId = userId
    BY DEF UpdateLastLogin, JInv, Verified
  <2>2. userId \in user
    BY <2>1 DEF JInv, IInv, AccountsOwnUsers, Rows
  <2>3. \E v \in web_auth' :
            SameEmail(v.email, request.email) /\ v.userId = userId /\ userId \in user'
    BY <1>2, <2>1, <2>2 DEF Rows, tables
  <2>4. Kept'
    BY <1>2 DEF JInv, Kept, tables, SameEmail, VerifyHash, HashPassword
  <2>5. ReplyTo(request, "SUCCESS", userId)
    BY <1>2 DEF Reply
  <2> QED BY <2>3, <2>4, <2>5, SuccessJInv
<1> QED BY <1>1, <1>2 DEF UpdateLastLogin

(* A registration is refused, or goes on.                                     *)
LEMMA FindExistingJInv == ASSUME JInv, IInv', FindExisting PROVE JInv'
<1>1. CASE Throws
  BY <1>1, ThrowsJInv
<1>2. CASE Reply("ACCOUNT_ALREADY_EXISTS", 0) /\ UNCHANGED <<tables, lastInsertId, told>>
  <2>1. "ACCOUNT_ALREADY_EXISTS" \notin {"SUCCESS", "INVALID_CREDENTIALS"}
    OBVIOUS
  <2>2. Grows /\ UNCHANGED told /\ ReplyTo(request, "ACCOUNT_ALREADY_EXISTS", 0)
    BY <1>2 DEF tables, Grows, Reply
  <2> QED BY <2>1, <2>2, OtherAnswerJInv
<1>3. CASE Continue("insertUser") /\ UNCHANGED <<tables, lastInsertId, told>>
  <2>1. at' = "insertUser" /\ UNCHANGED <<request, answer, answerId>> /\ at = "findExisting"
    BY <1>3 DEF Continue, FindExisting
  <2>2. Verified' /\ KindFits'
    BY <2>1 DEF JInv, Verified, KindFits
  <2>3. Grows /\ UNCHANGED told
    BY <1>3 DEF tables, Grows
  <2> QED BY <2>1, <2>2, <2>3, QuietJInv
<1> QED BY <1>1, <1>2, <1>3 DEF FindExisting

(* The user row is inserted, or the connection breaks.                        *)
LEMMA InsertUserJInv == ASSUME JInv, IInv', InsertUser PROVE JInv'
<1>1. CASE Throws
  BY <1>1, ThrowsJInv
<1>2. ASSUME NEW applied \in BOOLEAN, InsertRow(applied) PROVE Grows
  BY <1>2 DEF InsertRow, Grows
<1>3. CASE /\ InsertRow(TRUE) /\ Continue("lastInsertId") /\ UNCHANGED <<userId, told>>
  <2>1. at' = "lastInsertId" /\ UNCHANGED <<request, answer, answerId>> /\ at = "insertUser"
    BY <1>3 DEF Continue, InsertUser
  <2>2. Verified' /\ KindFits'
    BY <2>1 DEF JInv, Verified, KindFits
  <2> QED BY <1>2, <1>3, <2>1, <2>2, QuietJInv
<1>4. CASE /\ \E applied \in BOOLEAN : InsertRow(applied)
           /\ Reply("INTERNAL_SERVER_ERROR", userId)
           /\ UNCHANGED <<lastInsertId, told>>
  <2>1. "INTERNAL_SERVER_ERROR" \notin {"SUCCESS", "INVALID_CREDENTIALS"}
    OBVIOUS
  <2>2. ReplyTo(request, "INTERNAL_SERVER_ERROR", userId)
    BY <1>4 DEF Reply
  <2> QED BY <1>2, <1>4, <2>1, <2>2, OtherAnswerJInv
<1> QED BY <1>1, <1>3, <1>4 DEF InsertUser

(* The id of the new row is read.                                             *)
LEMMA SelectLastInsertIdJInv == ASSUME JInv, IInv', SelectLastInsertId PROVE JInv'
<1>1. CASE Throws
  BY <1>1, ThrowsJInv
<1>2. CASE Continue("insertWebAuth") /\ UNCHANGED <<tables, lastInsertId, told>>
  <2>1. at' = "insertWebAuth" /\ UNCHANGED <<request, answer, answerId>> /\ at = "lastInsertId"
    BY <1>2 DEF Continue, SelectLastInsertId
  <2>2. Verified' /\ KindFits'
    BY <2>1 DEF JInv, Verified, KindFits
  <2>3. Grows /\ UNCHANGED told
    BY <1>2 DEF tables, Grows
  <2> QED BY <2>1, <2>2, <2>3, QuietJInv
<1> QED BY <1>1, <1>2 DEF SelectLastInsertId

(* The row that confirms a registration holds its email and its password.     *)
LEMMA NewRow ==
    ASSUME NEW e, NEW p, NEW id
    PROVE  /\ Row(e, p, id).email = e /\ Row(e, p, id).userId = id
           /\ SameEmail(Row(e, p, id).email, e) /\ VerifyHash(Row(e, p, id), p)
BY DEF Row, SameEmail, VerifyHash, HashPassword, GenerateSalt

(* The account is made and confirmed, or made without the answer.             *)
LEMMA InsertWebAuthJInv == ASSUME JInv, IInv', InsertWebAuth PROVE JInv'
<1>1. CASE Throws
  BY <1>1, ThrowsJInv
<1>. DEFINE new == Row(request.email, request.password, userId)
<1>2. /\ SameEmail(new.email, request.email) /\ VerifyHash(new, request.password)
      /\ new.userId = userId
  BY NewRow
<1>. HIDE DEF new
<1>3. ASSUME InsertWebAuthRow
      PROVE  web_auth' = web_auth \cup {new} /\ Grows
  BY <1>3 DEF InsertWebAuthRow, Grows, new
<1>4. CASE /\ InsertWebAuthRow
           /\ told' = told \cup {<<request.email, request.password>>}
           /\ Reply("SUCCESS", userId)
  <2>1. new \in web_auth'
    BY <1>3, <1>4
  <2>2. Kept'
    <3> SUFFICES ASSUME NEW t \in told'
                 PROVE  \E w \in web_auth' : SameEmail(w.email, t[1]) /\ VerifyHash(w, t[2])
      BY DEF Kept, SameEmail, VerifyHash, HashPassword
    <3>1. CASE t \in told
      <4>1. PICK w \in web_auth : SameEmail(w.email, t[1]) /\ VerifyHash(w, t[2])
        BY <3>1 DEF JInv, Kept
      <4> QED BY <1>3, <1>4, <4>1
    <3>2. CASE t = <<request.email, request.password>>
      BY <1>2, <2>1, <3>2
    <3> QED BY <1>4, <3>1, <3>2
  <2>3. userId \in user'
    BY <1>4 DEF InsertWebAuth, JInv, IInv, FreshId, InsertWebAuthRow
  <2>4. ReplyTo(request, "SUCCESS", userId)
    BY <1>4 DEF Reply
  <2> QED BY <1>2, <2>1, <2>2, <2>3, <2>4, SuccessJInv
<1>5. CASE /\ InsertWebAuthRow
           /\ Reply("INTERNAL_SERVER_ERROR", userId) /\ UNCHANGED <<lastInsertId, told>>
  <2>1. "INTERNAL_SERVER_ERROR" \notin {"SUCCESS", "INVALID_CREDENTIALS"}
    OBVIOUS
  <2>2. ReplyTo(request, "INTERNAL_SERVER_ERROR", userId)
    BY <1>5 DEF Reply
  <2> QED BY <1>3, <1>5, <2>1, <2>2, OtherAnswerJInv
<1> QED BY <1>1, <1>4, <1>5 DEF InsertWebAuth

(* Every step preserves the invariant.                                        *)
LEMMA StepJInv == JInv /\ [Next]_vars => JInv'
<1> SUFFICES ASSUME JInv, [Next]_vars PROVE JInv'
  OBVIOUS
<1>1. IInv'
  BY StepIInv DEF JInv
<1>2. CASE UNCHANGED vars
  <2>1. Grows /\ UNCHANGED <<told, answer, answerId, at, request, userId, web_auth>>
    BY <1>2 DEF vars, tables, Grows
  <2>2. Verified' /\ KindFits'
    BY <2>1 DEF JInv, Verified, KindFits, Rows, SameEmail, VerifyHash, HashPassword
  <2> QED BY <1>1, <2>1, <2>2, QuietJInv
<1>3. CASE Restart
  <2>1. Grows /\ UNCHANGED <<told, answer, answerId>> /\ at' = "idle"
    BY <1>3 DEF Restart, tables, Grows
  <2>2. Verified' /\ KindFits'
    BY <2>1 DEF Verified, KindFits
  <2> QED BY <1>1, <2>1, <2>2, QuietJInv
<1>4. CASE Next /\ ~Restart
  BY <1>1, <1>4, ReceiveJInv, FindAccountJInv, ReadCreationDateJInv, UpdateLastLoginJInv,
     FindExistingJInv, InsertUserJInv, SelectLastInsertIdJInv, InsertWebAuthJInv DEF Next
<1> QED BY <1>2, <1>3, <1>4

(* The user id in an answer SUCCESS is the one of an account with the email,   *)
(* although the handlers leave userId unset on other paths                   *)
(* (DBUtils.cpp:22-131).                                                     *)
THEOREM SuccessAlwaysNamesUser == Spec => []SuccessNamesUser
<1>1. JInv => SuccessNamesUser
  BY DEF JInv
<1> QED BY <1>1, InitJInv, StepJInv, PTL DEF Spec

(* Credentials whose registration was confirmed are never called invalid,     *)
(* whatever statements fail and whenever the server is restarted.            *)
THEOREM AccountsNeverForgotten == Spec => []NeverForgotten
<1>1. JInv => NeverForgotten
  BY DEF JInv
<1> QED BY <1>1, InitJInv, StepJInv, PTL DEF Spec

-----------------------------------------------------------------------------
(* The service implements the abstract accounts.                            *)

Hashed(w) == w.hashed_password[2]

(* A password passes the check of a row exactly if it is the row's.           *)
LEMMA VerifyIsEquality ==
    ASSUME IInv, NEW w \in web_auth, NEW p
    PROVE  VerifyHash(w, p) <=> Hashed(w) = p
<1>1. PICK e \in Email, q \in Password, id \in Id : w = Row(e, q, id)
  BY DEF IInv, TypeOK
<1>2. w.salt = e /\ w.hashed_password = <<e, q>>
  BY <1>1 DEF Row, GenerateSalt, HashPassword
<1> QED BY <1>2 DEF VerifyHash, HashPassword, Hashed

(* The mapped accounts: one per email that has a row, with its password.      *)
LEMMA AccountsAreRows ==
    ASSUME IInv
    PROVE  /\ DOMAIN accounts = {Collate[w.email] : w \in web_auth}
           /\ \A w \in web_auth : accounts[Collate[w.email]] = Hashed(w)
<1>1. ASSUME NEW w \in web_auth
      PROVE  (CHOOSE v \in web_auth : Collate[v.email] = Collate[w.email]) = w
  BY DEF IInv, AccountsOwnUsers, SameEmail
<1> QED BY <1>1 DEF accounts, Hashed

(* While web_auth and the answer stay, the accounts do.                       *)
LEMMA StutterStep ==
    ASSUME UNCHANGED <<web_auth, answer>>
    PROVE  UNCHANGED AccountsSpec!avars
BY DEF AccountsSpec!avars, accounts

(* An internal error without effect.                                          *)
LEMMA FailStep ==
    ASSUME NEW r \in Request, NEW id, UNCHANGED web_auth,
           r.kind = "register" => r.password \notin ShortPassword,
           ReplyTo(r, "INTERNAL_SERVER_ERROR", id)
    PROVE  AccountsSpec!Next
<1>1. r.kind \in {"login", "register"} /\ r.email \in Email /\ r.password \in Password
  BY DEF Request
<1>2. UNCHANGED accounts
  BY DEF accounts
<1>3. AccountsSpec!Fail(r.kind, r.email, r.password)
  BY <1>2 DEF AccountsSpec!Fail, AccountsSpec!Answer, ReplyTo
<1> QED BY <1>1, <1>3 DEF AccountsSpec!Next

(* A statement that throws without effect.                                    *)
LEMMA ThrowsStep ==
    ASSUME JInv, at # "idle", Throws
    PROVE  AccountsSpec!Next
<1>1. request \in Request
  BY RequestType DEF JInv, IInv
<1>2. UNCHANGED web_auth /\ ReplyTo(request, "INTERNAL_SERVER_ERROR", userId)
  BY DEF Throws, Reply, tables
<1>3. request.kind = "register" => request.password \notin ShortPassword
  BY DEF JInv, IInv, TypeOK, KindFits
<1> QED BY <1>1, <1>2, <1>3, FailStep

(* The new row is a new account.                                              *)
LEMMA InsertStep ==
    ASSUME IInv, IInv', at = "insertWebAuth", InsertWebAuthRow
    PROVE  /\ Collate[request.email] \notin DOMAIN accounts
           /\ accounts' = AccountsSpec!With(Collate[request.email], request.password)
<1>. DEFINE new == Row(request.email, request.password, userId)
            k == Collate[request.email]
            A == accounts
            B == accounts'
<1>1. new.email = request.email /\ Hashed(new) = request.password
  BY DEF Row, HashPassword, Hashed
<1>. HIDE DEF new
<1>2. web_auth' = web_auth \cup {new} /\ Rows(request.email) = {}
  BY DEF InsertWebAuthRow, new
<1>3. /\ DOMAIN A = {Collate[w.email] : w \in web_auth}
      /\ \A w \in web_auth : A[Collate[w.email]] = Hashed(w)
  BY AccountsAreRows
<1>4. /\ DOMAIN B = {Collate[w.email] : w \in web_auth'}
      /\ \A w \in web_auth' : B[Collate[w.email]] = Hashed(w)
  <2>1. (/\ DOMAIN accounts = {Collate[w.email] : w \in web_auth}
         /\ \A w \in web_auth : accounts[Collate[w.email]] = Hashed(w))'
    BY AccountsAreRows, PTL
  <2> QED BY <2>1 DEF Hashed
<1>5. k \notin DOMAIN A
  BY <1>2, <1>3 DEF Rows, SameEmail
<1>6. DOMAIN B = DOMAIN A \cup {k}
  BY <1>1, <1>2, <1>3, <1>4
<1>7. B[k] = request.password
  BY <1>1, <1>2, <1>4
<1>8. \A j \in DOMAIN A : B[j] = A[j]
  BY <1>2, <1>3, <1>4
<1>9. B = [j \in DOMAIN B |-> B[j]]
  BY DEF accounts
<1>. HIDE DEF A, B
<1>10. B = [j \in DOMAIN A \cup {k} |-> IF j = k THEN request.password ELSE A[j]]
  BY <1>5, <1>6, <1>7, <1>8, <1>9
<1> QED BY <1>5, <1>10 DEF AccountsSpec!With, A, B

(* Receiving a request is a refusal, or nothing that can be seen.             *)
LEMMA ReceiveStep ==
    ASSUME Receive
    PROVE  AccountsSpec!Next \/ UNCHANGED AccountsSpec!avars
<1>1. PICK r \in Request :
         /\ IF r.kind = "register" /\ r.password \in ShortPassword
            THEN ReplyTo(r, "INVALID_PASSWORD", 0)
            ELSE UNCHANGED answer
         /\ UNCHANGED web_auth
  BY DEF Receive, tables
<1>2. CASE r.kind = "register" /\ r.password \in ShortPassword
  <2>1. UNCHANGED accounts
    BY <1>1 DEF accounts
  <2>2. AccountsSpec!Refuse(r.email, r.password)
    BY <1>1, <1>2, <2>1 DEF AccountsSpec!Refuse, AccountsSpec!Answer, ReplyTo
  <2> QED BY <2>2 DEF Request, AccountsSpec!Next
<1>3. CASE ~(r.kind = "register" /\ r.password \in ShortPassword)
  BY <1>1, <1>3, StutterStep
<1> QED BY <1>2, <1>3

(* Credentials are refused when no account has them.                          *)
LEMMA FindAccountStep ==
    ASSUME JInv, FindAccount
    PROVE  AccountsSpec!Next \/ UNCHANGED AccountsSpec!avars
<1>. DEFINE e == request.email
            p == request.password
<1>1. IInv /\ at # "idle" /\ request \in Request /\ request.kind = "login"
  BY RequestType DEF JInv, IInv, FindAccount, KindFits
<1>2. CASE Throws
  BY <1>1, <1>2, ThrowsStep
<1>3. ASSUME NEW id, Reply("INVALID_CREDENTIALS", id), UNCHANGED web_auth,
             ~(Collate[e] \in DOMAIN accounts /\ accounts[Collate[e]] = p)
      PROVE  AccountsSpec!Next
  <2>1. UNCHANGED accounts
    BY <1>3 DEF accounts
  <2>2. AccountsSpec!Login(e, p)
    BY <1>1, <1>3, <2>1 DEF AccountsSpec!Login, AccountsSpec!Answer, Reply, ReplyTo
  <2> QED BY <1>1, <2>2 DEF Request, AccountsSpec!Next
<1>4. CASE Rows(e) = {} /\ Reply("INVALID_CREDENTIALS", 0) /\ UNCHANGED tables
  <2>1. Collate[e] \notin DOMAIN accounts
    BY <1>1, <1>4, AccountsAreRows DEF Rows, SameEmail
  <2> QED BY <1>3, <1>4, <2>1 DEF tables
<1>5. ASSUME NEW w, w = CHOOSE v \in Rows(e) : TRUE, Rows(e) # {}, ~VerifyHash(w, p),
             Reply("INVALID_CREDENTIALS", w.userId), UNCHANGED tables
      PROVE  AccountsSpec!Next
  <2>1. w \in web_auth /\ Collate[w.email] = Collate[e]
    BY <1>5 DEF Rows, SameEmail
  <2>2. Hashed(w) # p
    BY <1>1, <1>5, <2>1, VerifyIsEquality
  <2>3. accounts[Collate[e]] = Hashed(w)
    BY <1>1, <2>1, AccountsAreRows
  <2> QED BY <1>3, <1>5, <2>2, <2>3 DEF tables
<1>6. CASE Continue("creationDate") /\ UNCHANGED tables
  BY <1>6, StutterStep DEF Continue, tables
<1> QED BY <1>2, <1>4, <1>5, <1>6 DEF FindAccount

(* A statement that changes neither accounts nor answer.                      *)
LEMMA ContinueStep ==
    ASSUME NEW next, Continue(next), UNCHANGED web_auth
    PROVE  UNCHANGED AccountsSpec!avars
BY StutterStep DEF Continue

(* A login succeeds when the account has the password.                        *)
LEMMA UpdateLastLoginStep ==
    ASSUME JInv, UpdateLastLogin
    PROVE  AccountsSpec!Next
<1>. DEFINE e == request.email
            p == request.password
<1>1. IInv /\ at # "idle" /\ request \in Request /\ request.kind = "login"
  BY RequestType DEF JInv, IInv, UpdateLastLogin, KindFits
<1>2. CASE Throws
  BY <1>1, <1>2, ThrowsStep
<1>3. CASE Reply("SUCCESS", userId) /\ UNCHANGED tables
  <2>1. PICK w \in Rows(e) : VerifyHash(w, p)
    BY DEF UpdateLastLogin, JInv, Verified
  <2>2. w \in web_auth /\ Collate[w.email] = Collate[e]
    BY <2>1 DEF Rows, SameEmail
  <2>3. Collate[e] \in DOMAIN accounts /\ accounts[Collate[e]] = p
    BY <1>1, <2>1, <2>2, AccountsAreRows, VerifyIsEquality
  <2>4. UNCHANGED accounts
    BY <1>3 DEF accounts, tables
  <2>5. AccountsSpec!Login(e, p)
    BY <1>1, <1>3, <2>3, <2>4 DEF AccountsSpec!Login, AccountsSpec!Answer, Reply, ReplyTo
  <2> QED BY <1>1, <2>5 DEF Request, AccountsSpec!Next
<1> QED BY <1>2, <1>3 DEF UpdateLastLogin

(* A registration is refused when there is an account with the email.         *)
LEMMA FindExistingStep ==
    ASSUME JInv, FindExisting
    PROVE  AccountsSpec!Next \/ UNCHANGED AccountsSpec!avars
<1>1. /\ IInv /\ at # "idle" /\ request \in Request
      /\ request.kind = "register" /\ request.password \notin ShortPassword
  BY RequestType DEF JInv, IInv, FindExisting, KindFits
<1>2. CASE Throws
  BY <1>1, <1>2, ThrowsStep
<1>3. CASE /\ Rows(request.email) # {} /\ Reply("ACCOUNT_ALREADY_EXISTS", 0)
           /\ UNCHANGED tables
  <2>1. Collate[request.email] \in DOMAIN accounts
    BY <1>1, <1>3, AccountsAreRows DEF Rows, SameEmail
  <2>2. UNCHANGED accounts
    BY <1>3 DEF accounts, tables
  <2>3. AccountsSpec!Refuse(request.email, request.password)
    BY <1>1, <1>3, <2>1, <2>2 DEF AccountsSpec!Refuse, AccountsSpec!Answer, Reply, ReplyTo
  <2> QED BY <1>1, <2>3 DEF Request, AccountsSpec!Next
<1>4. CASE Continue("insertUser") /\ UNCHANGED tables
  BY <1>4, ContinueStep DEF tables
<1> QED BY <1>2, <1>3, <1>4 DEF FindExisting

(* The user row is not part of an account.                                    *)
LEMMA InsertUserStep ==
    ASSUME JInv, InsertUser
    PROVE  AccountsSpec!Next \/ UNCHANGED AccountsSpec!avars
<1>1. /\ IInv /\ at # "idle" /\ request \in Request
      /\ request.kind = "register" /\ request.password \notin ShortPassword
  BY RequestType DEF JInv, IInv, InsertUser, KindFits
<1>2. CASE Throws
  BY <1>1, <1>2, ThrowsStep
<1>3. CASE InsertRow(TRUE) /\ Continue("lastInsertId")
  BY <1>3, ContinueStep DEF InsertRow
<1>4. CASE (\E applied \in BOOLEAN : InsertRow(applied)) /\ Reply("INTERNAL_SERVER_ERROR", userId)
  BY <1>1, <1>4, FailStep DEF InsertRow, Reply
<1> QED BY <1>2, <1>3, <1>4 DEF InsertUser

(* The second insert creates the account.                                     *)
LEMMA InsertWebAuthStep ==
    ASSUME JInv, IInv', InsertWebAuth
    PROVE  AccountsSpec!Next
<1>. DEFINE e == request.email
            p == request.password
<1>1. /\ IInv /\ at = "insertWebAuth" /\ request \in Request
      /\ request.kind = "register" /\ request.password \notin ShortPassword
  BY RequestType DEF JInv, IInv, InsertWebAuth, KindFits
<1>2. CASE Throws
  BY <1>1, <1>2, ThrowsStep
<1>3. e \in Email /\ p \in Password
  BY <1>1 DEF Request
<1>4. ASSUME InsertWebAuthRow PROVE AccountsSpec!Add(e, p)
  BY <1>1, <1>4, InsertStep DEF AccountsSpec!Add
<1>5. CASE InsertWebAuthRow /\ Reply("SUCCESS", userId)
  <2>1. AccountsSpec!Register(e, p)
    BY <1>1, <1>4, <1>5 DEF AccountsSpec!Register, AccountsSpec!Answer, Reply, ReplyTo
  <2> QED BY <1>3, <2>1 DEF AccountsSpec!Next
<1>6. CASE InsertWebAuthRow /\ Reply("INTERNAL_SERVER_ERROR", userId)
  <2>1. AccountsSpec!Fail("register", e, p)
    BY <1>1, <1>4, <1>6 DEF AccountsSpec!Fail, AccountsSpec!Answer, Reply, ReplyTo
  <2> QED BY <1>3, <2>1 DEF AccountsSpec!Next
<1> QED BY <1>2, <1>5, <1>6 DEF InsertWebAuth

(* Every step of the service is one of the accounts, or a stutter.            *)
LEMMA StepImplements ==
    JInv /\ IInv' /\ [Next]_vars => [AccountsSpec!Next]_(AccountsSpec!avars)
<1> SUFFICES ASSUME JInv, IInv', [Next]_vars
             PROVE  AccountsSpec!Next \/ UNCHANGED AccountsSpec!avars
  OBVIOUS
<1>1. CASE UNCHANGED vars
  BY <1>1, StutterStep DEF vars, tables
<1>2. CASE Restart
  BY <1>2, StutterStep DEF Restart, tables
<1>3. CASE ReadCreationDate
  <2>1. at # "idle"
    BY <1>3 DEF ReadCreationDate
  <2>2. CASE Throws
    BY <2>1, <2>2, ThrowsStep
  <2>3. CASE Continue("lastLogin") /\ UNCHANGED tables
    BY <2>3, ContinueStep DEF tables
  <2> QED BY <1>3, <2>2, <2>3 DEF ReadCreationDate
<1>4. CASE SelectLastInsertId
  <2>1. at # "idle"
    BY <1>4 DEF SelectLastInsertId
  <2>2. CASE Throws
    BY <2>1, <2>2, ThrowsStep
  <2>3. CASE Continue("insertWebAuth") /\ UNCHANGED tables
    BY <2>3, ContinueStep DEF tables
  <2> QED BY <1>4, <2>2, <2>3 DEF SelectLastInsertId
<1>5. CASE Receive
  BY <1>5, ReceiveStep
<1>6. CASE FindAccount
  BY <1>6, FindAccountStep
<1>7. CASE UpdateLastLogin
  BY <1>7, UpdateLastLoginStep
<1>8. CASE FindExisting
  BY <1>8, FindExistingStep
<1>9. CASE InsertUser
  BY <1>9, InsertUserStep
<1>10. CASE InsertWebAuth
  BY <1>10, InsertWebAuthStep
<1> QED BY <1>1, <1>2, <1>3, <1>4, <1>5, <1>6, <1>7, <1>8, <1>9, <1>10 DEF Next

(* The empty tables are no accounts.                                          *)
LEMMA InitImplements == Init => AccountsSpec!Init
<1> SUFFICES ASSUME Init PROVE AccountsSpec!Init
  OBVIOUS
<1>1. DOMAIN accounts = {}
  BY DEF Init, accounts
<1>2. accounts = [k \in DOMAIN accounts |-> accounts[k]]
  BY DEF accounts
<1> HIDE DEF accounts
<1>3. accounts = [k \in {} |-> 0]
  BY <1>1, <1>2
<1> QED BY <1>3 DEF Init, AccountsSpec!Init, AccountsSpec!NoAnswer, NoRequest

(* The service, one SQL statement a step, with failures after each and        *)
(* restarts, implements accounts that are created and answered in one step   *)
(* (DBUtils.cpp:22-131).                                                     *)
THEOREM ServiceImplementsAccounts == Spec => ImplementsAccounts
<1>1. JInv => IInv
  BY DEF JInv
<1> QED
  BY <1>1, InitJInv, StepJInv, InitImplements, StepImplements, PTL
     DEF Spec, ImplementsAccounts, AccountsSpec!Spec
=============================================================================
