------------------------------ MODULE Accounts ------------------------------
(***************************************************************************)
(* What the authentication service promises: accounts that are created once  *)
(* and never changed, and answers that agree with them.  An internal error   *)
(* promises nothing: a registration so answered may have taken place.        *)
(* An email is data here, never a part of the query it is looked up with.    *)
(***************************************************************************)
CONSTANTS
    Email, Password,
    Key, Collate,      \* two emails with one key are the same
    ShortPassword      \* passwords no account may have

VARIABLES
    accounts,  \* the password of each registered key
    answer     \* the last answer given

avars == <<accounts, answer>>

Answer(kind, e, p, result) ==
    answer' = [kind |-> kind, email |-> e, password |-> p, result |-> result]

NoAnswer == [kind |-> "none"]

With(k, p) == [j \in DOMAIN accounts \cup {k} |-> IF j = k THEN p ELSE accounts[j]]

Init == accounts = [k \in {} |-> 0] /\ answer = NoAnswer

Login(e, p) ==
    /\ IF Collate[e] \in DOMAIN accounts /\ accounts[Collate[e]] = p
       THEN Answer("login", e, p, "SUCCESS")
       ELSE Answer("login", e, p, "INVALID_CREDENTIALS")
    /\ UNCHANGED accounts

Add(e, p) ==
    /\ Collate[e] \notin DOMAIN accounts /\ p \notin ShortPassword
    /\ accounts' = With(Collate[e], p)

Register(e, p) ==
    /\ Add(e, p)
    /\ Answer("register", e, p, "SUCCESS")

Refuse(e, p) ==
    /\ \/ /\ p \in ShortPassword
          /\ Answer("register", e, p, "INVALID_PASSWORD")
       \/ /\ Collate[e] \in DOMAIN accounts /\ p \notin ShortPassword
          /\ Answer("register", e, p, "ACCOUNT_ALREADY_EXISTS")
    /\ UNCHANGED accounts

\* An internal error, of a registration before or after it took place.
Fail(kind, e, p) ==
    /\ kind = "register" => p \notin ShortPassword
    /\ Answer(kind, e, p, "INTERNAL_SERVER_ERROR")
    /\ \/ UNCHANGED accounts
       \/ kind = "register" /\ Add(e, p)

Next == \E e \in Email, p \in Password :
    Login(e, p) \/ Register(e, p) \/ Refuse(e, p)
    \/ \E kind \in {"login", "register"} : Fail(kind, e, p)

Spec == Init /\ [][Next]_avars
=============================================================================
