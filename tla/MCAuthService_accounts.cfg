\* Three spellings of two emails, a short and two good passwords, user ids for
\* three inserts: a registration can fail after each of its statements.
SPECIFICATION Spec
CONSTANTS
    bob = bob
    Bob = Bob
    carol = carol
    keyB = keyB
    keyC = keyC
    Email <- Emails
    PlainEmail <- Emails
    Key = {keyB, keyC}
    Collate <- Collation
    Password = {p1, p2, short}
    ShortPassword = {short}
    MaxUserId = 3
INVARIANTS TypeOK AccountsOwnUsers SuccessNamesUser NeverForgotten
PROPERTY ImplementsAccounts
