\* A client, the chat server, the authentication server and a program that
\* uses it too; the database connection may be lost, the server killed.
SPECIFICATION SpecWhole
CONSTANTS
    alice = alice
    p1 = p1
    p2 = p2
    short = short
    key = key
    Client = {c1}
    RoomName = {}
    NoRoom = none
    Name = {alice}
    Message = {}
    StreamCap = 1
    SendCap = 1
    FdSetSize = 64
    AuthCap = 2
    Peer = {x}
    Email = {alice}
    PlainEmail = {alice}
    Password = {p1, p2, short}
    ShortPassword = {short}
    Key = {key}
    Collate <- Identity
    PeerAsks <- Registrations
    May = {"register", "authDown"}
INVARIANTS TypeOKWhole AuthenticatedOwnsAccount LinksKept
PROPERTIES ImplementsChatSystem
CHECK_DEADLOCK FALSE
