--------------------------- MODULE ChatAuthProofs ---------------------------
(***************************************************************************)
(* Proofs about the whole system, for any number of clients and peers: the   *)
(* authentication server keeps every open connection; who is logged in       *)
(* entered the password of the account; and to the chat server this           *)
(* authentication server is the one of ChatSystem.  Types come last.         *)
(***************************************************************************)
EXTENDS ChatAuth, ChatSessionProofs

-----------------------------------------------------------------------------
(* The invariant of the authentication server's loop.                        *)

AtLinks == ToSet(authClients) \cup ToSet(authBacklog)
HasAsk(s) == toAuth[s] # <<>> \/ other[s] = "closed"

LinkTypes ==
    /\ other \in [Link -> {"off", "open", "closed"}] /\ other[AuthLink] = "open"
    /\ toAuth = [s \in Link |-> toAuth[s]] /\ fromAuth = [s \in Link |-> fromAuth[s]]
    /\ authClients \in Seq(Link) /\ authBacklog \in Seq(Link)
    /\ authReadSet \subseteq Link \cup {AuthListener}
    /\ authPc \in {"accept", "clients"} /\ authCursor \in 0 .. Len(authClients)

\* The queue and the vector share no connection and hold none twice; they hold
\* every open one.
LinksHome ==
    /\ Once(authClients) /\ Once(authBacklog)
    /\ ToSet(authClients) \cap ToSet(authBacklog) = {}
    /\ authUp => \A s \in Link : other[s] = "open" => s \in AtLinks
    /\ \A s \in AtLinks \cup (authReadSet \cap Link) : other[s] # "off"

\* What select reported is still so for the connections to be served.
LinkLoop ==
    /\ ToSet(authBacklog) \cap authReadSet = {}
    /\ authPc = "accept" => authBacklog # <<>> /\ authCursor = Len(authClients)
    /\ \A k \in LinksToServe : HasAsk(authClients[k])

LInv == LinkTypes /\ LinksHome /\ LinkLoop

\* Every connection of the vector and of the queue is one.
LEMMA LinksAreLinks ==
    ASSUME LinkTypes
    PROVE  /\ ToSet(authClients) \subseteq Link /\ ToSet(authBacklog) \subseteq Link
           /\ DOMAIN authClients = 1 .. Len(authClients) /\ Len(authClients) \in Nat
           /\ \A k \in 1 .. Len(authClients) : authClients[k] \in Link
<1>1. /\ DOMAIN authClients = 1 .. Len(authClients) /\ DOMAIN authBacklog = 1 .. Len(authBacklog)
      /\ Len(authClients) \in Nat
  BY LenProperties DEF LinkTypes
<1>2. /\ \A k \in 1 .. Len(authClients) : authClients[k] \in Link
      /\ \A k \in 1 .. Len(authBacklog) : authBacklog[k] \in Link
  BY ElementOfSeq DEF LinkTypes
<1>. QED
  BY <1>1, <1>2 DEF ToSet

\* The queue the server starts with, in any order, holds the connections made
\* so far, each once.
LEMMA QueueOfSet ==
    ASSUME NEW S, IsFiniteSet(S), NEW f \in SetToSeqs(S)
    PROVE  f \in Seq(S) /\ Once(f) /\ ToSet(f) = S
<1>. DEFINE n == Cardinality(S)
            D == 1 .. n
<1>1. n \in Nat
  BY FS_CardinalityType
<1>2. f \in [D -> S] /\ \A i, j \in D : i # j => f[i] # f[j]
  BY DEF SetToSeqs
<1>. HIDE DEF n
<1>3. IsFiniteSet(D) /\ Cardinality(D) = n
  <2>1. 1 \in Int /\ n \in Int
    BY <1>1
  <2>2. IsFiniteSet(D) /\ Cardinality(D) = IF 1 > n THEN 0 ELSE n - 1 + 1
    BY <2>1, FS_Interval
  <2>3. (IF 1 > n THEN 0 ELSE n - 1 + 1) = n
    BY <1>1
  <2>. QED
    BY <2>2, <2>3
<1>. HIDE DEF D
<1>4. f \in Injection(D, S)
  BY <1>2 DEF Injection, IsInjective
<1>5. f \in Surjection(D, S)
  BY <1>3, <1>4, FS_Injection DEF n
<1>6. DOMAIN f = D /\ \A x \in S : \E i \in D : f[i] = x
  BY <1>2, <1>5 DEF Surjection
<1>7. ToSet(f) = S
  BY <1>2, <1>6 DEF ToSet
<1>8. f \in Seq(S)
  BY <1>1, <1>2, SeqDef DEF D
<1>. QED
  BY <1>2, <1>6, <1>7, <1>8 DEF Once

\* The start.
LEMMA InitLInv == ASSUME AuthServerInit, LinksInit PROVE LInv
<1>1. PICK early \in SUBSET Peer :
         /\ authBacklog \in SetToSeqs({AuthLink} \cup early)
         /\ other = [s \in Link |-> IF s \in {AuthLink} \cup early THEN "open" ELSE "off"]
  BY DEF AuthServerInit
<1>. DEFINE S == {AuthLink} \cup early
<1>2. IsFiniteSet(S)
  <2>1. IsFiniteSet(early)
    BY AuthServerAssumption, FS_Subset
  <2>2. IsFiniteSet(early \cup {AuthLink})
    BY <2>1, FS_AddElement
  <2>3. early \cup {AuthLink} = S
    OBVIOUS
  <2>. QED
    BY <2>2, <2>3
<1>3. S \subseteq Link /\ AuthLink \in S /\ AuthLink \in Link
  BY DEF Link
<1>. HIDE DEF S
<1>4. authBacklog \in Seq(S) /\ Once(authBacklog) /\ ToSet(authBacklog) = S
  BY <1>1, <1>2, QueueOfSet DEF S
<1>5. /\ authPc = "clients" /\ authReadSet = {} /\ authCursor = 0 /\ authClients = <<>>
      /\ toAuth = [s \in Link |-> <<>>] /\ fromAuth = [s \in Link |-> <<>>]
  BY DEF AuthServerInit, LinksInit
<1>6. other = [s \in Link |-> IF s \in S THEN "open" ELSE "off"]
  BY <1>1 DEF S
<1>7. authBacklog \in Seq(Link)
  <2>1. Len(authBacklog) \in Nat /\ authBacklog \in [1 .. Len(authBacklog) -> S]
    BY <1>4, LenProperties
  <2>2. authBacklog \in [1 .. Len(authBacklog) -> Link]
    BY <1>3, <2>1
  <2>. QED
    BY <2>1, <2>2, SeqDef
<1>8. ToSet(authClients) = {} /\ Once(authClients) /\ authClients \in Seq(Link)
  BY <1>5, EmptySeq DEF ToSet, Once
<1>9. LinkTypes
  BY <1>3, <1>5, <1>6, <1>7, <1>8 DEF LinkTypes
<1>10. LinksHome
  <2>1. AtLinks = S
    BY <1>4, <1>8 DEF AtLinks
  <2>. QED
    BY <1>3, <1>4, <1>5, <1>6, <1>8, <2>1 DEF LinksHome
<1>11. LinkLoop
  BY <1>5 DEF LinkLoop, LinksToServe
<1>. QED
  BY <1>9, <1>10, <1>11 DEF LInv


-----------------------------------------------------------------------------
(* Steps of the authentication server and of its peers keep it.              *)

\* A step of the others adds frames to the link at most.
LEMMA OthersLInv ==
    ASSUME LInv, UNCHANGED <<authLoopVars, other>>, authUp' => authUp,
           toAuth' = [s \in Link |-> toAuth'[s]], fromAuth' = [s \in Link |-> fromAuth'[s]],
           \A s \in Link : toAuth[s] # <<>> => toAuth'[s] # <<>>
    PROVE  LInv'
<1>1. UNCHANGED <<authPc, authReadSet, authCursor, authClients, authBacklog>>
  BY DEF authLoopVars
<1>2. AtLinks' = AtLinks /\ LinksToServe' = LinksToServe
  BY <1>1 DEF AtLinks, LinksToServe
<1>3. LinkTypes'
  BY <1>1 DEF LInv, LinkTypes
<1>4. LinksHome'
  BY <1>1, <1>2 DEF LInv, LinksHome, Once
<1>5. \A k \in LinksToServe : authClients[k] \in Link
  BY LinksAreLinks DEF LInv, LinksToServe, LinkTypes
<1>6. LinkLoop'
  BY <1>1, <1>2, <1>5 DEF LInv, LinkLoop, HasAsk
<1>. QED
  BY <1>3, <1>4, <1>6 DEF LInv

\* What select reports can be read, and the listener only when a connection waits.
LEMMA AuthSelectLInv == ASSUME LInv, AuthSelect PROVE LInv'
<1>1. /\ authReadSet' = AuthReadable /\ authCursor' = Len(authClients)
      /\ authPc' = IF AuthListener \in AuthReadable THEN "accept" ELSE "clients"
      /\ UNCHANGED <<authClients, authBacklog, other, toAuth, fromAuth, authUp>>
  BY DEF AuthSelect, authVars
<1>2. /\ ToSet(authClients) \subseteq Link /\ ToSet(authBacklog) \subseteq Link
      /\ DOMAIN authClients = 1 .. Len(authClients) /\ Len(authClients) \in Nat
  BY LinksAreLinks DEF LInv
<1>3. AuthListener \notin Link
  BY AuthServerAssumption
<1>. HIDE DEF AuthListener, Link
<1>4. /\ AuthReadable \cap Link \subseteq ToSet(authClients)
      /\ \A s \in AuthReadable \cap Link : HasAsk(s)
      /\ AuthReadable \subseteq Link \cup {AuthListener}
      /\ AuthListener \in AuthReadable => authBacklog # <<>>
  BY <1>2, <1>3 DEF AuthReadable, HasAsk
<1>5. LinkTypes'
  BY <1>1, <1>2, <1>4 DEF LInv, LinkTypes
<1>6. LinksHome'
  BY <1>1, <1>4 DEF LInv, LinksHome, AtLinks, Once
<1>7. LinkLoop'
  <2>1. ToSet(authBacklog) \cap AuthReadable = {}
    BY <1>2, <1>4 DEF LInv, LinksHome
  <2>2. ASSUME NEW k \in LinksToServe' PROVE HasAsk(authClients[k])
    <3>1. k \in 1 .. Len(authClients) /\ authClients[k] \in AuthReadable
      BY <1>1, <2>2 DEF LinksToServe
    <3>2. authClients[k] \in Link
      BY <3>1, LinksAreLinks DEF LInv
    <3>. QED
      BY <1>4, <3>1, <3>2
  <2>3. \A k \in LinksToServe' : HasAsk(authClients[k])'
    BY <1>1, <2>2 DEF HasAsk
  <2>. QED
    BY <1>1, <1>4, <2>1, <2>3 DEF LinkLoop
<1>. QED
  BY <1>5, <1>6, <1>7 DEF LInv

\* The connection accepted moves to the end of the vector, and is not served in
\* this iteration; or it was reset and the server ends.
LEMMA AuthAcceptLInv == ASSUME LInv, AuthAccept PROVE LInv'
<1>. DEFINE s == Head(authBacklog)
<1>1. /\ authPc = "accept" /\ authBacklog' = Tail(authBacklog) /\ authPc' = "clients"
      /\ authCursor' = Len(authClients') /\ authUp
      /\ UNCHANGED <<authReadSet, other, toAuth, fromAuth>>
      /\ \/ authClients' = Append(authClients, s) /\ UNCHANGED authUp
         \/ other[s] = "closed" /\ authUp' = FALSE /\ UNCHANGED authClients
  BY DEF AuthAccept
<1>2. authBacklog # <<>> /\ authCursor = Len(authClients)
  BY <1>1 DEF LInv, LinkLoop
<1>3. /\ s \in ToSet(authBacklog) /\ authBacklog' \in Seq(Link) /\ Once(authBacklog')
      /\ ToSet(authBacklog') = ToSet(authBacklog) \ {s}
  BY <1>1, <1>2, TailOnce DEF LInv, LinkTypes, LinksHome
<1>4. s \in Link /\ s \notin ToSet(authClients) /\ s \notin authReadSet
  BY <1>3, LinksAreLinks DEF LInv, LinksHome, LinkLoop
<1>. HIDE DEF s
<1>5. /\ DOMAIN authClients = 1 .. Len(authClients) /\ Len(authClients) \in Nat
      /\ authClients \in Seq(Link)
  BY LinksAreLinks DEF LInv, LinkTypes
<1>6. CASE authClients' = Append(authClients, s) /\ UNCHANGED authUp
  <2>1. /\ authClients' \in Seq(Link) /\ Once(authClients')
        /\ ToSet(authClients') = ToSet(authClients) \cup {s}
    BY <1>4, <1>6, AppendOnce DEF LInv, LinkTypes, LinksHome
  <2>2. /\ Len(authClients') = Len(authClients) + 1
        /\ authClients'[Len(authClients) + 1] = s
        /\ \A i \in 1 .. Len(authClients) : authClients'[i] = authClients[i]
    BY <1>4, <1>5, <1>6, AppendProperties
  <2>3. AtLinks' = AtLinks
    BY <1>3, <2>1 DEF AtLinks
  <2>4. LinkTypes'
    <3>1. \A n \in Nat : n + 1 \in 0 .. n + 1
      OBVIOUS
    <3>2. authCursor' \in 0 .. Len(authClients')
      BY <1>1, <1>5, <2>2, <3>1
    <3>. QED
      BY <1>1, <1>3, <2>1, <3>2 DEF LInv, LinkTypes
  <2>5. LinksHome'
    BY <1>1, <1>3, <1>4, <1>6, <2>1, <2>3 DEF LInv, LinksHome
  <2>6. LinkLoop'
    <3>1. ASSUME NEW k \in LinksToServe' PROVE HasAsk(authClients[k]) /\ authClients'[k] = authClients[k]
      <4>1. k \in 1 .. Len(authClients) + 1 /\ authClients'[k] \in authReadSet
        BY <1>1, <2>2, <3>1 DEF LinksToServe
      <4>2. k # Len(authClients) + 1
        BY <1>4, <2>2, <4>1
      <4>3. \A n \in Nat : \A i \in 1 .. n + 1 : i # n + 1 => i \in 1 .. n
        OBVIOUS
      <4>4. k \in 1 .. Len(authClients)
        BY <1>5, <4>1, <4>2, <4>3
      <4>5. k \in LinksToServe
        BY <1>2, <2>2, <4>1, <4>4 DEF LinksToServe
      <4>. QED
        BY <2>2, <4>4, <4>5 DEF LInv, LinkLoop
    <3>2. \A k \in LinksToServe' : HasAsk(authClients[k])'
      BY <1>1, <3>1 DEF HasAsk
    <3>. QED
      BY <1>1, <1>3, <3>2 DEF LInv, LinkLoop
  <2>. QED
    BY <2>4, <2>5, <2>6 DEF LInv
<1>7. CASE other[s] = "closed" /\ authUp' = FALSE /\ UNCHANGED authClients
  <2>1. AtLinks' \subseteq AtLinks /\ LinksToServe' = LinksToServe
    BY <1>1, <1>2, <1>3, <1>7 DEF AtLinks, LinksToServe
  <2>2. LinkTypes'
    BY <1>1, <1>2, <1>3, <1>7 DEF LInv, LinkTypes
  <2>3. Once(authClients')
    BY <1>7 DEF LInv, LinksHome, Once
  <2>4. LinksHome'
    BY <1>1, <1>3, <1>7, <2>1, <2>3 DEF LInv, LinksHome
  <2>5. LinkLoop'
    BY <1>1, <1>3, <1>7, <2>1 DEF LInv, LinkLoop, HasAsk
  <2>. QED
    BY <2>2, <2>4, <2>5 DEF LInv
<1>. QED
  BY <1>1, <1>6, <1>7

\* The connection served, and what serving it may be.
LEMMA ServedLink ==
    ASSUME LInv, ServeLink
    PROVE  \E k \in LinksToServe :
              /\ k \in 1 .. Len(authClients) /\ k \in 1 .. authCursor
              /\ authClients[k] \in Link /\ HasAsk(authClients[k])
              /\ authCursor' = k - 1
              /\ UNCHANGED <<authPc, authReadSet, authBacklog, other, authUp>>
              /\ \/ /\ toAuth[authClients[k]] # <<>>
                    /\ HandleRequest(authClients[k], Head(toAuth[authClients[k]]))
                    /\ toAuth' = [toAuth EXCEPT ![authClients[k]] = Tail(@)]
                    /\ UNCHANGED authClients
                 \/ /\ toAuth[authClients[k]] = <<>> \/ other[authClients[k]] = "closed"
                    /\ authClients' = SwapRemoveLink(k)
                    /\ UNCHANGED <<accounts, database, toAuth, fromAuth>>
<1>. DEFINE k == Max(LinksToServe)
<1>1. LinksToServe # {} /\ LinksToServe \in SUBSET (1 .. authCursor) /\ authCursor \in Nat
  BY DEF ServeLink, LInv, LinkTypes, LinksToServe
<1>2. k \in LinksToServe
  BY <1>1, MaxOfPositions
<1>3. /\ authCursor' = k - 1
      /\ UNCHANGED <<authPc, authReadSet, authBacklog, other, authUp>>
      /\ \/ /\ toAuth[authClients[k]] # <<>>
            /\ HandleRequest(authClients[k], Head(toAuth[authClients[k]]))
            /\ toAuth' = [toAuth EXCEPT ![authClients[k]] = Tail(@)]
            /\ UNCHANGED authClients
         \/ /\ toAuth[authClients[k]] = <<>> \/ other[authClients[k]] = "closed"
            /\ authClients' = SwapRemoveLink(k)
            /\ UNCHANGED <<accounts, database, toAuth, fromAuth>>
  BY DEF ServeLink, Before
<1>. HIDE DEF k
<1>4. k \in 1 .. authCursor /\ authCursor \in 0 .. Len(authClients)
  BY <1>1, <1>2 DEF LInv, LinkTypes
<1>5. k \in 1 .. Len(authClients) /\ authClients[k] \in Link
  <2>1. Len(authClients) \in Nat
    BY LinksAreLinks DEF LInv
  <2>2. \A n \in Nat : \A m \in 0 .. n : \A i \in 1 .. m : i \in 1 .. n
    OBVIOUS
  <2>3. k \in 1 .. Len(authClients)
    BY <1>4, <2>1, <2>2
  <2>. QED
    BY <2>3, LinksAreLinks DEF LInv
<1>6. HasAsk(authClients[k])
  BY <1>2 DEF LInv, LinkLoop
<1>. QED
  BY <1>2, <1>3, <1>4, <1>5, <1>6

\* The one served is answered, or removed because its other end is closed.
LEMMA ServeLinkLInv == ASSUME LInv, ServeLink PROVE LInv'
<1>1. PICK k \in LinksToServe :
              /\ k \in 1 .. Len(authClients) /\ k \in 1 .. authCursor
              /\ authClients[k] \in Link /\ HasAsk(authClients[k])
              /\ authCursor' = k - 1
              /\ UNCHANGED <<authPc, authReadSet, authBacklog, other, authUp>>
              /\ \/ /\ toAuth[authClients[k]] # <<>>
                    /\ HandleRequest(authClients[k], Head(toAuth[authClients[k]]))
                    /\ toAuth' = [toAuth EXCEPT ![authClients[k]] = Tail(@)]
                    /\ UNCHANGED authClients
                 \/ /\ toAuth[authClients[k]] = <<>> \/ other[authClients[k]] = "closed"
                    /\ authClients' = SwapRemoveLink(k)
                    /\ UNCHANGED <<accounts, database, toAuth, fromAuth>>
  BY ServedLink
<1>2. PICK s \in Link : s = authClients[k]
  BY <1>1
<1>3. /\ DOMAIN authClients = 1 .. Len(authClients) /\ Len(authClients) \in Nat
      /\ \A j \in 1 .. Len(authClients) : authClients[j] \in Link
  BY LinksAreLinks DEF LInv
<1>4. /\ k - 1 \in 0 .. Len(authClients) - 1 /\ k - 1 \in 0 .. Len(authClients)
      /\ \A j \in 1 .. k - 1 : j \in 1 .. Len(authClients) /\ j \in 1 .. authCursor /\ j # k
  <2>1. \A n \in Nat : \A i \in 1 .. n :
           /\ i - 1 \in 0 .. n - 1 /\ i - 1 \in 0 .. n
           /\ \A j \in 1 .. i - 1 : j \in 1 .. n /\ j # i
    OBVIOUS
  <2>2. authCursor \in Nat
    BY <1>3 DEF LInv, LinkTypes
  <2>. QED
    BY <1>1, <1>3, <2>1, <2>2
<1>5. \A j \in 1 .. k - 1 : authClients[j] # s
  BY <1>2, <1>3, <1>4, <1>1 DEF LInv, LinksHome, Once
<1>6. \A j \in 1 .. k - 1 : authClients[j] \in authReadSet => HasAsk(authClients[j])
  BY <1>4 DEF LInv, LinkLoop, LinksToServe
<1>7. CASE /\ HandleRequest(s, Head(toAuth[s]))
           /\ toAuth' = [toAuth EXCEPT ![s] = Tail(@)] /\ UNCHANGED authClients
  <2>1. /\ toAuth' = [r \in Link |-> toAuth'[r]]
        /\ \A r \in Link : r # s => toAuth'[r] = toAuth[r]
    BY <1>7 DEF LInv, LinkTypes
  <2>2. fromAuth' = [r \in Link |-> fromAuth'[r]]
    <3>1. fromAuth' = fromAuth \/ \E p : SendResult(s, p)
      BY <1>7 DEF HandleRequest
    <3>2. fromAuth = [r \in Link |-> fromAuth[r]]
      BY DEF LInv, LinkTypes
    <3>3. ASSUME NEW p, SendResult(s, p) PROVE fromAuth' = [r \in Link |-> fromAuth'[r]]
      BY <3>2, <3>3 DEF SendResult
    <3>. QED
      BY <3>1, <3>2, <3>3
  <2>3. LinkTypes'
    BY <1>1, <1>4, <1>7, <2>1, <2>2 DEF LInv, LinkTypes
  <2>4. LinksHome'
    BY <1>1, <1>7 DEF LInv, LinksHome, AtLinks, Once
  <2>5. ASSUME NEW j \in LinksToServe' PROVE HasAsk(authClients[j])'
    <3>1. j \in 1 .. k - 1 /\ authClients[j] \in authReadSet
      BY <1>1, <1>7, <2>5 DEF LinksToServe
    <3>2. authClients[j] \in Link /\ authClients[j] # s
      BY <1>3, <1>4, <1>5, <3>1
    <3>. QED
      BY <1>1, <1>6, <1>7, <2>1, <3>1, <3>2 DEF HasAsk
  <2>6. authPc # "accept"
    BY DEF ServeLink
  <2>7. LinkLoop'
    BY <1>1, <2>5, <2>6 DEF LInv, LinkLoop
  <2>. QED
    BY <2>3, <2>4, <2>7 DEF LInv
<1>8. CASE /\ toAuth[s] = <<>> \/ other[s] = "closed"
           /\ authClients' = SwapRemoveLink(k) /\ UNCHANGED <<toAuth, fromAuth>>
  <2>1. other[s] = "closed"
    BY <1>1, <1>2, <1>8 DEF HasAsk
  <2>2. /\ authClients' \in Seq(Link) /\ Once(authClients')
        /\ Len(authClients') = Len(authClients) - 1
        /\ \A i \in 1 .. k - 1 : authClients'[i] = authClients[i]
        /\ ToSet(authClients') = ToSet(authClients) \ {s}
    BY <1>1, <1>2, <1>8, SwapRemoveOnce DEF LInv, LinkTypes, LinksHome, SwapRemoveLink
  <2>3. AtLinks' \subseteq AtLinks /\ AtLinks \subseteq AtLinks' \cup {s}
    BY <1>1, <2>2 DEF AtLinks
  <2>4. LinkTypes'
    BY <1>1, <1>4, <1>8, <2>2 DEF LInv, LinkTypes
  <2>5. LinksHome'
    <3>1. authUp' => \A r \in Link : other'[r] = "open" => r \in AtLinks'
      BY <1>1, <2>1, <2>3 DEF LInv, LinksHome
    <3>2. \A r \in AtLinks' \cup (authReadSet' \cap Link) : other'[r] # "off"
      BY <1>1, <2>3 DEF LInv, LinksHome
    <3>3. Once(authBacklog') /\ ToSet(authClients') \cap ToSet(authBacklog') = {}
      BY <1>1, <2>2 DEF LInv, LinksHome, Once
    <3>. QED
      BY <2>2, <3>1, <3>2, <3>3 DEF LinksHome
  <2>6. ASSUME NEW j \in LinksToServe' PROVE HasAsk(authClients[j])'
    <3>1. j \in 1 .. k - 1 /\ authClients[j] \in authReadSet /\ authClients'[j] = authClients[j]
      BY <1>1, <2>2, <2>6 DEF LinksToServe
    <3>. QED
      BY <1>1, <1>6, <1>8, <3>1 DEF HasAsk
  <2>7. authPc # "accept"
    BY DEF ServeLink
  <2>8. LinkLoop'
    BY <1>1, <2>6, <2>7 DEF LInv, LinkLoop
  <2>. QED
    BY <2>4, <2>5, <2>8 DEF LInv
<1>. QED
  BY <1>1, <1>2, <1>7, <1>8

\* A peer connects, asks or closes its end; none is the link to the chat server.
LEMMA PeerLInv == ASSUME LInv, PeerStep PROVE LInv'
<1>1. PICK s \in Peer : PeerConnect(s) \/ PeerAsk(s) \/ PeerClose(s)
  BY DEF PeerStep
<1>2. s \in Link /\ s # AuthLink /\ AuthLink \in Link
  BY LinksAssumption DEF Link
<1>3. CASE PeerConnect(s)
  <2>1. /\ other[s] = "off" /\ other' = [other EXCEPT ![s] = "open"]
        /\ authBacklog' = Append(authBacklog, s)
        /\ UNCHANGED <<authPc, authReadSet, authCursor, authClients, toAuth, fromAuth, authUp>>
    BY <1>3 DEF PeerConnect, authVars
  <2>2. s \notin AtLinks /\ s \notin authReadSet
    BY <1>2, <2>1 DEF LInv, LinksHome
  <2>3. /\ authBacklog' \in Seq(Link) /\ Once(authBacklog') /\ authBacklog' # <<>>
        /\ ToSet(authBacklog') = ToSet(authBacklog) \cup {s}
    <3>1. s \notin ToSet(authBacklog)
      BY <2>2 DEF AtLinks
    <3>2. /\ authBacklog' \in Seq(Link) /\ Once(authBacklog')
          /\ ToSet(authBacklog') = ToSet(authBacklog) \cup {s}
      BY <1>2, <2>1, <3>1, AppendOnce DEF LInv, LinkTypes, LinksHome
    <3>3. authBacklog' # <<>>
      BY <3>2 DEF ToSet
    <3>. QED
      BY <3>2, <3>3
  <2>4. /\ other' \in [Link -> {"off", "open", "closed"}] /\ other'[s] = "open"
        /\ \A r \in Link : r # s => other'[r] = other[r]
    BY <1>2, <2>1 DEF LInv, LinkTypes
  <2>5. AtLinks' = AtLinks \cup {s} /\ LinksToServe' = LinksToServe
    BY <2>1, <2>3 DEF AtLinks, LinksToServe
  <2>6. LinkTypes'
    BY <1>2, <2>1, <2>3, <2>4 DEF LInv, LinkTypes
  <2>7. LinksHome'
    <3>1. AtLinks \subseteq Link
      BY LinksAreLinks DEF LInv, AtLinks
    <3>2. Once(authClients') /\ ToSet(authClients') \cap ToSet(authBacklog') = {}
      BY <2>1, <2>2, <2>3 DEF LInv, LinksHome, AtLinks, Once
    <3>3. authUp' => \A r \in Link : other'[r] = "open" => r \in AtLinks'
      BY <2>1, <2>4, <2>5 DEF LInv, LinksHome
    <3>4. \A r \in AtLinks' \cup (authReadSet' \cap Link) : other'[r] # "off"
      BY <2>1, <2>4, <2>5, <3>1 DEF LInv, LinksHome
    <3>. QED
      BY <2>3, <3>2, <3>3, <3>4 DEF LinksHome
  <2>8. LinkLoop'
    <3>1. ASSUME NEW k \in LinksToServe PROVE HasAsk(authClients[k])'
      <4>1. HasAsk(authClients[k]) /\ authClients[k] \in authReadSet
        BY <3>1 DEF LInv, LinkLoop, LinksToServe
      <4>2. authClients[k] \in Link
        BY <3>1, LinksAreLinks DEF LInv, LinkTypes, LinksToServe
      <4>. QED
        BY <2>1, <2>2, <2>4, <4>1, <4>2 DEF HasAsk
    <3>. QED
      BY <2>1, <2>2, <2>3, <2>5, <3>1 DEF LInv, LinkLoop
  <2>. QED
    BY <2>6, <2>7, <2>8 DEF LInv
<1>4. CASE PeerAsk(s)
  <2>1. PICK r \in PeerAsks : toAuth' = [toAuth EXCEPT ![s] = <<r>>]
    BY <1>4 DEF PeerAsk
  <2>2. UNCHANGED <<authLoopVars, other, fromAuth, authUp>>
    BY <1>4 DEF PeerAsk, authServerVars
  <2>3. /\ toAuth' = [q \in Link |-> toAuth'[q]] /\ toAuth'[s] = <<r>>
        /\ \A q \in Link : q # s => toAuth'[q] = toAuth[q]
    BY <1>2, <2>1 DEF LInv, LinkTypes
  <2>4. \A q \in Link : toAuth[q] # <<>> => toAuth'[q] # <<>>
    BY <2>3
  <2>5. fromAuth' = [q \in Link |-> fromAuth'[q]]
    BY <2>2 DEF LInv, LinkTypes
  <2>. QED
    BY <2>2, <2>3, <2>4, <2>5, OthersLInv
<1>5. CASE PeerClose(s)
  <2>1. /\ other[s] = "open" /\ other' = [other EXCEPT ![s] = "closed"]
        /\ UNCHANGED <<authPc, authReadSet, authCursor, authClients, authBacklog, toAuth,
                       fromAuth, authUp>>
    BY <1>5 DEF PeerClose, authVars, authLoopVars
  <2>2. /\ other' \in [Link -> {"off", "open", "closed"}] /\ other'[s] = "closed"
        /\ \A r \in Link : r # s => other'[r] = other[r]
    BY <1>2, <2>1 DEF LInv, LinkTypes
  <2>3. AtLinks' = AtLinks /\ LinksToServe' = LinksToServe /\ AtLinks \subseteq Link
    BY <2>1, LinksAreLinks DEF AtLinks, LinksToServe, LInv
  <2>4. LinkTypes'
    BY <1>2, <2>1, <2>2 DEF LInv, LinkTypes
  <2>5. LinksHome'
    BY <2>1, <2>2, <2>3 DEF LInv, LinksHome, Once
  <2>6. ASSUME NEW k \in LinksToServe PROVE HasAsk(authClients[k])'
    <3>1. HasAsk(authClients[k]) /\ authClients[k] \in Link
      BY <2>6, LinksAreLinks DEF LInv, LinkLoop, LinkTypes, LinksToServe
    <3>. QED
      BY <2>1, <2>2, <3>1 DEF HasAsk
  <2>7. LinkLoop'
    BY <2>1, <2>3, <2>6 DEF LInv, LinkLoop
  <2>. QED
    BY <2>4, <2>5, <2>7 DEF LInv
<1>. QED
  BY <1>1, <1>3, <1>4, <1>5

-----------------------------------------------------------------------------
(* The whole system: the invariants of the chat server hold in it too.        *)

\* A request forwarded is added to the link's end, or lost when the link is full.
LEMMA ForwardAsks ==
    ASSUME toAuth = [s \in Link |-> toAuth[s]], NEW id, NEW p, Forward(id, p)
    PROVE  /\ toAuth' = [s \in Link |-> toAuth'[s]]
           /\ \A s \in Link : s # AuthLink => toAuth'[s] = toAuth[s]
           /\ asks' = asks \/ asks' = Append(asks, PacketLoginRequest(id, p.email, p.password))
              \/ asks' = Append(asks, PacketRegisterRequest(id, p.email, p.password))
<1>1. ASSUME NEW q, SendToAuthServer(q)
      PROVE  /\ toAuth' = [s \in Link |-> toAuth'[s]]
             /\ \A s \in Link : s # AuthLink => toAuth'[s] = toAuth[s]
             /\ asks' = asks \/ asks' = Append(asks, q)
  BY <1>1 DEF SendToAuthServer, asks, Link
<1>2. CASE UNCHANGED toAuth
  BY <1>2 DEF asks
<1>. QED
  BY <1>1, <1>2 DEF Forward

\* What the steps of the chat server do to the link.
LEMMA ServerLink ==
    ASSUME LInv, SInv, ServerStep
    PROVE  /\ authUp' = authUp
           /\ toAuth' = [s \in Link |-> toAuth'[s]] /\ fromAuth' = [s \in Link |-> fromAuth'[s]]
           /\ \A s \in Link : s # AuthLink => toAuth'[s] = toAuth[s] /\ fromAuth'[s] = fromAuth[s]
           /\ \A s \in Link : toAuth[s] # <<>> => toAuth'[s] # <<>>
<1>1. toAuth = [s \in Link |-> toAuth[s]] /\ fromAuth = [s \in Link |-> fromAuth[s]]
  BY DEF LInv, LinkTypes
<1>2. CASE UNCHANGED authVars
  BY <1>1, <1>2 DEF authVars
<1>3. CASE AuthRecv
  <2>1. /\ UNCHANGED <<toAuth, authUp>>
        /\ fromAuth' = fromAuth \/ fromAuth' = [fromAuth EXCEPT ![AuthLink] = Tail(@)]
    BY <1>3 DEF AuthRecv
  <2>. QED
    BY <1>1, <2>1
<1>4. CASE ServeUnauthenticated
  <2>1. /\ UNCHANGED <<fromAuth, authUp>>
        /\ toAuth' = toAuth \/ \E id, p : Forward(id, p)
    BY <1>4 DEF ServeUnauthenticated
  <2>2. CASE toAuth' = toAuth
    BY <1>1, <2>1, <2>2
  <2>3. ASSUME NEW id, NEW p, Forward(id, p)
        PROVE  /\ toAuth' = [s \in Link |-> toAuth'[s]]
               /\ \A s \in Link : s # AuthLink => toAuth'[s] = toAuth[s]
               /\ \A s \in Link : toAuth[s] # <<>> => toAuth'[s] # <<>>
    <3>1. /\ toAuth' = [s \in Link |-> toAuth'[s]]
          /\ \A s \in Link : s # AuthLink => toAuth'[s] = toAuth[s]
          /\ asks' = asks \/ \E q : asks' = Append(asks, q)
      BY <1>1, <2>3, ForwardAsks
    <3>2. Len(asks) \in Nat
      BY LenProperties DEF SInv, SessionTypes
    <3>3. ASSUME NEW q PROVE Append(asks, q) # <<>>
      <4>1. Append(asks, q) \in Seq(Request \cup {q}) /\ Len(Append(asks, q)) = Len(asks) + 1
        <5>1. asks \in Seq(Request \cup {q})
          <6>1. asks \in [1 .. Len(asks) -> Request]
            BY LenProperties DEF SInv, SessionTypes
          <6>2. asks \in [1 .. Len(asks) -> Request \cup {q}]
            BY <6>1
          <6>. QED
            BY <3>2, <6>2, SeqDef
        <5>. QED
          BY <5>1, AppendProperties
      <4>2. Len(Append(asks, q)) # 0
        BY <3>2, <4>1
      <4>. QED
        BY <4>1, <4>2, EmptySeq
    <3>. QED
      BY <3>1, <3>3 DEF asks
  <2>. QED
    BY <1>1, <2>1, <2>2, <2>3
<1>5. CASE Select \/ Accept \/ ServeClient \/ ClientsServed \/ RemoveInvalid
  <2>1. UNCHANGED authVars
    BY <1>5 DEF Select, Accept, ServeClient, ClientsServed, RemoveInvalid
  <2>. QED
    BY <1>2, <2>1
<1>. QED
  BY <1>3, <1>4, <1>5 DEF ServerStep, Server

\* The client programs have no part in it.
LEMMA UserLink == ASSUME NEW c \in Client, User(c) PROVE UNCHANGED authVars
BY DEF User, Connect, AskToLogin, SendJoin, SendChat, SendLeave, SendFrame, Send, ClientRecv,
   Close

\* A step of the peers, or for them, leaves the sessions as they are.
LEMMA PeersSInv ==
    ASSUME SInv, asks' = asks, answers' = answers,
           toAuth' = [s \in Link |-> toAuth'[s]], fromAuth' = [s \in Link |-> fromAuth'[s]],
           UNCHANGED <<typed, name, toClient, live, user, currentUnauthenticatedClientId,
                       fromClient, clients, backlog, unauthenticatedClients>>
    PROVE  SInv'
<1>1. Ids' = Ids /\ Outside' = Outside /\ Authenticated' = Authenticated /\ Pending' = Pending
  BY DEF Ids, Outside, Queued, Unauthenticated, Authenticated, Pending
<1>2. SessionTypes'
  BY DEF SInv, SessionTypes
<1>3. OnTheWay'
  BY <1>1 DEF SInv, OnTheWay
<1>4. \A c \in Outside' : Asking(c)'
  BY <1>1 DEF SInv, Asking
<1>5. \A c \in Authenticated' : Admitted(c)'
  BY <1>1 DEF SInv, Admitted, Welcome
<1>6. \A c \in Client : user'[c] \in {"off", "idle"} => fromClient'[c] = <<>> /\ toClient'[c] = <<>>
  BY DEF SInv
<1>. QED
  BY <1>2, <1>3, <1>4, <1>5, <1>6 DEF SInv

\* What the chat server and its clients are made of, apart from the link.
chatVars == <<roomVars, live, up, loopVars, homeVars, backlog, fromClient, userVars>>

\* What a step of the authentication server is to the chat server: the answer to
\* the next request of the link, or nothing that it sees.
Replies == \E ok \in BOOLEAN :
    /\ asks # <<>>
    /\ fromAuth' = [fromAuth EXCEPT ![AuthLink] = Append(@, Result(Head(asks), ok))]
    /\ toAuth' = [toAuth EXCEPT ![AuthLink] = Tail(@)]

LEMMA ServeLinkReplies ==
    ASSUME LInv, SInv, ServeLink
    PROVE  /\ authUp' = authUp /\ authUp
           /\ toAuth' = [s \in Link |-> toAuth'[s]] /\ fromAuth' = [s \in Link |-> fromAuth'[s]]
           /\ Replies \/ (asks' = asks /\ answers' = answers)
<1>1. PICK k \in LinksToServe :
              /\ k \in 1 .. Len(authClients) /\ k \in 1 .. authCursor
              /\ authClients[k] \in Link /\ HasAsk(authClients[k])
              /\ authCursor' = k - 1
              /\ UNCHANGED <<authPc, authReadSet, authBacklog, other, authUp>>
              /\ \/ /\ toAuth[authClients[k]] # <<>>
                    /\ HandleRequest(authClients[k], Head(toAuth[authClients[k]]))
                    /\ toAuth' = [toAuth EXCEPT ![authClients[k]] = Tail(@)]
                    /\ UNCHANGED authClients
                 \/ /\ toAuth[authClients[k]] = <<>> \/ other[authClients[k]] = "closed"
                    /\ authClients' = SwapRemoveLink(k)
                    /\ UNCHANGED <<accounts, database, toAuth, fromAuth>>
  BY ServedLink
<1>2. PICK s \in Link : s = authClients[k]
  BY <1>1
<1>3. toAuth = [r \in Link |-> toAuth[r]] /\ fromAuth = [r \in Link |-> fromAuth[r]]
  BY DEF LInv, LinkTypes
<1>4. authUp' = authUp /\ authUp
  BY <1>1 DEF ServeLink
<1>5. (fromAuth' = [r \in Link |-> fromAuth'[r]]) /\ (s # AuthLink => answers' = answers)
  <2>1. fromAuth' = fromAuth \/ \E p : SendResult(s, p)
    BY <1>1, <1>2 DEF HandleRequest
  <2>2. ASSUME NEW p, SendResult(s, p)
        PROVE  fromAuth' = [r \in Link |-> fromAuth'[r]] /\ (s # AuthLink => answers' = answers)
    BY <1>3, <2>2 DEF SendResult, answers
  <2>. QED
    BY <1>3, <2>1, <2>2 DEF answers
<1>6. toAuth' = [r \in Link |-> toAuth'[r]] /\ (s # AuthLink => asks' = asks)
  <2>1. toAuth' = toAuth \/ toAuth' = [toAuth EXCEPT ![s] = Tail(@)]
    BY <1>1, <1>2
  <2>2. AuthLink \in Link
    BY DEF Link
  <2>. QED
    BY <1>3, <2>1, <2>2 DEF asks
<1>7. CASE UNCHANGED <<toAuth, fromAuth>>
  BY <1>4, <1>5, <1>6, <1>7 DEF asks, answers
<1>8. CASE /\ s = AuthLink /\ toAuth[s] # <<>> /\ HandleRequest(s, Head(toAuth[s]))
           /\ toAuth' = [toAuth EXCEPT ![s] = Tail(@)]
  <2>1. PICK r : r = Head(asks)
    OBVIOUS
  <2>2. asks # <<>> /\ r = Head(toAuth[s])
    BY <1>8, <2>1 DEF asks
  <2>3. r \in Request
    BY <2>1, <2>2, IdSeqTail, FrameIds DEF SInv, SessionTypes
  <2>4. \E a \in AnswersTo(r) : SendResult(s, Result(r, a.result = "SUCCESS"))
    <3>1. HandleRequest(s, r) /\ r.type \in {LOGIN_REQUEST, REGISTER_REQUEST}
      BY <1>8, <2>2, <2>3 DEF Request
    <3>. QED
      BY <3>1 DEF HandleRequest
  <2>5. \E ok \in BOOLEAN : SendResult(s, Result(r, ok))
    BY <2>4
  <2>6. Replies
    <3>1. PICK ok \in BOOLEAN : SendResult(s, Result(r, ok))
      BY <2>5
    <3>2. fromAuth' = [fromAuth EXCEPT ![AuthLink] = Append(@, Result(Head(asks), ok))]
      BY <1>8, <2>1, <3>1 DEF SendResult
    <3>. QED
      BY <1>8, <2>2, <3>2 DEF Replies
  <2>. QED
    BY <1>4, <1>5, <1>6, <2>6
<1>. QED
  BY <1>1, <1>2, <1>4, <1>5, <1>6, <1>7, <1>8

\* A step that the chat server and its clients take no part in.
LEMMA ApartInv ==
    ASSUME HInv, SInv, UNCHANGED chatVars,
           toAuth' = [s \in Link |-> toAuth'[s]], fromAuth' = [s \in Link |-> fromAuth'[s]],
           asks' = asks, answers' = answers
    PROVE  HInv' /\ SInv'
<1>1. UNCHANGED seen
  BY DEF chatVars, seen, roomVars, loopVars, homeVars, userVars
<1>2. UNCHANGED <<typed, name, toClient, live, user, currentUnauthenticatedClientId,
                  fromClient, clients, backlog, unauthenticatedClients>>
  BY DEF chatVars, roomVars, homeVars, userVars
<1>. QED
  BY <1>1, <1>2, UnseenHInv, PeersSInv

\* An answer of the authentication server is a step of ChatSystem's.
LEMMA RepliesIsReply ==
    ASSUME Replies, authUp, authUp' = authUp, UNCHANGED chatVars
    PROVE  AuthReply
BY DEF Replies, AuthReply, asks, chatVars, userVars

\* The three steps of the authentication server's loop.
LEMMA AuthLoopInv ==
    ASSUME HInv, SInv, LInv, AuthLoop, UNCHANGED chatVars
    PROVE  HInv' /\ SInv' /\ LInv'
<1>1. toAuth = [s \in Link |-> toAuth[s]] /\ fromAuth = [s \in Link |-> fromAuth[s]]
  BY DEF LInv, LinkTypes
<1>2. CASE AuthSelect \/ AuthAccept
  <2>1. UNCHANGED <<toAuth, fromAuth>>
    BY <1>2 DEF AuthSelect, AuthAccept, authVars
  <2>2. HInv' /\ SInv'
    BY <1>1, <2>1, ApartInv DEF asks, answers
  <2>. QED
    BY <1>2, <2>2, AuthSelectLInv, AuthAcceptLInv
<1>3. CASE ServeLink
  <2>1. /\ authUp' = authUp /\ authUp
        /\ toAuth' = [s \in Link |-> toAuth'[s]] /\ fromAuth' = [s \in Link |-> fromAuth'[s]]
        /\ Replies \/ (asks' = asks /\ answers' = answers)
    BY <1>3, ServeLinkReplies
  <2>2. CASE Replies
    <3>1. AuthReply
      BY <2>1, <2>2, RepliesIsReply
    <3>2. UNCHANGED seen
      BY DEF chatVars, seen, roomVars, loopVars, homeVars, userVars
    <3>. QED
      BY <1>3, <3>1, <3>2, UnseenHInv, AuthReplySInv, ServeLinkLInv
  <2>3. CASE asks' = asks /\ answers' = answers
    BY <1>3, <2>1, <2>3, ApartInv, ServeLinkLInv
  <2>. QED
    BY <2>1, <2>2, <2>3
<1>. QED
  BY <1>2, <1>3 DEF AuthLoop

\* The peers, and the end of the process.
LEMMA PeersInv ==
    ASSUME HInv, SInv, LInv, PeerStep \/ AuthKilled, UNCHANGED chatVars
    PROVE  HInv' /\ SInv' /\ LInv'
<1>1. toAuth = [s \in Link |-> toAuth[s]] /\ fromAuth = [s \in Link |-> fromAuth[s]]
  BY DEF LInv, LinkTypes
<1>2. CASE PeerStep
  <2>1. PICK s \in Peer : PeerConnect(s) \/ PeerAsk(s) \/ PeerClose(s)
    BY <1>2 DEF PeerStep
  <2>2. /\ UNCHANGED fromAuth
        /\ toAuth' = toAuth \/ \E r : toAuth' = [toAuth EXCEPT ![s] = <<r>>]
    BY <2>1 DEF PeerConnect, PeerAsk, PeerClose, authVars
  <2>3. s # AuthLink /\ AuthLink \in Link
    BY LinksAssumption DEF Link
  <2>4. /\ toAuth' = [r \in Link |-> toAuth'[r]] /\ fromAuth' = [r \in Link |-> fromAuth'[r]]
        /\ asks' = asks /\ answers' = answers
    BY <1>1, <2>2, <2>3 DEF asks, answers
  <2>. QED
    BY <1>2, <2>4, ApartInv, PeerLInv
<1>3. CASE AuthKilled
  <2>1. /\ UNCHANGED <<authLoopVars, other, toAuth, fromAuth>> /\ authUp' = FALSE
    BY <1>3 DEF AuthKilled, authServerVars
  <2>2. LInv'
    BY <1>1, <2>1, OthersLInv
  <2>3. HInv' /\ SInv'
    BY <1>1, <2>1, ApartInv DEF asks, answers
  <2>. QED
    BY <2>2, <2>3
<1>. QED
  BY <1>2, <1>3

\* The chat server and its clients.
LEMMA ChatStepInv ==
    ASSUME HInv, SInv, LInv, up, ChatStep
    PROVE  HInv' /\ SInv' /\ LInv'
<1>1. UNCHANGED <<authLoopVars, other>>
  BY DEF ChatStep, authServerVars
<1>2. CASE ServerStep
  <2>1. LInv'
    BY <1>1, <1>2, ServerLink, OthersLInv
  <2>. QED
    BY <1>2, <2>1, ServerHInv, ServerSInv
<1>3. ASSUME NEW c \in Client, User(c) PROVE HInv' /\ SInv' /\ LInv'
  <2>1. UNCHANGED <<toAuth, fromAuth, authUp>>
    BY <1>3, UserLink DEF authVars
  <2>2. toAuth = [s \in Link |-> toAuth[s]] /\ fromAuth = [s \in Link |-> fromAuth[s]]
    BY DEF LInv, LinkTypes
  <2>3. LInv'
    BY <1>1, <2>1, <2>2, OthersLInv
  <2>. QED
    BY <1>3, <2>3, UserHInv, UserSInv
<1>. QED
  BY <1>2, <1>3 DEF ChatStep, UserStep

\* The three invariants are inductive together.
LEMMA StepLInv ==
    ASSUME HInv, SInv, LInv, [NextWhole]_systemVars
    PROVE  HInv' /\ SInv' /\ LInv'
<1>1. CASE UNCHANGED systemVars
  <2>1. UNCHANGED chatVars /\ UNCHANGED <<authLoopVars, other, toAuth, fromAuth, authUp>>
    BY <1>1 DEF systemVars, vars, serverVars, authVars, chatVars, roomVars, authServerVars
  <2>2. toAuth = [s \in Link |-> toAuth[s]] /\ fromAuth = [s \in Link |-> fromAuth[s]]
    BY DEF LInv, LinkTypes
  <2>3. LInv'
    BY <2>1, <2>2, OthersLInv
  <2>4. HInv' /\ SInv'
    BY <2>1, <2>2, ApartInv DEF asks, answers
  <2>. QED
    BY <2>3, <2>4
<1>2. CASE AuthLoopStep
  BY <1>2, AuthLoopInv DEF AuthLoopStep, AuthStep, chatVars
<1>3. CASE AuthStep(PeerStep) \/ AuthStep(AuthKilled)
  BY <1>3, PeersInv DEF AuthStep, chatVars
<1>. QED
  BY <1>1, <1>2, <1>3, ChatStepInv DEF NextWhole

\* They hold throughout.
LEMMA AlwaysWhole == SpecWhole => [](HInv /\ SInv /\ LInv)
<1>1. InitWhole => HInv /\ SInv /\ LInv
  <2>. SUFFICES ASSUME InitWhole PROVE HInv /\ SInv /\ LInv
    OBVIOUS
  <2>1. Init /\ AuthServerInit /\ LinksInit
    BY DEF InitWhole, Init, ServerInit
  <2>. QED
    BY <2>1, InitHInv, InitSInv, InitLInv
<1>2. HInv /\ SInv /\ LInv /\ [NextWhole]_systemVars => (HInv /\ SInv /\ LInv)'
  BY StepLInv
<1>. QED
  BY <1>1, <1>2, PTL DEF SpecWhole

\* The authentication server keeps every open connection, once, whatever other
\* connections it accepts and removes meanwhile.
THEOREM AlwaysLinksKept == SpecWhole => []LinksKept
<1>1. LInv => LinksKept
  <2>. SUFFICES ASSUME LInv, NEW s \in Link
                PROVE  LinkPlaces(s) = 1 \/ (LinkPlaces(s) = 0 /\ ~(authUp /\ other[s] = "open"))
    BY DEF LinksKept
  <2>1. /\ Cardinality({i \in DOMAIN authClients : authClients[i] = s})
              = IF s \in ToSet(authClients) THEN 1 ELSE 0
        /\ Cardinality({i \in DOMAIN authBacklog : authBacklog[i] = s})
              = IF s \in ToSet(authBacklog) THEN 1 ELSE 0
    BY OnceCounts DEF LInv, LinksHome
  <2>2. ~(s \in ToSet(authClients) /\ s \in ToSet(authBacklog))
    BY DEF LInv, LinksHome
  <2>3. LinkPlaces(s) = IF s \in AtLinks THEN 1 ELSE 0
    BY <2>1, <2>2 DEF LinkPlaces, AtLinks
  <2>4. authUp /\ other[s] = "open" => s \in AtLinks
    BY DEF LInv, LinksHome
  <2>. QED
    BY <2>3, <2>4
<1>. QED
  BY <1>1, AlwaysWhole, PTL

-----------------------------------------------------------------------------
(* Who is logged in owns the account.                                        *)

\* Accounts are never changed or deleted.
Grow == \A k \in DOMAIN accounts : k \in DOMAIN accounts' /\ accounts'[k] = accounts[k]

\* A request handler only adds one.
LEMMA AccountsGrow ==
    ASSUME NEW a, Account(a)!Next
    PROVE  Grow
BY DEF Account!Next, Account!Login, Account!Register, Account!Refuse, Account!Fail,
   Account!Add, Account!With, Grow

\* A login that succeeds carried the password of the account.
LEMMA LoginOwns ==
    ASSUME NEW r, r.type = LOGIN_REQUEST, NEW a \in AnswersTo(r), Account(a)!Next,
           a.result = "SUCCESS"
    PROVE  Collate[r.email] \in DOMAIN accounts' /\ accounts'[Collate[r.email]] = r.password
<1>1. a.kind = "login" /\ a.email = r.email /\ a.password = r.password
  BY DEF AnswersTo
<1>2. PICK e \in Email, p \in Password :
         Account(a)!Login(e, p) \/ Account(a)!Register(e, p) \/ Account(a)!Refuse(e, p)
         \/ \E kind \in {"login", "register"} : Account(a)!Fail(kind, e, p)
  BY DEF Account!Next
<1>3. ASSUME NEW kind, NEW result, Account(a)!Answer(kind, e, p, result)
      PROVE  a.kind = kind /\ a.email = e /\ a.password = p /\ a.result = result
  BY <1>3 DEF Account!Answer
<1>4. Account(a)!Login(e, p)
  BY <1>1, <1>2, <1>3 DEF Account!Register, Account!Refuse, Account!Fail
<1>5. /\ Collate[e] \in DOMAIN accounts /\ accounts[Collate[e]] = p
      /\ Account(a)!Answer("login", e, p, "SUCCESS") /\ accounts' = accounts
  BY <1>3, <1>4 DEF Account!Login
<1>6. e = r.email /\ p = r.password
  BY <1>1, <1>3, <1>5
<1>. QED
  BY <1>5, <1>6

\* The account a client's user asked for has the password that was entered.
Owns(c) == Collate[typed[c]] \in DOMAIN accounts /\ accounts[Collate[typed[c]]] = secret[c]

\* The password follows the request to the authentication server; a success on
\* its way back says that it was the account's.
OwnFrames == \A c \in Outside : \A i \in DOMAIN fromClient[c] : fromClient[c][i].password = secret[c]
OwnAsks == \A i \in DOMAIN asks : asks[i].requestId \in Ids =>
    asks[i].password = secret[unauthenticatedClients[asks[i].requestId]]
OwnAnswers == \A i \in DOMAIN answers :
    answers[i].requestId \in Ids /\ answers[i].type = LOGIN_RESULT /\ answers[i].success =>
        Owns(unauthenticatedClients[answers[i].requestId])

PInv ==
    /\ secret = [c \in Client |-> secret[c]]
    /\ OwnFrames /\ OwnAsks /\ OwnAnswers
    /\ \A c \in Authenticated : Owns(c)

\* The ids of the frames of the link are the pending ones.
LEMMA PendingIds ==
    /\ \A i \in DOMAIN asks : asks[i].requestId \in Pending
    /\ \A i \in DOMAIN answers : answers[i].requestId \in Pending
BY DEF Pending, IdSeq, ToSet

\* A step in which no user enters anything.
LEMMA KeepsPInv ==
    ASSUME PInv, UNCHANGED <<typed, secret>>, Grow,
           \A c \in Authenticated' : c \in Authenticated \/ Owns(c),
           \A c \in Outside' : \A i \in DOMAIN fromClient'[c] :
              c \in Outside /\ \E j \in DOMAIN fromClient[c] : fromClient'[c][i] = fromClient[c][j],
           \A id \in Ids' \cap Pending :
              id \in Ids /\ unauthenticatedClients'[id] = unauthenticatedClients[id],
           \A i \in DOMAIN asks' :
              \/ \E j \in DOMAIN asks : asks'[i] = asks[j]
              \/ asks'[i].requestId \in Ids' =>
                    asks'[i].password = secret[unauthenticatedClients'[asks'[i].requestId]],
           \A i \in DOMAIN answers' :
              \/ \E j \in DOMAIN answers : answers'[i] = answers[j]
              \/ /\ answers'[i].requestId \in Ids' /\ answers'[i].type = LOGIN_RESULT
                 /\ answers'[i].success
                 => Owns(unauthenticatedClients[answers[i].requestId])'
    PROVE  PInv'
<1>1. ASSUME NEW c, Owns(c) PROVE Owns(c)'
  BY <1>1 DEF Owns, Grow
<1>2. OwnFrames'
  BY DEF PInv, OwnFrames
<1>3. OwnAsks'
  <2>. SUFFICES ASSUME NEW i \in DOMAIN asks', asks'[i].requestId \in Ids'
                PROVE  asks'[i].password = secret[unauthenticatedClients'[asks'[i].requestId]]
    BY DEF OwnAsks
  <2>1. ASSUME NEW j \in DOMAIN asks, asks'[i] = asks[j]
        PROVE  asks'[i].password = secret[unauthenticatedClients'[asks'[i].requestId]]
    <3>1. asks[j].requestId \in Pending /\ asks[j].requestId \in Ids'
      BY <2>1, PendingIds
    <3>2. /\ asks[j].requestId \in Ids
          /\ unauthenticatedClients'[asks[j].requestId] = unauthenticatedClients[asks[j].requestId]
      BY <3>1
    <3>. QED
      BY <2>1, <3>2 DEF PInv, OwnAsks
  <2>. QED
    BY <2>1
<1>4. OwnAnswers'
  <2>. SUFFICES ASSUME NEW i \in DOMAIN answers', answers'[i].requestId \in Ids',
                       answers'[i].type = LOGIN_RESULT, answers'[i].success
                PROVE  Owns(unauthenticatedClients[answers[i].requestId])'
    BY DEF OwnAnswers
  <2>1. ASSUME NEW j \in DOMAIN answers, answers'[i] = answers[j]
        PROVE  Owns(unauthenticatedClients[answers[i].requestId])'
    <3>1. answers[j].requestId \in Pending /\ answers[j].requestId \in Ids'
      BY <2>1, PendingIds
    <3>2. /\ answers[j].requestId \in Ids
          /\ unauthenticatedClients'[answers[j].requestId]
                = unauthenticatedClients[answers[j].requestId]
      BY <3>1
    <3>3. PICK c : c = unauthenticatedClients[answers[j].requestId]
      OBVIOUS
    <3>4. Owns(c)
      BY <2>1, <3>2, <3>3 DEF PInv, OwnAnswers
    <3>5. Owns(c)'
      BY <1>1, <3>4
    <3>. QED
      BY <2>1, <3>2, <3>3, <3>5 DEF Owns
  <2>. QED
    BY <2>1
<1>5. \A c \in Authenticated' : Owns(c)'
  BY <1>1 DEF PInv
<1>6. secret' = [c \in Client |-> secret'[c]]
  BY DEF PInv
<1>. QED
  BY <1>2, <1>3, <1>4, <1>5, <1>6 DEF PInv

\* One in which nothing of a login moves but accounts, or is taken away.
LEMMA FewerPInv ==
    ASSUME PInv, UNCHANGED <<typed, secret, fromAuth, toAuth>>, Grow,
           Authenticated' \subseteq Authenticated,
           \A c \in Outside' : \A i \in DOMAIN fromClient'[c] :
              c \in Outside /\ \E j \in DOMAIN fromClient[c] : fromClient'[c][i] = fromClient[c][j],
           \A id \in Ids' \cap Pending :
              id \in Ids /\ unauthenticatedClients'[id] = unauthenticatedClients[id]
    PROVE  PInv'
<1>1. asks' = asks /\ answers' = answers
  BY DEF asks, answers
<1>2. /\ \A c \in Authenticated' : c \in Authenticated \/ Owns(c)
      /\ \A i \in DOMAIN asks' : \E j \in DOMAIN asks : asks'[i] = asks[j]
      /\ \A i \in DOMAIN answers' : \E j \in DOMAIN answers : answers'[i] = answers[j]
  BY <1>1
<1>. QED
  BY <1>2, KeepsPInv

\* A client accepted is outside as before, under an id that no frame carries.
LEMMA AcceptPInv ==
    ASSUME HInv, SInv, PInv, Accept, UNCHANGED <<typed, secret, accounts>>
    PROVE  PInv'
<1>. DEFINE c == Head(backlog)
            n == currentUnauthenticatedClientId
<1>1. UNCHANGED <<toAuth, fromAuth, fromClient, clients>> /\ backlog' = Tail(backlog) /\ pc = "accept"
  BY DEF Accept, authVars
<1>2. c \in Queued /\ Queued' = Queued \ {c} /\ Authenticated' = Authenticated
  <2>1. backlog # <<>>
    BY <1>1 DEF HInv, Loop
  <2>. QED
    BY <1>1, <2>1, TailOnce DEF HInv, HomeTypes, Kept, Queued, Authenticated
<1>3. Grow
  BY DEF Grow
<1>4. CASE UNCHANGED unauthenticatedClients
  <2>1. Ids' = Ids /\ Outside' \subseteq Outside
    BY <1>2, <1>4 DEF Ids, Outside, Unauthenticated
  <2>. QED
    BY <1>1, <1>2, <1>3, <1>4, <2>1, FewerPInv
<1>5. CASE NewClient(c)
  <2>1. unauthenticatedClients' =
              [id \in Ids \cup {n} |-> IF id = n THEN c ELSE unauthenticatedClients[id]]
    BY <1>5 DEF NewClient
  <2>2. n \notin Ids /\ n \notin Pending
    <3>1. \A m \in Nat : m \notin 0 .. m - 1
      OBVIOUS
    <3>2. n \in Nat /\ Ids \subseteq 0 .. n - 1 /\ Pending \subseteq 0 .. n - 1
      BY DEF HInv, HomeTypes, SInv, OnTheWay
    <3>. HIDE DEF n
    <3>. QED
      BY <3>1, <3>2
  <2>. HIDE DEF c, n
  <2>3. /\ Ids' = Ids \cup {n} /\ unauthenticatedClients'[n] = c
        /\ \A id \in Ids : unauthenticatedClients'[id] = unauthenticatedClients[id]
    BY <2>1, <2>2 DEF Ids
  <2>4. Outside' = Outside
    <3>1. Unauthenticated' = Unauthenticated \cup {c}
      BY <2>3 DEF Unauthenticated
    <3>. QED
      BY <1>2, <3>1 DEF Outside
  <2>. QED
    BY <1>1, <1>2, <1>3, <2>2, <2>3, <2>4, FewerPInv
<1>. QED
  BY <1>4, <1>5 DEF Accept

\* The result of a login lets in a client that owns the account.
LEMMA AuthRecvPInv ==
    ASSUME HInv, SInv, PInv, AuthRecv, UNCHANGED <<typed, secret, accounts>>
    PROVE  PInv'
<1>. DEFINE p == Head(answers)
            j == p.requestId
            c == unauthenticatedClients[j]
<1>1. UNCHANGED <<toAuth, fromClient, backlog>>
  BY DEF AuthRecv
<1>2. Queued' = Queued /\ asks' = asks
  BY <1>1 DEF Queued, asks
<1>3. Grow
  BY DEF Grow
<1>4. CASE UNCHANGED <<fromAuth, unauthenticatedClients, clients>>
  <2>1. Ids' = Ids /\ Outside' = Outside /\ Authenticated' = Authenticated
    BY <1>2, <1>4 DEF Ids, Outside, Unauthenticated, Authenticated
  <2>. QED
    BY <1>1, <1>3, <1>4, <2>1, FewerPInv
<1>5. CASE /\ answers # <<>> /\ DispatchResult(p)
           /\ fromAuth' = [fromAuth EXCEPT ![AuthLink] = Tail(@)]
  <2>1. answers' = Tail(answers)
    BY <1>5 DEF SInv, SessionTypes, answers, Link
  <2>2. /\ \A i \in DOMAIN answers' : i + 1 \in DOMAIN answers /\ answers'[i] = answers[i + 1]
        /\ 1 \in DOMAIN answers /\ p = answers[1]
    <3>1. answers \in Seq(Answer)
      BY DEF SInv, SessionTypes
    <3>2. \A i \in DOMAIN answers' : i + 1 \in DOMAIN answers /\ answers'[i] = answers[i + 1]
      BY <1>5, <2>1, <3>1, FrameIds, IdSeqTail
    <3>3. Len(answers) \in Nat \ {0} /\ DOMAIN answers = 1 .. Len(answers)
      BY <1>5, <3>1, LenProperties, EmptySeq
    <3>4. \A n \in Nat \ {0} : 1 \in 1 .. n
      OBVIOUS
    <3>. QED
      BY <3>1, <3>2, <3>3, <3>4
  <2>. HIDE DEF p
  <2>3. /\ \A i \in DOMAIN asks' : \E k \in DOMAIN asks : asks'[i] = asks[k]
        /\ \A i \in DOMAIN answers' : \E k \in DOMAIN answers : answers'[i] = answers[k]
    BY <1>2, <2>2
  <2>4. CASE UNCHANGED <<unauthenticatedClients, clients>>
    <3>1. Ids' = Ids /\ Outside' = Outside /\ Authenticated' = Authenticated
      BY <1>2, <2>4 DEF Ids, Outside, Unauthenticated, Authenticated
    <3>. QED
      BY <1>1, <1>3, <2>3, <2>4, <3>1, KeepsPInv
  <2>5. CASE /\ j \in Ids /\ p.type = LOGIN_RESULT /\ p.success
             /\ unauthenticatedClients' = [id \in Ids \ {j} |-> unauthenticatedClients[id]]
             /\ clients' = Append(clients, c)
    <3>1. Owns(c)
      BY <2>2, <2>5 DEF PInv, OwnAnswers
    <3>2. /\ Ids' \subseteq Ids
          /\ \A id \in Ids' : unauthenticatedClients'[id] = unauthenticatedClients[id]
      BY <2>5 DEF Ids
    <3>3. Outside' \subseteq Outside
      BY <1>2, <3>2 DEF Outside, Unauthenticated
    <3>4. Authenticated' = Authenticated \cup {c}
      <4>1. c \in Client /\ c \notin Authenticated
        BY <2>5, PlacesAreClients DEF HInv, HomeTypes, Kept, Unauthenticated
      <4>. HIDE DEF c
      <4>. QED
        BY <2>5, <4>1, AppendOnce DEF HInv, HomeTypes, Kept, Authenticated
    <3>. QED
      BY <1>1, <1>3, <2>3, <3>1, <3>2, <3>3, <3>4, KeepsPInv
  <2>. QED
    BY <1>5, <2>4, <2>5 DEF DispatchResult, LoginResult, RegisterResult
<1>. QED
  BY <1>4, <1>5 DEF AuthRecv, answers

\* A client inside is read, or taken out: of those outside nothing changes.
LEMMA ServeClientPInv ==
    ASSUME HInv, SInv, PInv, ServeClient, UNCHANGED <<typed, secret, accounts>>
    PROVE  PInv'
<1>. DEFINE k == Max(ClientsToServe)
            c == clients[k]
<1>1. /\ UNCHANGED <<unauthenticatedClients, backlog, toAuth, fromAuth>>
      /\ \/ RecvGets(c) /\ UNCHANGED clients
         \/ clients' = SwapRemove(k) /\ UNCHANGED fromClient
  BY DEF ServeClient, authVars
<1>2. k \in 1 .. Len(clients) /\ c \in Authenticated
  BY ServedPosition
<1>. HIDE DEF k, c
<1>3. Ids' = Ids /\ Outside' = Outside /\ Grow
  BY <1>1 DEF Ids, Outside, Queued, Unauthenticated, Grow
<1>4. Outside \subseteq Client /\ c \in Client /\ c \notin Outside
  BY <1>2, PlacesAreClients DEF HInv, Kept, Outside
<1>5. CASE RecvGets(c) /\ UNCHANGED clients
  <2>1. Authenticated' = Authenticated
    BY <1>5 DEF Authenticated
  <2>2. \A d \in Client : d # c => fromClient'[d] = fromClient[d]
    BY <1>4, <1>5, RecvLeaves DEF HInv
  <2>3. \A d \in Outside : fromClient'[d] = fromClient[d]
    BY <1>4, <2>2
  <2>. QED
    BY <1>1, <1>3, <2>1, <2>3, FewerPInv
<1>6. CASE clients' = SwapRemove(k) /\ UNCHANGED fromClient
  <2>1. Authenticated' \subseteq Authenticated
    BY <1>2, <1>6, SwapRemoveShrinks
  <2>. QED
    BY <1>1, <1>3, <1>6, <2>1, FewerPInv
<1>. QED
  BY <1>1, <1>5, <1>6

\* A request takes the password along under the id of its client.
LEMMA ServeUnauthenticatedPInv ==
    ASSUME HInv, SInv, PInv, ServeUnauthenticated, UNCHANGED <<typed, secret, accounts>>
    PROVE  PInv'
<1>. DEFINE k == Min(UnauthToServe)
<1>1. /\ UNCHANGED <<clients, unauthenticatedClients, backlog, fromAuth>>
      /\ UnauthToServe # {}
      /\ \/ /\ RecvGets(unauthenticatedClients[k])
            /\ Forward(k, Head(fromClient[unauthenticatedClients[k]]))
         \/ UNCHANGED <<fromClient, toAuth>>
  BY DEF ServeUnauthenticated
<1>2. k \in Ids
  <2>1. Ids \subseteq Nat
    <3>1. \A n \in Nat : \A m \in 0 .. n - 1 : m \in Nat
      OBVIOUS
    <3>. QED
      BY <3>1 DEF HInv, HomeTypes
  <2>2. UnauthToServe \in SUBSET Nat
    BY <2>1 DEF UnauthToServe
  <2>3. k \in UnauthToServe
    BY <1>1, <2>2, MinOfNaturals
  <2>. HIDE DEF k
  <2>. QED
    BY <2>3 DEF UnauthToServe
<1>. HIDE DEF k
<1>3. Ids' = Ids /\ Outside' = Outside /\ Authenticated' = Authenticated /\ Grow /\ answers' = answers
  BY <1>1 DEF Ids, Outside, Queued, Unauthenticated, Authenticated, Grow, answers
<1>4. CASE UNCHANGED <<fromClient, toAuth>>
  BY <1>1, <1>3, <1>4, FewerPInv
<1>5. CASE /\ RecvGets(unauthenticatedClients[k])
           /\ Forward(k, Head(fromClient[unauthenticatedClients[k]]))
  <2>1. PICK id \in Ids : id = k
    BY <1>2
  <2>2. PICK c \in Client : c = unauthenticatedClients[id]
    BY <2>1 DEF HInv, HomeTypes
  <2>3. RecvGets(c) /\ Forward(id, Head(fromClient[c]))
    BY <1>5, <2>1, <2>2
  <2>4. c \in Outside /\ Outside \subseteq Client
    BY <2>1, <2>2, PlacesAreClients DEF Outside, Unauthenticated, HInv
  <2>5. /\ 1 \in DOMAIN fromClient[c] /\ Head(fromClient[c]) = fromClient[c][1]
        /\ \A d \in Client : d # c => fromClient'[d] = fromClient[d]
        /\ \A i \in DOMAIN fromClient'[c] :
              \E m \in DOMAIN fromClient[c] : fromClient'[c][i] = fromClient[c][m]
    BY <2>3, RecvLeaves DEF HInv
  <2>6. \A d \in Outside' : \A i \in DOMAIN fromClient'[d] :
           d \in Outside /\ \E m \in DOMAIN fromClient[d] : fromClient'[d][i] = fromClient[d][m]
    BY <1>3, <2>4, <2>5
  <2>7. PICK f : f = fromClient[c][1]
    OBVIOUS
  <2>8. f.password = secret[c]
    BY <2>4, <2>5, <2>7 DEF PInv, OwnFrames
  <2>9. Forward(id, f)
    BY <2>3, <2>5, <2>7
  <2>10. toAuth = [s \in Link |-> toAuth[s]] /\ asks \in Seq(Request)
    BY DEF SInv, SessionTypes
  <2>11. \/ asks' = asks
         \/ \E q : asks' = Append(asks, q) /\ q.requestId = id /\ q.password = f.password
    <3>1. \/ asks' = asks \/ asks' = Append(asks, PacketLoginRequest(id, f.email, f.password))
          \/ asks' = Append(asks, PacketRegisterRequest(id, f.email, f.password))
      BY <2>9, <2>10, ForwardAsks
    <3>2. /\ PacketLoginRequest(id, f.email, f.password).requestId = id
          /\ PacketLoginRequest(id, f.email, f.password).password = f.password
          /\ PacketRegisterRequest(id, f.email, f.password).requestId = id
          /\ PacketRegisterRequest(id, f.email, f.password).password = f.password
      BY DEF PacketLoginRequest, PacketRegisterRequest
    <3>. QED
      BY <3>1, <3>2
  <2>12. \A i \in DOMAIN asks' :
            \/ \E m \in DOMAIN asks : asks'[i] = asks[m]
            \/ asks'[i].requestId \in Ids' =>
                  asks'[i].password = secret[unauthenticatedClients'[asks'[i].requestId]]
    <3>1. CASE asks' = asks
      BY <3>1
    <3>2. ASSUME NEW q, asks' = Append(asks, q), q.requestId = id, q.password = f.password,
                 NEW i \in DOMAIN asks'
          PROVE  (\E m \in DOMAIN asks : asks'[i] = asks[m]) \/ asks'[i] = q
      <4>1. asks \in Seq(Request \cup {q})
        <5>1. Len(asks) \in Nat /\ asks \in [1 .. Len(asks) -> Request]
          BY <2>10, LenProperties
        <5>2. asks \in [1 .. Len(asks) -> Request \cup {q}]
          BY <5>1
        <5>. QED
          BY <5>1, <5>2, SeqDef
      <4>2. /\ asks' \in Seq(Request \cup {q}) /\ Len(asks') = Len(asks) + 1
            /\ asks'[Len(asks) + 1] = q /\ \A m \in 1 .. Len(asks) : asks'[m] = asks[m]
        BY <3>2, <4>1, AppendProperties
      <4>3. /\ Len(asks) \in Nat /\ DOMAIN asks = 1 .. Len(asks)
            /\ DOMAIN asks' = 1 .. Len(asks) + 1
        BY <4>1, <4>2, LenProperties
      <4>4. \A n \in Nat : \A m \in 1 .. n + 1 : m \in 1 .. n \/ m = n + 1
        OBVIOUS
      <4>5. i \in 1 .. Len(asks) \/ i = Len(asks) + 1
        BY <4>3, <4>4
      <4>. QED
        BY <4>2, <4>3, <4>5
    <3>3. ASSUME NEW q, asks' = Append(asks, q), q.requestId = id, q.password = f.password,
                 NEW i \in DOMAIN asks', asks'[i] = q
          PROVE  asks'[i].password = secret[unauthenticatedClients'[asks'[i].requestId]]
      BY <1>1, <2>2, <2>8, <3>3
    <3>. QED
      BY <2>11, <3>1, <3>2, <3>3
  <2>13. /\ \A d \in Authenticated' : d \in Authenticated \/ Owns(d)
         /\ \A i \in DOMAIN answers' : \E m \in DOMAIN answers : answers'[i] = answers[m]
         /\ \A i \in Ids' \cap Pending : i \in Ids /\ unauthenticatedClients'[i] = unauthenticatedClients[i]
    BY <1>1, <1>3
  <2>. QED
    BY <1>3, <2>6, <2>12, <2>13, KeepsPInv
<1>. QED
  BY <1>1, <1>4, <1>5

\* A step of the chat server's thread.
LEMMA ServerPInv ==
    ASSUME HInv, SInv, PInv, ServerStep, UNCHANGED <<secret, accounts>>
    PROVE  PInv'
<1>1. UNCHANGED typed
  BY DEF ServerStep, userVars
<1>2. CASE Select \/ ClientsServed \/ RemoveInvalid
  <2>1. /\ UNCHANGED <<clients, backlog, fromClient, toAuth, fromAuth>>
        /\ Ids' \subseteq Ids
        /\ \A id \in Ids' : unauthenticatedClients'[id] = unauthenticatedClients[id]
    BY <1>2 DEF Select, ClientsServed, RemoveInvalid, homeVars, authVars, Ids
  <2>2. Outside' \subseteq Outside /\ Authenticated' = Authenticated /\ Grow
    BY <2>1 DEF Outside, Queued, Unauthenticated, Authenticated, Grow
  <2>. QED
    BY <1>1, <2>1, <2>2, FewerPInv
<1>. QED
  BY <1>1, <1>2, AcceptPInv, AuthRecvPInv, ServeClientPInv, ServeUnauthenticatedPInv
     DEF ServerStep, Server

\* A user enters an account: nothing that was entered before is on its way.
LEMMA AskPInv ==
    ASSUME HInv, SInv, PInv, NEW c \in Client, NEW p \in Request, SendFrame(c, p),
           UserStep(c), UNCHANGED accounts
    PROVE  PInv'
<1>1. /\ UNCHANGED <<clients, unauthenticatedClients, toAuth, fromAuth>>
      /\ fromClient'[c] = Append(fromClient[c], p)
      /\ \A d \in Client : d # c => fromClient'[d] = fromClient[d]
      /\ Outside' = Outside
  BY FrameSent
<1>2. /\ user[c] = "idle" /\ typed' = [typed EXCEPT ![c] = p.email]
      /\ user' = [user EXCEPT ![c] = "waiting"]
  <2>1. U!Sends(c, p)
    BY DEF SendFrame
  <2>2. p.type \notin {JOIN_ROOM, LEAVE_ROOM, SEND_MESSAGE}
    BY DEF Request, LOGIN_REQUEST, REGISTER_REQUEST, JOIN_ROOM, LEAVE_ROOM, SEND_MESSAGE
  <2>3. U!JOIN_ROOM = JOIN_ROOM /\ U!LEAVE_ROOM = LEAVE_ROOM /\ U!SEND_MESSAGE = SEND_MESSAGE
    BY DEF JOIN_ROOM, LEAVE_ROOM, SEND_MESSAGE, U!JOIN_ROOM, U!LEAVE_ROOM, U!SEND_MESSAGE
  <2>. QED
    BY <2>1, <2>2, <2>3 DEF U!Sends, U!Ask, U!Join, U!Chat, U!Leave
<1>3. fromClient[c] = <<>>
  BY <1>2 DEF SInv
<1>4. fromClient'[c] = <<p>> /\ fromClient'[c] # fromClient[c] /\ Last(fromClient'[c]) = p
  <2>1. Append(<<>>, p) = <<p>> /\ <<p>> # <<>> /\ Last(<<p>>) = p
    BY DEF Last
  <2>. QED
    BY <1>1, <1>3, <2>1
<1>5. user'[c] = "waiting"
  BY <1>2 DEF HInv, HomeTypes
<1>6. secret' = [secret EXCEPT ![c] = p.password]
  BY <1>4, <1>5 DEF UserStep
<1>7. /\ secret' = [d \in Client |-> secret'[d]] /\ secret'[c] = p.password
      /\ \A d \in Client : d # c => secret'[d] = secret[d] /\ typed'[d] = typed[d]
  BY <1>2, <1>6 DEF PInv, SInv, SessionTypes
<1>8. c \notin Authenticated
  BY <1>2 DEF SInv, Admitted
<1>9. \A id \in Ids \cap Pending : unauthenticatedClients[id] # c
  BY <1>2 DEF SInv, OnTheWay
<1>10. /\ Ids' = Ids /\ Authenticated' = Authenticated /\ asks' = asks /\ answers' = answers
       /\ unauthenticatedClients' = unauthenticatedClients
  BY <1>1 DEF Ids, Authenticated, asks, answers
<1>11. /\ Outside \subseteq Client /\ Authenticated \subseteq Client
       /\ \A id \in Ids : unauthenticatedClients[id] \in Client
  BY PlacesAreClients DEF HInv, HomeTypes, Outside
<1>12. ASSUME NEW d \in Client, d # c, Owns(d) PROVE Owns(d)'
  BY <1>7, <1>12 DEF Owns
<1>13. OwnFrames'
  <2>1. ASSUME NEW i \in DOMAIN fromClient'[c] PROVE fromClient'[c][i].password = secret'[c]
    <3>1. i = 1
      BY <1>4, <2>1
    <3>. QED
      BY <1>4, <1>7, <3>1
  <2>2. ASSUME NEW d \in Outside, d # c, NEW i \in DOMAIN fromClient'[d]
        PROVE  fromClient'[d][i].password = secret'[d]
    <3>1. d \in Client /\ fromClient'[d] = fromClient[d] /\ secret'[d] = secret[d]
      BY <1>1, <1>7, <1>11, <2>2
    <3>. QED
      BY <2>2, <3>1 DEF PInv, OwnFrames
  <2>. QED
    BY <1>1, <2>1, <2>2 DEF OwnFrames
<1>14. OwnAsks'
  BY <1>7, <1>9, <1>10, <1>11, PendingIds DEF PInv, OwnAsks
<1>15. OwnAnswers'
  <2>1. ASSUME NEW i \in DOMAIN answers, answers[i].requestId \in Ids,
               answers[i].type = LOGIN_RESULT, answers[i].success
        PROVE  Owns(unauthenticatedClients[answers[i].requestId])'
    <3>1. PICK d \in Client : d = unauthenticatedClients[answers[i].requestId]
      BY <1>11, <2>1
    <3>2. Owns(d) /\ d # c
      BY <1>9, <2>1, <3>1, PendingIds DEF PInv, OwnAnswers
    <3>3. Owns(d)'
      BY <1>12, <3>2
    <3>. QED
      BY <1>10, <3>1, <3>3 DEF Owns
  <2>. QED
    BY <1>10, <2>1 DEF OwnAnswers
<1>16. \A d \in Authenticated' : Owns(d)'
  BY <1>8, <1>10, <1>11, <1>12 DEF PInv
<1>. QED
  BY <1>7, <1>13, <1>14, <1>15, <1>16 DEF PInv

\* A frame for the rooms is no request.
LEMMA RoomSendPInv ==
    ASSUME HInv, SInv, PInv, NEW c \in Client, NEW p, SendFrame(c, p),
           p.type \in {JOIN_ROOM, SEND_MESSAGE, LEAVE_ROOM}, UserStep(c), UNCHANGED accounts
    PROVE  PInv'
<1>1. /\ UNCHANGED <<clients, unauthenticatedClients, toAuth, fromAuth>>
      /\ \A d \in Client : d # c => fromClient'[d] = fromClient[d]
      /\ Outside' = Outside
  BY FrameSent
<1>2. /\ user[c] = "in" /\ typed' = typed
      /\ user' = user \/ user' = [user EXCEPT ![c] = "leaving"]
  <2>1. U!Sends(c, p)
    BY DEF SendFrame
  <2>2. ~U!Ask(c, p)
    BY DEF U!Ask, U!LOGIN_REQUEST, U!REGISTER_REQUEST, JOIN_ROOM, SEND_MESSAGE, LEAVE_ROOM
  <2>. QED
    BY <2>1, <2>2 DEF U!Sends, U!Join, U!Chat, U!Leave, U!userVars
<1>3. user'[c] # "waiting"
  BY <1>2 DEF HInv, HomeTypes
<1>4. secret' = secret
  BY <1>3 DEF UserStep
<1>5. c \notin Outside /\ Outside \subseteq Client
  BY <1>2, PlacesAreClients DEF SInv, Asking, HInv, Outside
<1>6. Ids' = Ids /\ Authenticated' = Authenticated /\ Grow
  BY <1>1 DEF Ids, Authenticated, Grow
<1>7. \A d \in Outside : fromClient'[d] = fromClient[d]
  BY <1>1, <1>5
<1>. QED
  BY <1>1, <1>2, <1>4, <1>6, <1>7, FewerPInv

\* A step of a client program.
LEMMA UserPInv ==
    ASSUME HInv, SInv, PInv, NEW c \in Client, UserStep(c), UNCHANGED accounts
    PROVE  PInv'
<1>1. User(c)
  BY DEF UserStep
<1>2. CASE AskToLogin(c)
  <2>1. PICK e \in Name, w \in Password :
           \/ SendFrame(c, PacketLoginRequest(0, e, w))
           \/ SendFrame(c, PacketRegisterRequest(0, e, w))
    BY <1>2 DEF AskToLogin
  <2>2. PacketLoginRequest(0, e, w) \in Request /\ PacketRegisterRequest(0, e, w) \in Request
    BY DEF Request, PacketLoginRequest, PacketRegisterRequest
  <2>. QED
    BY <2>1, <2>2, AskPInv
<1>3. ASSUME NEW p, SendFrame(c, p), p.type \in {JOIN_ROOM, SEND_MESSAGE, LEAVE_ROOM}
      PROVE  PInv'
  BY <1>3, RoomSendPInv
<1>4. /\ \A r, n : /\ PacketJoinRoom(r, n).type = JOIN_ROOM
                   /\ PacketLeaveRoom(r, n).type = LEAVE_ROOM
      /\ \A m : PacketSendMessage(m).type = SEND_MESSAGE
  BY DEF PacketJoinRoom, PacketLeaveRoom, PacketSendMessage
<1>5. CASE SendJoin(c)
  BY <1>3, <1>4, <1>5 DEF SendJoin
<1>6. CASE SendChat(c)
  BY <1>3, <1>4, <1>6 DEF SendChat
<1>7. CASE SendLeave(c)
  BY <1>3, <1>4, <1>7 DEF SendLeave
<1>8. CASE Connect(c) \/ ClientRecv(c) \/ Close(c)
  <2>1. /\ UNCHANGED <<typed, fromClient, clients, unauthenticatedClients, toAuth, fromAuth>>
        /\ backlog' = backlog \/ (backlog' = Append(backlog, c) /\ user[c] = "off")
    BY <1>8 DEF Connect, ClientRecv, Close, U!Receives, U!Ends, homeVars, authVars
  <2>2. secret' = secret
    BY <2>1 DEF UserStep
  <2>3. Ids' = Ids /\ Authenticated' = Authenticated /\ Grow /\ Unauthenticated' = Unauthenticated
    BY <2>1 DEF Ids, Authenticated, Grow, Unauthenticated
  <2>4. \A d \in Outside' : d \in Outside \/ fromClient'[d] = <<>>
    <3>1. CASE backlog' = backlog
      BY <2>3, <3>1 DEF Outside, Queued
    <3>2. CASE backlog' = Append(backlog, c) /\ user[c] = "off"
      <4>1. c \notin Queued
        BY <3>2 DEF HInv, Gone, Home
      <4>2. Queued' = Queued \cup {c}
        BY <3>2, <4>1, AppendOnce DEF HInv, HomeTypes, Kept, Queued
      <4>3. fromClient'[c] = <<>>
        BY <2>1, <3>2 DEF SInv
      <4>. QED
        BY <2>3, <4>2, <4>3 DEF Outside
    <3>. QED
      BY <2>1, <3>1, <3>2
  <2>5. \A d \in Outside' : \A i \in DOMAIN fromClient'[d] :
           d \in Outside /\ \E j \in DOMAIN fromClient[d] : fromClient'[d][i] = fromClient[d][j]
    BY <2>1, <2>4
  <2>. QED
    BY <2>1, <2>2, <2>3, <2>5, FewerPInv
<1>. QED
  BY <1>1, <1>2, <1>5, <1>6, <1>7, <1>8 DEF User

\* A success is answered only to a login with the account's password, and no
\* account changes.
LEMMA ServeLinkPInv ==
    ASSUME HInv, SInv, LInv, PInv, ServeLink, UNCHANGED chatVars, UNCHANGED secret
    PROVE  PInv'
<1>1. PICK k \in LinksToServe :
              /\ k \in 1 .. Len(authClients) /\ k \in 1 .. authCursor
              /\ authClients[k] \in Link /\ HasAsk(authClients[k])
              /\ authCursor' = k - 1
              /\ UNCHANGED <<authPc, authReadSet, authBacklog, other, authUp>>
              /\ \/ /\ toAuth[authClients[k]] # <<>>
                    /\ HandleRequest(authClients[k], Head(toAuth[authClients[k]]))
                    /\ toAuth' = [toAuth EXCEPT ![authClients[k]] = Tail(@)]
                    /\ UNCHANGED authClients
                 \/ /\ toAuth[authClients[k]] = <<>> \/ other[authClients[k]] = "closed"
                    /\ authClients' = SwapRemoveLink(k)
                    /\ UNCHANGED <<accounts, database, toAuth, fromAuth>>
  BY ServedLink
<1>2. PICK s \in Link : s = authClients[k]
  BY <1>1
<1>3. UNCHANGED <<typed, clients, unauthenticatedClients, backlog, fromClient>>
  BY DEF chatVars, userVars, homeVars
<1>4. /\ Ids' = Ids /\ Outside' = Outside /\ Authenticated' = Authenticated
  BY <1>3 DEF Ids, Outside, Queued, Unauthenticated, Authenticated
<1>5. toAuth = [r \in Link |-> toAuth[r]] /\ fromAuth = [r \in Link |-> fromAuth[r]] /\ AuthLink \in Link
  BY DEF LInv, LinkTypes, Link
<1>6. CASE UNCHANGED <<accounts, toAuth, fromAuth>>
  <2>1. Grow
    BY <1>6 DEF Grow
  <2>. QED
    BY <1>3, <1>4, <1>6, <2>1, FewerPInv
<1>7. CASE /\ toAuth[s] # <<>> /\ HandleRequest(s, Head(toAuth[s]))
           /\ toAuth' = [toAuth EXCEPT ![s] = Tail(@)]
  <2>1. PICK r : r = Head(toAuth[s])
    OBVIOUS
  <2>2. /\ Grow
        /\ \/ UNCHANGED fromAuth /\ ~(r.type \in {LOGIN_REQUEST, REGISTER_REQUEST})
           \/ \E ok \in BOOLEAN :
                 /\ SendResult(s, Result(r, ok))
                 /\ ok /\ r.type = LOGIN_REQUEST =>
                       /\ Collate[r.email] \in DOMAIN accounts'
                       /\ accounts'[Collate[r.email]] = r.password
    <3>1. CASE r.type \in {LOGIN_REQUEST, REGISTER_REQUEST}
      <4>1. HandleRequest(s, r)
        BY <1>7, <2>1
      <4>2. PICK a \in AnswersTo(r) :
               AccountStep(a) /\ SendResult(s, Result(r, a.result = "SUCCESS"))
        BY <3>1, <4>1 DEF HandleRequest
      <4>3. Account(a)!Next
        BY <4>2 DEF AccountStep
      <4>4. Grow
        BY <4>3, AccountsGrow
      <4>5. a.result = "SUCCESS" /\ r.type = LOGIN_REQUEST =>
                       /\ Collate[r.email] \in DOMAIN accounts'
                       /\ accounts'[Collate[r.email]] = r.password
        BY <4>3, LoginOwns
      <4>6. PICK ok \in BOOLEAN : ok = (a.result = "SUCCESS")
        OBVIOUS
      <4>. QED
        BY <4>2, <4>4, <4>5, <4>6
    <3>2. CASE ~(r.type \in {LOGIN_REQUEST, REGISTER_REQUEST})
      <4>1. UNCHANGED <<accounts, fromAuth>>
        BY <1>7, <2>1, <3>2 DEF HandleRequest
      <4>. QED
        BY <3>2, <4>1 DEF Grow
    <3>. QED
      BY <3>1, <3>2
  <2>3. CASE s # AuthLink
    <3>1. asks' = asks /\ answers' = answers
      <4>1. fromAuth' = fromAuth
        BY <2>2, <2>3 DEF SendResult
      <4>. QED
        BY <1>5, <1>7, <2>3, <4>1 DEF asks, answers
    <3>2. /\ \A d \in Authenticated' : d \in Authenticated \/ Owns(d)
          /\ \A i \in DOMAIN asks' : \E m \in DOMAIN asks : asks'[i] = asks[m]
          /\ \A i \in DOMAIN answers' : \E m \in DOMAIN answers : answers'[i] = answers[m]
      BY <1>4, <3>1
    <3>. QED
      BY <1>3, <1>4, <2>2, <3>2, KeepsPInv
  <2>4. CASE s = AuthLink
    <3>1. asks # <<>> /\ r = Head(asks) /\ asks \in Seq(Request) /\ asks' = Tail(asks)
      BY <1>5, <1>7, <2>1, <2>4 DEF asks, SInv, SessionTypes
    <3>2. /\ r \in Request
          /\ \A i \in DOMAIN asks' : i + 1 \in DOMAIN asks /\ asks'[i] = asks[i + 1]
      BY <3>1, IdSeqTail, FrameIds
    <3>3. r.type \in {LOGIN_REQUEST, REGISTER_REQUEST}
      BY <3>2 DEF Request
    <3>4. PICK ok \in BOOLEAN :
             /\ SendResult(s, Result(r, ok))
             /\ ok /\ r.type = LOGIN_REQUEST =>
                   /\ Collate[r.email] \in DOMAIN accounts'
                   /\ accounts'[Collate[r.email]] = r.password
      BY <2>2, <3>3
    <3>5. PICK q : q = Result(r, ok)
      OBVIOUS
    <3>6. answers' = Append(answers, q)
      BY <1>5, <2>4, <3>4, <3>5 DEF SendResult, answers
    <3>7. /\ q \in Answer /\ q.requestId = r.requestId
          /\ q.type = LOGIN_RESULT /\ q.success => ok /\ r.type = LOGIN_REQUEST
      <4>1. CASE r.type = LOGIN_REQUEST
        <5>1. q = PacketLoginResult(r.requestId, ok, r.email)
          BY <3>5, <4>1 DEF Result
        <5>. QED
          BY <3>2, <4>1, <5>1 DEF PacketLoginResult, Request, Answer
      <4>2. CASE r.type # LOGIN_REQUEST
        <5>1. q = PacketRegisterResult(r.requestId, ok)
          BY <3>5, <4>2 DEF Result
        <5>2. REGISTER_RESULT # LOGIN_RESULT
          BY DEF REGISTER_RESULT, LOGIN_RESULT
        <5>. QED
          BY <3>2, <5>1, <5>2 DEF PacketRegisterResult, Request, Answer
      <4>. QED
        BY <4>1, <4>2
    <3>8. 1 \in DOMAIN asks /\ r = asks[1]
      <4>1. Len(asks) \in Nat \ {0} /\ DOMAIN asks = 1 .. Len(asks)
        BY <3>1, LenProperties, EmptySeq
      <4>2. \A n \in Nat \ {0} : 1 \in 1 .. n
        OBVIOUS
      <4>. QED
        BY <3>1, <4>1, <4>2
    <3>9. r.requestId \in Ids =>
             /\ r.password = secret[unauthenticatedClients[r.requestId]]
             /\ r.email = typed[unauthenticatedClients[r.requestId]]
      BY <3>8 DEF PInv, OwnAsks, SInv, OnTheWay
    <3>10. q.requestId \in Ids /\ q.type = LOGIN_RESULT /\ q.success
              => Owns(unauthenticatedClients[q.requestId])'
      <4>1. ASSUME q.requestId \in Ids, q.type = LOGIN_RESULT, q.success
            PROVE  Owns(unauthenticatedClients[q.requestId])'
        <5>1. PICK d : d = unauthenticatedClients[q.requestId]
          OBVIOUS
        <5>2. r.password = secret[d] /\ r.email = typed[d]
          BY <3>7, <3>9, <4>1, <5>1
        <5>3. Collate[r.email] \in DOMAIN accounts' /\ accounts'[Collate[r.email]] = r.password
          BY <3>4, <3>7, <4>1
        <5>4. Owns(d)'
          BY <1>3, <5>2, <5>3 DEF Owns
        <5>. QED
          BY <1>3, <5>1, <5>4 DEF Owns
      <4>. QED
        BY <4>1
    <3>11. \A i \in DOMAIN answers' : answers'[i] = q \/ \E m \in DOMAIN answers : answers'[i] = answers[m]
      <4>1. answers \in Seq(Answer)
        BY DEF SInv, SessionTypes
      <4>2. /\ answers' \in Seq(Answer) /\ Len(answers') = Len(answers) + 1
            /\ answers'[Len(answers) + 1] = q
            /\ \A m \in 1 .. Len(answers) : answers'[m] = answers[m]
        <5>1. q \in Answer
          BY <3>7
        <5>. HIDE DEF answers
        <5>. QED
          BY <3>6, <4>1, <5>1, AppendProperties
      <4>3. /\ Len(answers) \in Nat /\ DOMAIN answers = 1 .. Len(answers)
            /\ DOMAIN answers' = 1 .. Len(answers) + 1
        BY <4>1, <4>2, LenProperties
      <4>4. \A n \in Nat : \A m \in 1 .. n + 1 : m \in 1 .. n \/ m = n + 1
        OBVIOUS
      <4>. QED
        BY <4>2, <4>3, <4>4
    <3>12. ASSUME NEW i \in DOMAIN answers', answers'[i] = q
           PROVE  answers'[i].requestId \in Ids' /\ answers'[i].type = LOGIN_RESULT
                  /\ answers'[i].success => Owns(unauthenticatedClients[answers[i].requestId])'
      BY <1>3, <1>4, <3>10, <3>12 DEF Owns
    <3>13. /\ \A d \in Authenticated' : d \in Authenticated \/ Owns(d)
           /\ \A i \in DOMAIN asks' : \E m \in DOMAIN asks : asks'[i] = asks[m]
      BY <1>4, <3>2
    <3>. QED
      BY <1>3, <1>4, <2>2, <3>11, <3>12, <3>13, KeepsPInv
  <2>. QED
    BY <2>3, <2>4
<1>. QED
  BY <1>1, <1>2, <1>6, <1>7

\* A step that the chat server and its clients take no part in, nor the
\* frames of the link.
LEMMA ApartPInv ==
    ASSUME PInv, UNCHANGED chatVars, UNCHANGED secret, Grow, asks' = asks, answers' = answers
    PROVE  PInv'
<1>1. UNCHANGED <<typed, clients, unauthenticatedClients, backlog, fromClient>>
  BY DEF chatVars, userVars, homeVars
<1>2. Ids' = Ids /\ Outside' = Outside /\ Authenticated' = Authenticated
  BY <1>1 DEF Ids, Outside, Queued, Unauthenticated, Authenticated
<1>3. /\ \A c \in Authenticated' : c \in Authenticated \/ Owns(c)
      /\ \A i \in DOMAIN asks' : \E j \in DOMAIN asks : asks'[i] = asks[j]
      /\ \A i \in DOMAIN answers' : \E j \in DOMAIN answers : answers'[i] = answers[j]
  BY <1>2
<1>. QED
  BY <1>1, <1>2, <1>3, KeepsPInv

\* The rest of the authentication server's loop, the peers, and its end.
LEMMA OtherPInv ==
    ASSUME LInv, PInv, AuthSelect \/ AuthAccept \/ PeerStep \/ AuthKilled,
           UNCHANGED chatVars, UNCHANGED secret
    PROVE  PInv'
<1>1. CASE AuthSelect \/ AuthAccept \/ AuthKilled
  <2>1. UNCHANGED <<toAuth, fromAuth, accounts>>
    BY <1>1 DEF AuthSelect, AuthAccept, AuthKilled, authVars, authServerVars
  <2>. QED
    BY <2>1, ApartPInv DEF Grow, asks, answers
<1>2. CASE PeerStep
  <2>1. PICK s \in Peer : PeerConnect(s) \/ PeerAsk(s) \/ PeerClose(s)
    BY <1>2 DEF PeerStep
  <2>2. /\ UNCHANGED <<fromAuth, accounts>>
        /\ toAuth' = toAuth \/ \E r : toAuth' = [toAuth EXCEPT ![s] = <<r>>]
    BY <2>1 DEF PeerConnect, PeerAsk, PeerClose, authVars, authServerVars
  <2>3. s # AuthLink /\ AuthLink \in Link /\ toAuth = [r \in Link |-> toAuth[r]]
    BY LinksAssumption DEF Link, LInv, LinkTypes
  <2>4. asks' = asks /\ answers' = answers /\ Grow
    BY <2>2, <2>3 DEF asks, answers, Grow
  <2>. QED
    BY <2>4, ApartPInv
<1>. QED
  BY <1>1, <1>2

\* At first nobody has entered anything.
LEMMA InitPInv == ASSUME InitWhole PROVE PInv
<1>1. /\ secret = [c \in Client |-> secret[c]]
      /\ Ids = {} /\ clients = <<>> /\ backlog = <<>>
  BY DEF InitWhole, Init, ServerInit, Ids
<1>2. Authenticated = {} /\ Outside = {}
  BY <1>1, EmptySeq DEF Authenticated, Outside, Queued, Unauthenticated, ToSet
<1>. QED
  BY <1>1, <1>2 DEF PInv, OwnFrames, OwnAsks, OwnAnswers

\* Every step of the system keeps it.
LEMMA StepPInv ==
    ASSUME HInv, SInv, LInv, PInv, [NextWhole]_systemVars
    PROVE  PInv'
<1>1. CASE UNCHANGED systemVars
  <2>1. UNCHANGED chatVars /\ UNCHANGED <<secret, accounts, toAuth, fromAuth>>
    BY <1>1 DEF systemVars, vars, serverVars, authVars, chatVars, roomVars, authServerVars
  <2>. QED
    BY <2>1, ApartPInv DEF Grow, asks, answers
<1>2. CASE ChatStep
  <2>1. UNCHANGED accounts
    BY <1>2 DEF ChatStep, authServerVars
  <2>. QED
    BY <1>2, <2>1, ServerPInv, UserPInv DEF ChatStep
<1>3. CASE AuthLoopStep
  BY <1>3, ServeLinkPInv, OtherPInv DEF AuthLoopStep, AuthLoop, AuthStep, chatVars
<1>4. CASE AuthStep(PeerStep) \/ AuthStep(AuthKilled)
  BY <1>4, OtherPInv DEF AuthStep, chatVars
<1>. QED
  BY <1>1, <1>2, <1>3, <1>4 DEF NextWhole

\* It holds throughout.
LEMMA AlwaysPInv == SpecWhole => []PInv
<1>1. InitWhole => PInv
  BY InitPInv
<1>2. HInv /\ SInv /\ LInv /\ PInv /\ [NextWhole]_systemVars => PInv'
  BY StepPInv
<1>. QED
  BY <1>1, <1>2, AlwaysWhole, PTL DEF SpecWhole

\* A client is authenticated only for an account whose password its own user
\* entered (PacketLoginRequestHandler and the requestId of both servers),
\* whatever others ask meanwhile, if the emails of all requests are plain data:
\* the handlers are steps of Accounts only then (PlainEmails, DBUtils.cpp:28).
THEOREM AlwaysAuthenticatedOwnsAccount == SpecWhole => []AuthenticatedOwnsAccount
<1>1. SInv /\ PInv => AuthenticatedOwnsAccount
  BY PlainEmails, UserEmails DEF SInv, Admitted, PInv, Owns, AuthenticatedOwnsAccount
<1>. QED
  BY <1>1, AlwaysWhole, AlwaysPInv, PTL

-----------------------------------------------------------------------------
(* The chat server and its clients do not see the other programs: what they   *)
(* do is what they do in ChatSystem, definition by definition.               *)

\* The frames of a link, as ChatSystem has them.
Narrow(f) == [s \in Link |-> IF s = AuthLink THEN f[s] ELSE <<>>]

\* Operators of the libraries.
LEMMA SameLibrary ==
    /\ \A s : /\ WithoutPeers!Cardinality(s) = Cardinality(s)
              /\ WithoutPeers!Min(s) = Min(s) /\ WithoutPeers!Max(s) = Max(s)
              /\ WithoutPeers!Front(s) = Front(s) /\ WithoutPeers!Last(s) = Last(s)
              /\ WithoutPeers!ToSet(s) = ToSet(s)
    /\ \A s, e : WithoutPeers!RemoveFirst(s, e) = RemoveFirst(s, e)
    /\ \A s, k, e : WithoutPeers!ReplaceAt(s, k, e) = ReplaceAt(s, k, e)
<1>1. \A s : WithoutPeers!Cardinality(s) = Cardinality(s)
  BY DEF Cardinality, WithoutPeers!Cardinality
<1>2. \A s : WithoutPeers!Min(s) = Min(s) /\ WithoutPeers!Max(s) = Max(s)
  BY DEF Min, Max, WithoutPeers!Min, WithoutPeers!Max
<1>3. \A s : WithoutPeers!Front(s) = Front(s) /\ WithoutPeers!Last(s) = Last(s)
  BY DEF Front, Last, WithoutPeers!Front, WithoutPeers!Last
<1>4. \A s : WithoutPeers!ToSet(s) = ToSet(s)
  BY DEF ToSet, WithoutPeers!ToSet
<1>5. \A s, e : WithoutPeers!RemoveFirst(s, e) = RemoveFirst(s, e)
  BY DEF RemoveFirst, SelectInSeq, RemoveAt, Min, WithoutPeers!RemoveFirst,
     WithoutPeers!SelectInSeq, WithoutPeers!RemoveAt, WithoutPeers!Min
<1>6. \A s, k, e : WithoutPeers!ReplaceAt(s, k, e) = ReplaceAt(s, k, e)
  BY DEF ReplaceAt, WithoutPeers!ReplaceAt
<1>. QED
  BY <1>1, <1>2, <1>3, <1>4, <1>5, <1>6

\* The packets.
LEMMA SameFrames ==
    /\ \A r, n : /\ WithoutPeers!PacketJoinRoom(r, n) = PacketJoinRoom(r, n)
                 /\ WithoutPeers!PacketLeaveRoom(r, n) = PacketLeaveRoom(r, n)
                 /\ WithoutPeers!PacketReceiveMessage(r, n) = PacketReceiveMessage(r, n)
    /\ \A m : WithoutPeers!PacketSendMessage(m) = PacketSendMessage(m)
    /\ \A id, e, p :
          /\ WithoutPeers!PacketLoginRequest(id, e, p) = PacketLoginRequest(id, e, p)
          /\ WithoutPeers!PacketRegisterRequest(id, e, p) = PacketRegisterRequest(id, e, p)
    /\ \A p, ok : WithoutPeers!Result(p, ok) = Result(p, ok)
    /\ WithoutPeers!SEND_MESSAGE = SEND_MESSAGE /\ WithoutPeers!JOIN_ROOM = JOIN_ROOM
    /\ WithoutPeers!LEAVE_ROOM = LEAVE_ROOM /\ WithoutPeers!LOGIN_RESULT = LOGIN_RESULT
    /\ WithoutPeers!LOGIN_REQUEST = LOGIN_REQUEST
    /\ WithoutPeers!REGISTER_REQUEST = REGISTER_REQUEST
BY DEF PacketJoinRoom, PacketLeaveRoom, PacketReceiveMessage, PacketSendMessage,
   PacketLoginRequest, PacketRegisterRequest, Result, PacketLoginResult, PacketRegisterResult,
   SEND_MESSAGE, RECEIVE_MESSAGE, JOIN_ROOM, LEAVE_ROOM, LOGIN_REQUEST, REGISTER_REQUEST,
   LOGIN_RESULT, REGISTER_RESULT,
   WithoutPeers!PacketJoinRoom, WithoutPeers!PacketLeaveRoom,
   WithoutPeers!PacketReceiveMessage, WithoutPeers!PacketSendMessage,
   WithoutPeers!PacketLoginRequest, WithoutPeers!PacketRegisterRequest, WithoutPeers!Result,
   WithoutPeers!PacketLoginResult, WithoutPeers!PacketRegisterResult,
   WithoutPeers!SEND_MESSAGE, WithoutPeers!RECEIVE_MESSAGE, WithoutPeers!JOIN_ROOM,
   WithoutPeers!LEAVE_ROOM, WithoutPeers!LOGIN_REQUEST, WithoutPeers!REGISTER_REQUEST,
   WithoutPeers!LOGIN_RESULT, WithoutPeers!REGISTER_RESULT

\* The streams.
LEMMA SameStreams ==
    /\ \A s : WithoutPeers!RecvCounts(s) = RecvCounts(s)
    /\ \A s, k : WithoutPeers!AfterRecv(s, k) = AfterRecv(s, k)
    /\ \A s, c, f : WithoutPeers!SendToClient(s, c, f) = SendToClient(s, c, f)
    /\ \A s, ms, f : WithoutPeers!Broadcast(s, ms, f) = Broadcast(s, ms, f)
    /\ \A s, ms, c, f : WithoutPeers!BroadcastExclude(s, ms, c, f) = BroadcastExclude(s, ms, c, f)
<1>1. \A p : WithoutPeers!FullFrame(p) = FullFrame(p)
  BY DEF FullFrame, LOGIN_REQUEST, REGISTER_RESULT, WithoutPeers!FullFrame,
     WithoutPeers!LOGIN_REQUEST, WithoutPeers!REGISTER_RESULT
<1>2. \A s : WithoutPeers!RecvCounts(s) = RecvCounts(s)
  BY <1>1 DEF RecvCounts, WithoutPeers!RecvCounts
<1>3. \A s, k : WithoutPeers!AfterRecv(s, k) = AfterRecv(s, k)
  BY DEF AfterRecv, WithoutPeers!AfterRecv
<1>4. \A s, fs : WithoutPeers!Deliver(s, fs) = Deliver(s, fs)
  BY DEF Deliver, WithoutPeers!Deliver
<1>5. \A f, n : WithoutPeers!Copies(f, n) = Copies(f, n)
  BY DEF Copies, WithoutPeers!Copies
<1>6. \A ms, c : WithoutPeers!Occurrences(ms, c) = Occurrences(ms, c)
  BY SameLibrary DEF Occurrences, WithoutPeers!Occurrences
<1>7. /\ \A s, c, f : WithoutPeers!SendToClient(s, c, f) = SendToClient(s, c, f)
      /\ \A s, ms, f : WithoutPeers!Broadcast(s, ms, f) = Broadcast(s, ms, f)
      /\ \A s, ms, c, f :
            WithoutPeers!BroadcastExclude(s, ms, c, f) = BroadcastExclude(s, ms, c, f)
  BY <1>4, <1>5, <1>6 DEF SendToClient, Broadcast, BroadcastExclude, WithoutPeers!SendToClient,
     WithoutPeers!Broadcast, WithoutPeers!BroadcastExclude
<1>. QED
  BY <1>2, <1>3, <1>7

\* The two maps of the rooms.
LEMMA SameRooms ==
    /\ \A c : WithoutPeers!FindClientRoom(c) = FindClientRoom(c)
    /\ \A rs, r : WithoutPeers!Members(rs, r) = Members(rs, r)
    /\ \A rs, c, r : /\ WithoutPeers!PushMember(rs, c, r) = PushMember(rs, c, r)
                     /\ WithoutPeers!EraseMember(rs, c, r) = EraseMember(rs, c, r)
                     /\ WithoutPeers!InsertEntry(rs, c, r) = InsertEntry(rs, c, r)
    /\ \A m, c : WithoutPeers!EraseEntry(m, c) = EraseEntry(m, c)
<1>1. \A c : WithoutPeers!FindClientRoom(c) = FindClientRoom(c)
  BY DEF FindClientRoom, WithoutPeers!FindClientRoom
<1>2. \A rs, r : WithoutPeers!Members(rs, r) = Members(rs, r)
  BY DEF Members, WithoutPeers!Members
<1>3. \A rs, c, r : WithoutPeers!PushMember(rs, c, r) = PushMember(rs, c, r)
  BY <1>2 DEF PushMember, WithoutPeers!PushMember
<1>4. \A rs, c, r : WithoutPeers!EraseMember(rs, c, r) = EraseMember(rs, c, r)
  BY SameLibrary DEF EraseMember, WithoutPeers!EraseMember
<1>5. \A m, c, r : WithoutPeers!InsertEntry(m, c, r) = InsertEntry(m, c, r)
  BY DEF InsertEntry, WithoutPeers!InsertEntry
<1>6. \A m, c : WithoutPeers!EraseEntry(m, c) = EraseEntry(m, c)
  BY DEF EraseEntry, WithoutPeers!EraseEntry
<1>. QED
  BY <1>1, <1>2, <1>3, <1>4, <1>5, <1>6

\* The handlers of the clients' packets.
LEMMA SameHandlers ==
    ASSUME NEW c, NEW p, HandlePacket(c, p)
    PROVE  WithoutPeers!HandlePacket(c, p)
<1>1. /\ \A rs, r, n : WithoutPeers!LeaveNotices(rs, c, r, n) = LeaveNotices(rs, c, r, n)
      /\ WithoutPeers!RoomsWithout(c) = RoomsWithout(c)
      /\ WithoutPeers!MapWithout(c) = MapWithout(c)
  BY SameFrames, SameStreams, SameRooms
     DEF LeaveNotices, RoomsWithout, MapWithout, WithoutPeers!LeaveNotices,
         WithoutPeers!RoomsWithout, WithoutPeers!MapWithout
<1>2. \A n : WithoutPeers!StreamsWithout(c, n) = StreamsWithout(c, n)
  BY <1>1, SameRooms DEF StreamsWithout, WithoutPeers!StreamsWithout
<1>3. \A r, n : JoinRoom(c, r, n) => WithoutPeers!JoinRoom(c, r, n)
  BY <1>1, <1>2, SameFrames, SameStreams, SameRooms DEF JoinRoom, WithoutPeers!JoinRoom
<1>4. \A r, n : LeaveRoom(c, r, n) => WithoutPeers!LeaveRoom(c, r, n)
  BY <1>1, SameRooms DEF LeaveRoom, WithoutPeers!LeaveRoom
<1>5. \A m : /\ SendMessage(c, m) => WithoutPeers!SendMessage(c, m)
             /\ SendMessageRoomNotFound(c) => WithoutPeers!SendMessageRoomNotFound(c)
  BY SameFrames, SameStreams, SameRooms
     DEF SendMessage, SendMessageRoomNotFound, roomVars, WithoutPeers!SendMessage,
         WithoutPeers!SendMessageRoomNotFound, WithoutPeers!roomVars
<1>. QED
  BY <1>3, <1>4, <1>5, SameFrames
     DEF HandlePacket, roomVars, WithoutPeers!HandlePacket, WithoutPeers!roomVars

\* What the event loop reads.
LEMMA SameLoop ==
    /\ WithoutPeers!Ids = Ids /\ WithoutPeers!Watched = Watched
    /\ WithoutPeers!Listener = Listener /\ WithoutPeers!AuthLink = AuthLink
    /\ WithoutPeers!Readable = Readable
    /\ \A s : WithoutPeers!SectionAfterSelect(s) = SectionAfterSelect(s)
    /\ WithoutPeers!ClientsToServe = ClientsToServe
    /\ WithoutPeers!UnauthToServe = UnauthToServe
    /\ \A k : WithoutPeers!SwapRemove(k) = SwapRemove(k)
    /\ \A c : WithoutPeers!RecvFails(c) = RecvFails(c)
<1>1. WithoutPeers!Ids = Ids
  BY DEF Ids, WithoutPeers!Ids
<1>2. WithoutPeers!Watched = Watched
  BY <1>1, SameLibrary DEF Watched, WithoutPeers!Watched
<1>3. WithoutPeers!Listener = Listener /\ WithoutPeers!AuthLink = AuthLink
  BY DEF Listener, AuthLink, WithoutPeers!Listener, WithoutPeers!AuthLink
<1>4. WithoutPeers!Readable = Readable
  BY <1>2, <1>3 DEF Readable, Link, WithoutPeers!Readable
<1>5. \A s : WithoutPeers!SectionAfterSelect(s) = SectionAfterSelect(s)
  BY <1>3 DEF SectionAfterSelect, WithoutPeers!SectionAfterSelect
<1>6. WithoutPeers!ClientsToServe = ClientsToServe
  BY DEF ClientsToServe, WithoutPeers!ClientsToServe
<1>7. WithoutPeers!UnauthToServe = UnauthToServe
  BY <1>1 DEF UnauthToServe, WithoutPeers!UnauthToServe
<1>8. \A k : WithoutPeers!SwapRemove(k) = SwapRemove(k)
  BY SameLibrary DEF SwapRemove, WithoutPeers!SwapRemove
<1>9. \A c : WithoutPeers!RecvFails(c) = RecvFails(c)
  BY DEF RecvFails, WithoutPeers!RecvFails
<1>. QED
  BY <1>1, <1>2, <1>3, <1>4, <1>5, <1>6, <1>7, <1>8, <1>9

\* The variables, and the link.
LEMMA SameVariables ==
    /\ UNCHANGED roomVars => UNCHANGED WithoutPeers!roomVars
    /\ UNCHANGED loopVars => UNCHANGED WithoutPeers!loopVars
    /\ UNCHANGED homeVars => UNCHANGED WithoutPeers!homeVars
    /\ UNCHANGED userVars => UNCHANGED WithoutPeers!userVars
    /\ UNCHANGED authVars => UNCHANGED WithoutPeers!authVars
    /\ fromAuth' = fromAuth => Narrow(fromAuth)' = Narrow(fromAuth)
    /\ toAuth' = toAuth => Narrow(toAuth)' = Narrow(toAuth)
    /\ Narrow(fromAuth)[AuthLink] = fromAuth[AuthLink]
    /\ Narrow(toAuth)[AuthLink] = toAuth[AuthLink]
    /\ Narrow(fromAuth) = [s \in Link |-> IF s = AuthLink THEN fromAuth[s] ELSE <<>>]
    /\ Narrow(toAuth) = [s \in Link |-> IF s = AuthLink THEN toAuth[s] ELSE <<>>]
BY DEF roomVars, loopVars, homeVars, userVars, authVars, Narrow, Link, WithoutPeers!roomVars,
   WithoutPeers!loopVars, WithoutPeers!homeVars, WithoutPeers!userVars, WithoutPeers!authVars

\* The steps of the server that leave the link alone.
LEMMA SameStep ==
    ASSUME Select \/ Accept \/ ServeClient \/ ClientsServed \/ RemoveInvalid
    PROVE  WithoutPeers!Server
<1>1. CASE Select
  <2>1. WithoutPeers!Select
    BY <1>1, SameLoop, SameVariables DEF Select, WithoutPeers!Select
  <2>. QED
    BY <2>1 DEF WithoutPeers!Server
<1>2. CASE Accept
  <2>1. \A c : NewClient(c) => WithoutPeers!NewClient(c)
    BY SameLoop DEF NewClient, WithoutPeers!NewClient
  <2>2. WithoutPeers!Accept
    BY <1>2, <2>1, SameLoop, SameVariables DEF Accept, WithoutPeers!Accept
  <2>. QED
    BY <2>2 DEF WithoutPeers!Server
<1>3. CASE ServeClient
  <2>1. \A c : RecvGets(c) => WithoutPeers!RecvGets(c)
    BY SameStreams DEF RecvGets, WithoutPeers!RecvGets
  <2>2. WithoutPeers!ServeClient
    BY <1>3, <2>1, SameLoop, SameHandlers, SameLibrary, SameVariables
       DEF ServeClient, WithoutPeers!ServeClient
  <2>. QED
    BY <2>2 DEF WithoutPeers!Server
<1>4. CASE ClientsServed
  <2>1. WithoutPeers!ClientsServed
    BY <1>4, SameLoop, SameVariables DEF ClientsServed, WithoutPeers!ClientsServed
  <2>. QED
    BY <2>1 DEF WithoutPeers!Server
<1>5. CASE RemoveInvalid
  <2>1. WithoutPeers!RemoveInvalid
    BY <1>5, SameLoop, SameVariables DEF RemoveInvalid, WithoutPeers!RemoveInvalid
  <2>. QED
    BY <2>1 DEF WithoutPeers!Server
<1>. QED
  BY <1>1, <1>2, <1>3, <1>4, <1>5

\* The results taken from the link, and the requests put on it.
LEMMA SameLink ==
    ASSUME LInv, AuthRecv \/ ServeUnauthenticated
    PROVE  WithoutPeers!Server
<1>1. /\ toAuth = [s \in Link |-> toAuth[s]] /\ fromAuth = [s \in Link |-> fromAuth[s]]
      /\ AuthLink \in Link
  BY DEF LInv, LinkTypes, Link
<1>2. CASE AuthRecv
  <2>1. \A p : LoginResult(p) => WithoutPeers!LoginResult(p)
    BY SameLoop, SameStreams DEF LoginResult, WithoutPeers!LoginResult
  <2>2. \A p : RegisterResult(p) => WithoutPeers!RegisterResult(p)
    BY SameStreams DEF RegisterResult, WithoutPeers!RegisterResult
  <2>3. \A p : DispatchResult(p) => WithoutPeers!DispatchResult(p)
    BY <2>1, <2>2, SameLoop, SameFrames DEF DispatchResult, WithoutPeers!DispatchResult
  <2>4. UNCHANGED toAuth
    BY <1>2 DEF AuthRecv
  <2>5. CASE fromAuth' = [fromAuth EXCEPT ![AuthLink] = Tail(@)]
    <3>1. Narrow(fromAuth)' = [Narrow(fromAuth) EXCEPT ![AuthLink] = Tail(@)]
      BY <1>1, <2>5 DEF Narrow
    <3>2. WithoutPeers!AuthRecv
      BY <1>1, <1>2, <2>3, <2>4, <3>1, SameLoop DEF AuthRecv, Narrow, WithoutPeers!AuthRecv
    <3>. QED
      BY <3>2 DEF WithoutPeers!Server
  <2>6. CASE ~authUp /\ UNCHANGED fromAuth
    <3>1. WithoutPeers!AuthRecv
      BY <1>1, <1>2, <2>3, <2>4, <2>6, SameLoop DEF AuthRecv, WithoutPeers!AuthRecv
    <3>. QED
      BY <3>1 DEF WithoutPeers!Server
  <2>. QED
    BY <1>2, <2>5, <2>6 DEF AuthRecv
<1>3. CASE ServeUnauthenticated
  <2>1. \A p : SendToAuthServer(p) => WithoutPeers!SendToAuthServer(p)
    <3>. SUFFICES ASSUME NEW p, SendToAuthServer(p) PROVE WithoutPeers!SendToAuthServer(p)
      OBVIOUS
    <3>1. Narrow(toAuth)' = [Narrow(toAuth) EXCEPT ![AuthLink] =
                                IF Len(@) < AuthCap THEN Append(@, p) ELSE @]
      BY <1>1 DEF SendToAuthServer, Narrow
    <3>. QED
      BY <3>1, SameLoop DEF Narrow, WithoutPeers!SendToAuthServer
  <2>2. \A id, p : Forward(id, p) => WithoutPeers!Forward(id, p)
    BY <2>1, SameFrames DEF Forward, WithoutPeers!Forward
  <2>3. \A c : RecvGets(c) => WithoutPeers!RecvGets(c)
    BY SameStreams DEF RecvGets, WithoutPeers!RecvGets
  <2>4. WithoutPeers!ServeUnauthenticated
    BY <1>3, <2>2, <2>3, SameLoop, SameLibrary, SameVariables
       DEF ServeUnauthenticated, WithoutPeers!ServeUnauthenticated
  <2>. QED
    BY <2>4 DEF WithoutPeers!Server
<1>. QED
  BY <1>2, <1>3

\* What the client programs do.
LEMMA SameUser == ASSUME NEW c \in Client, User(c) PROVE WithoutPeers!User(c)
<1>1. \A p : U!Sends(c, p) => WithoutPeers!U!Sends(c, p)
  BY DEF U!Sends, U!Ask, U!Join, U!Chat, U!Leave, U!LOGIN_REQUEST, U!REGISTER_REQUEST,
     U!JOIN_ROOM, U!SEND_MESSAGE, U!LEAVE_ROOM, U!userVars, WithoutPeers!U!Sends,
     WithoutPeers!U!Ask, WithoutPeers!U!Join, WithoutPeers!U!Chat, WithoutPeers!U!Leave,
     WithoutPeers!U!LOGIN_REQUEST, WithoutPeers!U!REGISTER_REQUEST,
     WithoutPeers!U!JOIN_ROOM, WithoutPeers!U!SEND_MESSAGE, WithoutPeers!U!LEAVE_ROOM,
     WithoutPeers!U!userVars
<1>2. \A p : U!Receives(c, p) => WithoutPeers!U!Receives(c, p)
  BY DEF U!Receives, U!UserAfter, U!LOGIN_RESULT, U!REGISTER_RESULT, WithoutPeers!U!Receives,
     WithoutPeers!U!UserAfter, WithoutPeers!U!LOGIN_RESULT, WithoutPeers!U!REGISTER_RESULT
<1>3. U!Ends(c) => WithoutPeers!U!Ends(c)
  BY DEF U!Ends, WithoutPeers!U!Ends
<1>4. \A p : SendFrame(c, p) => WithoutPeers!SendFrame(c, p)
  BY <1>1, SameVariables DEF SendFrame, Send, WithoutPeers!SendFrame, WithoutPeers!Send
<1>5. Connect(c) => WithoutPeers!Connect(c)
  BY SameVariables DEF Connect, WithoutPeers!Connect
<1>6. AskToLogin(c) => WithoutPeers!AskToLogin(c)
  BY <1>4, SameFrames DEF AskToLogin, WithoutPeers!AskToLogin
<1>7. /\ SendJoin(c) => WithoutPeers!SendJoin(c)
      /\ SendChat(c) => WithoutPeers!SendChat(c)
      /\ SendLeave(c) => WithoutPeers!SendLeave(c)
  BY <1>4, SameFrames DEF SendJoin, SendChat, SendLeave, WithoutPeers!SendJoin,
     WithoutPeers!SendChat, WithoutPeers!SendLeave
<1>8. ClientRecv(c) => WithoutPeers!ClientRecv(c)
  BY <1>2, SameStreams, SameVariables DEF ClientRecv, WithoutPeers!ClientRecv
<1>9. Close(c) => WithoutPeers!Close(c)
  BY <1>3, SameVariables DEF Close, WithoutPeers!Close
<1>. QED
  BY <1>5, <1>6, <1>7, <1>8, <1>9 DEF User, WithoutPeers!User

\* A step of the authentication server is an answer, its end, or not seen.
LEMMA AuthSideRefines ==
    ASSUME HInv, SInv, LInv, "authDown" \in May, UNCHANGED chatVars,
           AuthLoop \/ PeerStep \/ AuthKilled
    PROVE  \/ WithoutPeers!AuthReply \/ WithoutPeers!AuthDown
           \/ UNCHANGED WithoutPeers!vars
<1>1. /\ toAuth = [s \in Link |-> toAuth[s]] /\ fromAuth = [s \in Link |-> fromAuth[s]]
      /\ AuthLink \in Link
  BY DEF LInv, LinkTypes, Link
<1>2. /\ UNCHANGED <<roomVars, live, up, loopVars, homeVars, backlog, fromClient, userVars>>
      /\ UNCHANGED <<WithoutPeers!roomVars, WithoutPeers!loopVars, WithoutPeers!homeVars,
                     WithoutPeers!userVars>>
      /\ UNCHANGED <<rooms, clientToRoomMap, name, toClient>>
  BY SameVariables DEF chatVars, roomVars
<1>3. ASSUME Narrow(toAuth)' = Narrow(toAuth), Narrow(fromAuth)' = Narrow(fromAuth)
      PROVE  /\ authUp' = authUp => UNCHANGED WithoutPeers!vars
             /\ authUp /\ authUp' = FALSE => WithoutPeers!AuthDown
  BY <1>2, <1>3 DEF Narrow, WithoutPeers!vars, WithoutPeers!serverVars, WithoutPeers!authVars,
     WithoutPeers!AuthDown
<1>4. CASE AuthSelect \/ AuthAccept \/ AuthKilled
  <2>1. UNCHANGED <<toAuth, fromAuth>> /\ (authUp' = authUp \/ (authUp /\ authUp' = FALSE))
    BY <1>4 DEF AuthSelect, AuthAccept, AuthKilled, authVars
  <2>. QED
    BY <1>3, <2>1, SameVariables
<1>5. CASE PeerStep
  <2>1. PICK s \in Peer : PeerConnect(s) \/ PeerAsk(s) \/ PeerClose(s)
    BY <1>5 DEF PeerStep
  <2>2. /\ UNCHANGED <<fromAuth, authUp>>
        /\ toAuth' = toAuth \/ \E r : toAuth' = [toAuth EXCEPT ![s] = <<r>>]
    BY <2>1 DEF PeerConnect, PeerAsk, PeerClose, authVars
  <2>3. s # AuthLink
    BY LinksAssumption
  <2>4. Narrow(toAuth)' = Narrow(toAuth) /\ Narrow(fromAuth)' = Narrow(fromAuth)
    BY <1>1, <2>2, <2>3 DEF Narrow
  <2>. QED
    BY <1>3, <2>2, <2>4
<1>6. CASE ServeLink
  <2>1. /\ authUp' = authUp /\ authUp
        /\ toAuth' = [s \in Link |-> toAuth'[s]] /\ fromAuth' = [s \in Link |-> fromAuth'[s]]
        /\ Replies \/ (asks' = asks /\ answers' = answers)
    BY <1>6, ServeLinkReplies
  <2>2. CASE asks' = asks /\ answers' = answers
    <3>1. Narrow(toAuth)' = Narrow(toAuth) /\ Narrow(fromAuth)' = Narrow(fromAuth)
      BY <2>2 DEF Narrow, asks, answers
    <3>. QED
      BY <1>3, <2>1, <3>1
  <2>3. CASE Replies
    <3>1. PICK ok \in BOOLEAN :
             /\ toAuth[AuthLink] # <<>>
             /\ fromAuth' = [fromAuth EXCEPT ![AuthLink] =
                                Append(@, Result(Head(toAuth[AuthLink]), ok))]
             /\ toAuth' = [toAuth EXCEPT ![AuthLink] = Tail(@)]
      BY <2>3 DEF Replies, asks
    <3>2. PICK a : a = Result(Head(toAuth[AuthLink]), ok)
      OBVIOUS
    <3>3. /\ Narrow(fromAuth)' = [Narrow(fromAuth) EXCEPT ![AuthLink] = Append(@, a)]
          /\ Narrow(toAuth)' = [Narrow(toAuth) EXCEPT ![AuthLink] = Tail(@)]
      BY <1>1, <3>1, <3>2 DEF Narrow
    <3>4. /\ Narrow(toAuth)[AuthLink] # <<>>
          /\ a = WithoutPeers!Result(Head(Narrow(toAuth)[AuthLink]), ok)
      BY <3>1, <3>2, SameVariables, SameFrames
    <3>5. WithoutPeers!AuthReply
      BY <1>2, <2>1, <3>3, <3>4, SameLoop DEF Narrow, WithoutPeers!AuthReply
    <3>. QED
      BY <3>5
  <2>. QED
    BY <2>1, <2>2, <2>3
<1>. QED
  BY <1>4, <1>5, <1>6 DEF AuthLoop

\* Every step of the system is one of ChatSystem's, or none.
LEMMA StepRefines ==
    ASSUME HInv, SInv, LInv, "authDown" \in May, [NextWhole]_systemVars
    PROVE  [WithoutPeers!Next]_(WithoutPeers!vars)
<1>1. CASE UNCHANGED systemVars
  <2>1. UNCHANGED <<roomVars, live, up, loopVars, homeVars, backlog, fromClient, userVars,
                    authVars, rooms, clientToRoomMap, name, toClient>>
    BY <1>1 DEF systemVars, vars, serverVars, roomVars
  <2>2. UNCHANGED WithoutPeers!vars
    BY <2>1, SameVariables DEF WithoutPeers!vars, WithoutPeers!serverVars
  <2>. QED
    BY <2>2
<1>2. CASE up /\ ChatStep
  <2>1. CASE ServerStep
    <3>1. WithoutPeers!Server
      BY <2>1, SameStep, SameLink DEF ServerStep, Server
    <3>2. WithoutPeers!ServerStep
      BY <2>1, <3>1, SameVariables DEF ServerStep, WithoutPeers!ServerStep
    <3>. QED
      BY <1>2, <3>2 DEF WithoutPeers!Next
  <2>2. CASE \E c \in Client : User(c)
    BY <1>2, <2>2, SameUser DEF WithoutPeers!Next
  <2>. QED
    BY <1>2, <2>1, <2>2 DEF ChatStep, UserStep
<1>3. CASE up /\ (AuthLoopStep \/ AuthStep(PeerStep) \/ AuthStep(AuthKilled))
  <2>1. UNCHANGED chatVars /\ (AuthLoop \/ PeerStep \/ AuthKilled)
    BY <1>3 DEF AuthLoopStep, AuthStep, chatVars
  <2>. QED
    BY <1>3, <2>1, AuthSideRefines DEF WithoutPeers!Next
<1>. QED
  BY <1>1, <1>2, <1>3 DEF NextWhole

\* The two start alike.
LEMMA InitRefines == ASSUME InitWhole PROVE WithoutPeers!Init
<1>1. Init
  BY DEF InitWhole
<1>2. /\ LinksInit
      /\ Narrow(toAuth) = [s \in Link |-> <<>>] /\ Narrow(fromAuth) = [s \in Link |-> <<>>]
  BY <1>1 DEF Init, ServerInit, LinksInit, Narrow
<1>3. WithoutPeers!Link = Link
  BY SameLoop DEF Link, WithoutPeers!Link
<1>4. WithoutPeers!LinksInit
  BY <1>2, <1>3 DEF LinksInit, Narrow, WithoutPeers!LinksInit
<1>. QED
  BY <1>1, <1>4 DEF Init, ServerInit, WithoutPeers!Init, WithoutPeers!ServerInit

\* The system with its authentication server (AuthServer::Start over the
\* accounts, used by others too) behaves, to the chat server and its clients,
\* as ChatSystem says, where it may go away: the safety part of
\* ImplementsChatSystem.
THEOREM RefinesChatSystem ==
    ASSUME "authDown" \in May
    PROVE  SpecWhole => WithoutPeers!Spec
<1>1. InitWhole => WithoutPeers!Init
  BY InitRefines
<1>2. HInv /\ SInv /\ LInv /\ [NextWhole]_systemVars => [WithoutPeers!Next]_(WithoutPeers!vars)
  BY StepRefines
<1>. QED
  BY <1>1, <1>2, AlwaysWhole, PTL DEF SpecWhole, WithoutPeers!Spec

-----------------------------------------------------------------------------
(* The types of the whole system.                                           *)

\* The database and the history.
AccountTypes ==
    /\ DOMAIN accounts \subseteq Key /\ accounts \in [DOMAIN accounts -> Password]
    /\ database \in BOOLEAN
SecretTypes == secret \in [Client -> Password \cup {NoRoom}]

\* Request handlers add accounts of users' emails and passwords.
LEMMA AccountStepTypes ==
    ASSUME AccountTypes, NEW a, AccountStep(a)
    PROVE  AccountTypes'
<1>1. PICK e \in Email, p \in Password :
         Account(a)!Login(e, p) \/ Account(a)!Register(e, p) \/ Account(a)!Refuse(e, p)
         \/ \E kind \in {"login", "register"} : Account(a)!Fail(kind, e, p)
  BY DEF AccountStep, Account!Next
<1>2. accounts' = accounts \/ accounts' = Account(a)!With(Collate[e], p)
  BY <1>1 DEF Account!Login, Account!Register, Account!Refuse, Account!Fail, Account!Add
<1>3. DOMAIN accounts' \subseteq Key /\ accounts' \in [DOMAIN accounts' -> Password]
  <2>1. Collate[e] \in Key
    BY AuthServerAssumption, PlainEmails
  <2>2. CASE accounts' = accounts
    BY <2>2 DEF AccountTypes
  <2>3. CASE accounts' = Account(a)!With(Collate[e], p)
    <3>1. accounts' = [j \in DOMAIN accounts \cup {Collate[e]} |->
                          IF j = Collate[e] THEN p ELSE accounts[j]]
      BY <2>3 DEF Account!With
    <3>. QED
      BY <2>1, <3>1 DEF AccountTypes
  <2>. QED
    BY <1>2, <2>2, <2>3
<1>4. database' \in BOOLEAN
  BY DEF AccountStep, AccountTypes
<1>. QED
  BY <1>3, <1>4 DEF AccountTypes

\* The steps of the authentication server and of its peers.
LEMMA AuthSideTypes ==
    ASSUME LInv, AccountTypes, AuthLoop \/ PeerStep \/ AuthKilled
    PROVE  AccountTypes'
<1>1. CASE UNCHANGED <<accounts, database>>
  BY <1>1 DEF AccountTypes
<1>2. AuthSelect \/ AuthAccept \/ PeerStep \/ AuthKilled => UNCHANGED <<accounts, database>>
  BY DEF AuthSelect, AuthAccept, PeerStep, PeerConnect, PeerAsk, PeerClose, AuthKilled,
     authServerVars
<1>3. CASE ServeLink
  <2>1. UNCHANGED <<accounts, database>> \/ \E s, r : HandleRequest(s, r)
    BY <1>3, ServedLink
  <2>2. ASSUME NEW s, NEW r, HandleRequest(s, r)
        PROVE  UNCHANGED <<accounts, database>> \/ \E a : AccountStep(a)
    BY <2>2 DEF HandleRequest
  <2>. QED
    BY <1>1, <2>1, <2>2, AccountStepTypes
<1>. QED
  BY <1>1, <1>2, <1>3 DEF AuthLoop

\* A user enters passwords.
LEMMA UserSecretTypes ==
    ASSUME HInv, SInv, SecretTypes, NEW c \in Client, UserStep(c)
    PROVE  SecretTypes'
<1>1. CASE secret' = secret
  BY <1>1 DEF SecretTypes
<1>2. ASSUME fromClient'[c] # fromClient[c], user'[c] = "waiting",
             secret' = [secret EXCEPT ![c] = Last(fromClient'[c]).password]
      PROVE  SecretTypes'
  <2>1. ~(Connect(c) \/ ClientRecv(c) \/ Close(c))
    BY <1>2 DEF Connect, ClientRecv, Close
  <2>2. ASSUME NEW p, SendFrame(c, p), p.type \notin {LOGIN_REQUEST, REGISTER_REQUEST}
        PROVE  FALSE
    <3>1. U!LOGIN_REQUEST = LOGIN_REQUEST /\ U!REGISTER_REQUEST = REGISTER_REQUEST
      BY DEF U!LOGIN_REQUEST, U!REGISTER_REQUEST, LOGIN_REQUEST, REGISTER_REQUEST
    <3>2. U!Join(c, p) \/ U!Chat(c, p) \/ U!Leave(c, p)
      BY <2>2, <3>1 DEF SendFrame, U!Sends, U!Ask
    <3>3. user[c] = "in" /\ (user' = user \/ user' = [user EXCEPT ![c] = "leaving"])
      BY <3>2 DEF U!Join, U!Chat, U!Leave, U!userVars
    <3>4. user \in [Client -> UserState]
      BY DEF HInv, HomeTypes
    <3>. QED
      BY <1>2, <3>3, <3>4
  <2>3. \A r, n : /\ PacketJoinRoom(r, n).type \notin {LOGIN_REQUEST, REGISTER_REQUEST}
                  /\ PacketLeaveRoom(r, n).type \notin {LOGIN_REQUEST, REGISTER_REQUEST}
    BY DEF PacketJoinRoom, PacketLeaveRoom, JOIN_ROOM, LEAVE_ROOM, LOGIN_REQUEST, REGISTER_REQUEST
  <2>4. \A m : PacketSendMessage(m).type \notin {LOGIN_REQUEST, REGISTER_REQUEST}
    BY DEF PacketSendMessage, SEND_MESSAGE, LOGIN_REQUEST, REGISTER_REQUEST
  <2>5. ~(SendJoin(c) \/ SendChat(c) \/ SendLeave(c))
    BY <2>2, <2>3, <2>4 DEF SendJoin, SendChat, SendLeave
  <2>6. AskToLogin(c)
    BY <2>1, <2>5 DEF UserStep, User
  <2>7. PICK e \in Name, w \in Password :
           \E p \in {PacketLoginRequest(0, e, w), PacketRegisterRequest(0, e, w)} : SendFrame(c, p)
    BY <2>6 DEF AskToLogin
  <2>. PICK p \in {PacketLoginRequest(0, e, w), PacketRegisterRequest(0, e, w)} : SendFrame(c, p)
    BY <2>7
  <2>8. p.password \in Password /\ SendFrame(c, p)
    BY DEF PacketLoginRequest, PacketRegisterRequest
  <2>9. fromClient'[c] = Append(fromClient[c], p) /\ fromClient[c] \in Seq(ToSet(fromClient[c]))
    BY <2>8, FrameSent
  <2>10. Last(fromClient'[c]) = p
    <3>1. PICK s : s = fromClient[c]
      OBVIOUS
    <3>2. s \in Seq(ToSet(s) \cup {p})
      <4>1. \A A, B : A \subseteq B => Seq(A) \subseteq Seq(B)
        OBVIOUS
      <4>. QED
        BY <2>9, <3>1, <4>1
    <3>3. /\ Append(s, p)[Len(s) + 1] = p /\ Len(Append(s, p)) = Len(s) + 1
      BY <3>2, AppendProperties
    <3>. QED
      BY <2>9, <3>1, <3>3 DEF Last
  <2>. QED
    BY <1>2, <2>8, <2>10 DEF SecretTypes
<1>. QED
  BY <1>1, <1>2 DEF UserStep

\* Every step of the system keeps the bounds.
LEMMA StepBInvWhole ==
    ASSUME IsFiniteSet(Client), HInv, SInv, LInv, BInv, [NextWhole]_systemVars
    PROVE  BInv'
<1>1. asks \in Seq(Request) /\ authUp \in BOOLEAN /\ toAuth = [s \in Link |-> toAuth[s]]
  BY DEF SInv, SessionTypes, BInv, LoopTypes
<1>2. UNCHANGED chatVars => UNCHANGED bounded
  BY DEF chatVars, bounded, roomVars, loopVars, homeVars, userVars
<1>3. CASE ChatStep
  BY <1>3, ServerBInv, UserBInv DEF ChatStep, UserStep
<1>4. CASE UNCHANGED systemVars
  <2>1. UNCHANGED chatVars /\ UNCHANGED <<toAuth, authUp>>
    BY <1>4 DEF systemVars, vars, serverVars, authVars, chatVars, roomVars
  <2>. QED
    BY <1>1, <1>2, <2>1, AsideBInv DEF asks
<1>5. CASE AuthLoopStep
  <2>1. UNCHANGED chatVars /\ AuthLoop
    BY <1>5 DEF AuthLoopStep, AuthStep, chatVars
  <2>2. CASE AuthSelect \/ AuthAccept
    <3>1. toAuth' = toAuth /\ (authUp' = authUp \/ authUp' = FALSE)
      BY <2>2 DEF AuthSelect, AuthAccept, authVars
    <3>. QED
      BY <1>1, <1>2, <2>1, <3>1, AsideBInv DEF asks
  <2>3. CASE ServeLink
    <3>1. /\ authUp' = authUp
          /\ Replies \/ asks' = asks
      BY <2>3, ServeLinkReplies
    <3>2. AuthLink \in Link
      BY DEF Link
    <3>3. asks' = asks \/ (asks # <<>> /\ asks' = Tail(asks))
      BY <1>1, <3>1, <3>2 DEF Replies, asks
    <3>. QED
      BY <1>1, <1>2, <2>1, <3>1, <3>3, AsideBInv
  <2>. QED
    BY <2>1, <2>2, <2>3 DEF AuthLoop
<1>6. CASE AuthStep(PeerStep) \/ AuthStep(AuthKilled)
  <2>1. UNCHANGED chatVars /\ (PeerStep \/ AuthKilled)
    BY <1>6 DEF AuthStep, chatVars
  <2>2. CASE AuthKilled
    <3>1. toAuth' = toAuth /\ authUp' = FALSE
      BY <2>2 DEF AuthKilled
    <3>. QED
      BY <1>1, <1>2, <2>1, <3>1, AsideBInv DEF asks
  <2>3. CASE PeerStep
    <3>1. PICK s \in Peer : PeerConnect(s) \/ PeerAsk(s) \/ PeerClose(s)
      BY <2>3 DEF PeerStep
    <3>2. /\ authUp' = authUp
          /\ toAuth' = toAuth \/ \E r : toAuth' = [toAuth EXCEPT ![s] = <<r>>]
      BY <3>1 DEF PeerConnect, PeerAsk, PeerClose, authVars
    <3>3. s # AuthLink /\ AuthLink \in Link
      BY LinksAssumption DEF Link
    <3>4. asks' = asks
      BY <1>1, <3>2, <3>3 DEF asks
    <3>. QED
      BY <1>1, <1>2, <2>1, <3>2, <3>4, AsideBInv
  <2>. QED
    BY <2>1, <2>2, <2>3
<1>. QED
  BY <1>3, <1>4, <1>5, <1>6 DEF NextWhole

\* Every step of the system keeps the types of the database and of the history.
LEMMA StepAccountTypes ==
    ASSUME HInv, SInv, LInv, AccountTypes, SecretTypes, [NextWhole]_systemVars
    PROVE  AccountTypes' /\ SecretTypes'
<1>1. CASE ChatStep
  <2>1. UNCHANGED <<accounts, database>>
    BY <1>1 DEF ChatStep, authServerVars
  <2>2. AccountTypes'
    BY <2>1 DEF AccountTypes
  <2>3. SecretTypes'
    BY <1>1, UserSecretTypes DEF ChatStep, SecretTypes
  <2>. QED
    BY <2>2, <2>3
<1>2. CASE AuthLoopStep \/ AuthStep(PeerStep) \/ AuthStep(AuthKilled)
  BY <1>2, AuthSideTypes DEF AuthLoopStep, AuthStep, SecretTypes
<1>3. CASE UNCHANGED systemVars
  BY <1>3 DEF systemVars, authServerVars, AccountTypes, SecretTypes
<1>. QED
  BY <1>1, <1>2, <1>3 DEF NextWhole

\* Both servers keep what they hold of its type throughout: the loops stay
\* within their vectors, and accounts are of emails and passwords.
THEOREM AlwaysTypeOKWhole ==
    ASSUME IsFiniteSet(Client)
    PROVE  SpecWhole => []TypeOKWhole
<1>1. InitWhole => BInv /\ AccountTypes /\ SecretTypes
  <2>. SUFFICES ASSUME InitWhole PROVE BInv /\ AccountTypes /\ SecretTypes
    OBVIOUS
  <2>1. BInv
    BY InitBInv DEF InitWhole
  <2>2. AccountTypes
    <3>1. accounts = [k \in {} |-> 0] /\ database = TRUE
      BY DEF InitWhole, AuthServerInit
    <3>2. DOMAIN accounts = {}
      BY <3>1
    <3>. QED
      BY <3>1, <3>2 DEF AccountTypes
  <2>3. SecretTypes
    BY DEF InitWhole, SecretTypes
  <2>. QED
    BY <2>1, <2>2, <2>3
<1>2. HInv /\ SInv /\ LInv /\ BInv /\ AccountTypes /\ SecretTypes /\ [NextWhole]_systemVars
        => (BInv /\ AccountTypes /\ SecretTypes)'
  <2>. SUFFICES ASSUME HInv, SInv, LInv, BInv, AccountTypes, SecretTypes,
                       [NextWhole]_systemVars
                PROVE  BInv' /\ AccountTypes' /\ SecretTypes'
    OBVIOUS
  <2>1. BInv'
    BY StepBInvWhole
  <2>. QED
    BY <2>1, StepAccountTypes
<1>3. HInv /\ SInv /\ LInv /\ BInv /\ AccountTypes /\ SecretTypes => TypeOKWhole
  <2>. SUFFICES ASSUME HInv, SInv, LInv, BInv, AccountTypes, SecretTypes PROVE TypeOKWhole
    OBVIOUS
  <2>1. TypeOK
    BY InvariantsType
  <2>. QED
    BY <2>1 DEF TypeOKWhole, LInv, LinkTypes, AccountTypes, SecretTypes
<1>. QED
  BY <1>1, <1>2, <1>3, AlwaysWhole, PTL DEF SpecWhole
=============================================================================
