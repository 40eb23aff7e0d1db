---------------------------- MODULE WindowProofs -----------------------------
(*****************************************************************************)
(* For any number of listeners, of broadcasts and of rounds: a broadcast     *)
(* reaches all who listen from its begin to its end, and an answer on time   *)
(* keeps a listener (EventFeed).  For any number of sessions, of polls and of *)
(* clicks: an end that is shown is real and complete, and a session that     *)
(* waits can be started (TransferView).                                      *)
(*****************************************************************************)
EXTENDS EventFeed, TransferView, FiniteSetTheorems, WellFoundedInduction, TLAPS

(* EventFeed.                                                              *)

\* No connection is twice in the list.
Once(q) == \A i, j \in 1 .. Len(q) : q[i] = q[j] => i = j

ConnsInv ==
  /\ conns \in Seq(Sockets) /\ Once(conns)
  /\ \A i \in 1 .. Len(conns) : endpoint[conns[i]] = "listening"
  /\ endpoint \in [Sockets -> {"none", "accepted", "listening", "dropped", "ended"}]

-----------------------------------------------------------------------------
(* The list without some of its connections.                               *)

\* The places of a list are finitely many.
LEMMA UpTo ==
  ASSUME NEW n \in Nat PROVE IsFiniteSet(1 .. n) /\ Cardinality(1 .. n) = n
<1>1. /\ IsFiniteSet(1 .. n)
      /\ Cardinality(1 .. n) = IF 1 > n THEN 0 ELSE n - 1 + 1
  BY FS_Interval
<1> QED BY <1>1

\* Those that stay, up to a place, are finitely many.
LEMMA StayingIsFinite ==
  ASSUME conns \in Seq(Sockets), NEW S
  PROVE  /\ IsFiniteSet(Staying(S)) /\ Cardinality(Staying(S)) \in Nat
         /\ \A i \in Staying(S) : Rank(S, i) \in 1 .. Cardinality(Staying(S))
<1>1. Len(conns) \in Nat
  OBVIOUS
<1>2. IsFiniteSet(1 .. Len(conns))
  BY <1>1, FS_Interval
<1>3. IsFiniteSet(Staying(S)) /\ Cardinality(Staying(S)) \in Nat
  BY <1>2, FS_Subset, FS_CardinalityType DEF Staying
<1>4. ASSUME NEW i \in Staying(S) PROVE Rank(S, i) \in 1 .. Cardinality(Staying(S))
  <2> DEFINE T == {k \in Staying(S) : k <= i}
  <2>1. T \in SUBSET Staying(S) /\ i \in T
    BY <1>4 DEF Staying
  <2>2. IsFiniteSet(T) /\ Cardinality(T) \in Nat /\ Cardinality(T) <= Cardinality(Staying(S))
    BY <1>3, <2>1, FS_Subset, FS_CardinalityType
  <2>3. Cardinality(T) # 0
    BY <2>1, <2>2, FS_EmptySet
  <2> QED BY <1>3, <2>2, <2>3 DEF Rank
<1> QED BY <1>3, <1>4

\* Those that stay keep their order.
LEMMA RanksGrow ==
  ASSUME conns \in Seq(Sockets), NEW S, NEW i \in Staying(S), NEW j \in Staying(S), i < j
  PROVE  Rank(S, i) < Rank(S, j)
<1> DEFINE T(n) == {k \in Staying(S) : k <= n}
<1>1. T(i) \in SUBSET T(j) /\ j \in T(j) /\ j \notin T(i)
  BY DEF Staying
<1>2. T(j) \in SUBSET Staying(S)
  OBVIOUS
<1>3. IsFiniteSet(T(j)) /\ Cardinality(T(j)) \in Nat /\ IsFiniteSet(T(i)) /\ Cardinality(T(i)) \in Nat
  BY <1>1, <1>2, StayingIsFinite, FS_Subset, FS_CardinalityType
<1>4. Cardinality(T(i)) <= Cardinality(T(j)) /\ Cardinality(T(i)) # Cardinality(T(j))
  BY <1>1, <1>3, FS_Subset
<1> QED BY <1>3, <1>4 DEF Rank

\* Every place of the list that is left is the rank of one that stays.
LEMMA EveryRank ==
  ASSUME conns \in Seq(Sockets), NEW S, NEW j \in 1 .. Cardinality(Staying(S))
  PROVE  \E i \in Staying(S) : Rank(S, i) = j
<1> DEFINE n == Cardinality(Staying(S))
           f == [i \in Staying(S) |-> Rank(S, i)]
<1>1. n \in Nat /\ IsFiniteSet(Staying(S)) /\ f \in [Staying(S) -> 1 .. n]
  BY StayingIsFinite
<1>2. ASSUME NEW a \in Staying(S), NEW b \in Staying(S), f[a] = f[b] PROVE a = b
  <2>1. a \in Int /\ b \in Int
    BY DEF Staying
  <2>2. ~(a < b) /\ ~(b < a)
    BY <1>1, <1>2, RanksGrow
  <2> QED BY <2>1, <2>2
<1>3. f \in Injection(Staying(S), 1 .. n)
  BY <1>1, <1>2 DEF Injection, IsInjective
<1>4. IsFiniteSet(1 .. n) /\ Cardinality(1 .. n) = n
  BY <1>1, FS_Interval
<1>5. f \in Surjection(Staying(S), 1 .. n)
  BY <1>3, <1>4, FS_Injection
<1> QED BY <1>1, <1>5 DEF Surjection

\* The list that is left: its elements, and how it reaches each of them.
LEMMA LeftAt ==
  ASSUME conns \in Seq(Sockets), NEW S
  PROVE  /\ LeftWithout(S) \in Seq(Sockets)
         /\ Len(LeftWithout(S)) = Cardinality(Staying(S))
         /\ \A i \in Staying(S) : LeftWithout(S)[Rank(S, i)] = conns[i]
<1> DEFINE n == Cardinality(Staying(S))
           pick(j) == CHOOSE i \in Staying(S) : Rank(S, i) = j
<1>1. n \in Nat
  BY StayingIsFinite
<1>2. ASSUME NEW j \in 1 .. n PROVE pick(j) \in Staying(S) /\ Rank(S, pick(j)) = j
  BY EveryRank
<1>3. \A j \in 1 .. n : conns[pick(j)] \in Sockets
  BY <1>2 DEF Staying
<1>4. LeftWithout(S) = [j \in 1 .. n |-> conns[pick(j)]]
  BY DEF LeftWithout
<1> HIDE DEF n, pick
<1>5. LeftWithout(S) \in Seq(Sockets) /\ Len(LeftWithout(S)) = n
  BY <1>1, <1>3, <1>4
<1>6. ASSUME NEW i \in Staying(S) PROVE LeftWithout(S)[Rank(S, i)] = conns[i]
  <2>1. Rank(S, i) \in 1 .. n
    BY StayingIsFinite DEF n
  <2>2. pick(Rank(S, i)) = i
    <3>1. pick(Rank(S, i)) \in Staying(S) /\ Rank(S, pick(Rank(S, i))) = Rank(S, i)
      BY <1>2, <2>1
    <3>2. ~(pick(Rank(S, i)) < i) /\ ~(i < pick(Rank(S, i)))
      BY <2>1, <3>1, <1>1, RanksGrow
    <3>3. pick(Rank(S, i)) \in Int /\ i \in Int
      BY <3>1 DEF Staying
    <3> QED BY <3>2, <3>3
  <2> QED BY <1>4, <2>1, <2>2
<1> QED BY <1>5, <1>6 DEF n

\* Each place of the list that is left is that of one that stays.
LEMMA LeftFrom ==
  ASSUME conns \in Seq(Sockets), NEW S, NEW j \in 1 .. Len(LeftWithout(S))
  PROVE  \E i \in Staying(S) : Rank(S, i) = j /\ LeftWithout(S)[j] = conns[i]
<1>1. j \in 1 .. Cardinality(Staying(S))
  BY LeftAt
<1>2. PICK i \in Staying(S) : Rank(S, i) = j
  BY <1>1, EveryRank
<1> QED BY <1>2, LeftAt

\* What is left is what was not taken, none of it twice.
LEMMA LeftElements ==
  ASSUME ConnsInv, NEW S
  PROVE  /\ LeftWithout(S) \in Seq(Sockets) /\ Once(LeftWithout(S))
         /\ ToSet(LeftWithout(S)) = ToSet(conns) \ S
<1>1. conns \in Seq(Sockets) /\ Once(conns)
  BY DEF ConnsInv
<1>2. LeftWithout(S) \in Seq(Sockets)
  BY <1>1, LeftAt
<1>3. Once(LeftWithout(S))
  <2> SUFFICES ASSUME NEW i \in 1 .. Len(LeftWithout(S)), NEW j \in 1 .. Len(LeftWithout(S)),
                      LeftWithout(S)[i] = LeftWithout(S)[j]
               PROVE  i = j
    BY DEF Once
  <2>1. PICK a \in Staying(S) : Rank(S, a) = i /\ LeftWithout(S)[i] = conns[a]
    BY <1>1, LeftFrom
  <2>2. PICK b \in Staying(S) : Rank(S, b) = j /\ LeftWithout(S)[j] = conns[b]
    BY <1>1, LeftFrom
  <2>3. a = b
    BY <1>1, <2>1, <2>2 DEF Once, Staying
  <2> QED BY <2>1, <2>2, <2>3
<1>4. ASSUME NEW s \in ToSet(LeftWithout(S)) PROVE s \in ToSet(conns) \ S
  <2>1. PICK j \in 1 .. Len(LeftWithout(S)) : LeftWithout(S)[j] = s
    BY <1>2 DEF ToSet
  <2>2. PICK i \in Staying(S) : LeftWithout(S)[j] = conns[i]
    BY <1>1, LeftFrom
  <2> QED BY <1>1, <2>1, <2>2 DEF Staying, ToSet
<1>5. ASSUME NEW s \in ToSet(conns) \ S PROVE s \in ToSet(LeftWithout(S))
  <2>1. PICK i \in 1 .. Len(conns) : conns[i] = s
    BY <1>1 DEF ToSet
  <2>2. i \in Staying(S)
    BY <2>1 DEF Staying
  <2>3. Rank(S, i) \in 1 .. Len(LeftWithout(S)) /\ LeftWithout(S)[Rank(S, i)] = s
    BY <1>1, <2>1, <2>2, LeftAt, StayingIsFinite
  <2> QED BY <1>2, <2>3 DEF ToSet
<1> QED BY <1>2, <1>3, <1>4, <1>5

\* Where nothing is taken before a place, the list up to there is as it was.
LEMMA LeftPrefix ==
  ASSUME conns \in Seq(Sockets), NEW S, NEW i \in 1 .. Len(conns),
         \A k \in 1 .. i : conns[k] \notin S
  PROVE  i \in 1 .. Len(LeftWithout(S)) /\ LeftWithout(S)[i] = conns[i]
<1> DEFINE T == {k \in Staying(S) : k <= i}
<1>1. T = 1 .. i
  BY DEF Staying
<1>2. Rank(S, i) = Cardinality(T)
  BY DEF Rank
<1> HIDE DEF T
<1>4. i \in Nat /\ Cardinality(1 .. i) = i
  <2>1. i \in Nat
    OBVIOUS
  <2> QED BY <2>1, UpTo
<1>3. i \in Staying(S)
  BY DEF Staying
<1> QED BY <1>1, <1>2, <1>3, <1>4, LeftAt, StayingIsFinite

-----------------------------------------------------------------------------
(* The list, the broadcast that walks it, and what it owes.                *)

Casts == [at : Nat, list : Nat, dead : SUBSET Sockets]

\* While the list a broadcast walks is there, whom it owes the event is in
\* it, and whom it has passed has heard of it; a list that was thrown away
\* leaves nobody it owes the event.
CastInv ==
  /\ cast \in Casts /\ listObject \in Nat /\ events \in Nat
  /\ cast # NoCast => cast.list <= listObject /\ cast.at >= 1
  /\ cast # NoCast /\ cast.list = listObject =>
       /\ owed \subseteq ToSet(conns)
       /\ ~shifted => /\ cast.at <= Len(conns) + 1
                      /\ \A i \in 1 .. Len(conns) : i < cast.at => conns[i] \in heard \cup gone
  /\ cast # NoCast /\ cast.list # listObject => owed = {}

WalkInv == ConnsInv /\ CastInv

\* At first nobody listens.
LEMMA InitWalks == FeedInit => WalkInv
BY DEF FeedInit, WalkInv, ConnsInv, CastInv, Casts, NoCast, Once, ToSet

\* What disconnecting leaves of the list.
LEMMA DisconnectKeepsList ==
  ASSUME WalkInv, NEW S,
         conns' = LeftWithout(S),
         endpoint' \in [Sockets -> {"none", "accepted", "listening", "dropped", "ended"}],
         \A s \in Sockets \ S : endpoint'[s] = endpoint[s]
  PROVE  ConnsInv'
<1>1. ConnsInv
  BY DEF WalkInv
<1>2. conns' \in Seq(Sockets) /\ Once(conns')
  BY <1>1, LeftElements
<1>3. ASSUME NEW i \in 1 .. Len(conns') PROVE endpoint'[conns'[i]] = "listening"
  <2>1. PICK k \in Staying(S) : conns'[i] = conns[k]
    BY <1>1, LeftFrom DEF ConnsInv
  <2> QED BY <1>1, <2>1 DEF Staying, ConnsInv
<1> QED BY <1>2, <1>3 DEF ConnsInv, Once

\* Who disconnects takes nobody from the way of a broadcast that it has not
\* passed.
LEMMA DisconnectKeepsCast ==
  ASSUME WalkInv, NEW S,
         conns' = LeftWithout(S), listObject' = ListAfter(LeftWithout(S)),
         LeaveUnderCast(S), UNCHANGED <<cast, events, heard, gone>>
  PROVE  CastInv'
<1>1. ConnsInv /\ CastInv
  BY DEF WalkInv
<1>2. listObject' \in {listObject, listObject + 1} /\ listObject' \in Nat
  BY <1>1 DEF ListAfter, CastInv
<1>3. cast # NoCast => cast.list <= listObject'
  BY <1>1, <1>2 DEF CastInv, Casts
<1>4. ToSet(conns') = ToSet(conns) \ S
  BY <1>1, LeftElements
<1>5. ASSUME cast # NoCast, cast.list = listObject'
      PROVE  /\ owed' \subseteq ToSet(conns')
             /\ ~shifted' =>
                  /\ cast.at <= Len(conns') + 1
                  /\ \A i \in 1 .. Len(conns') : i < cast.at => conns'[i] \in heard \cup gone
  <2>1. cast.list = listObject /\ listObject' = listObject
    BY <1>1, <1>2, <1>5 DEF CastInv
  <2>2. owed' \subseteq ToSet(conns')
    BY <1>1, <1>4, <1>5, <2>1 DEF LeaveUnderCast, CastInv
  <2>3. ASSUME ~shifted', NEW i \in 1 .. Len(conns'), i < cast.at PROVE conns'[i] \in heard \cup gone
    <3>1. ~shifted /\ \A k \in 1 .. Len(conns) : k < cast.at => conns[k] \notin S
      BY <2>1, <2>3 DEF LeaveUnderCast, Passed
    <3>2. cast.at \in Nat /\ Len(conns) \in Nat /\ conns \in Seq(Sockets)
      BY <1>1 DEF CastInv, Casts, ConnsInv
    <3>3. i \in 1 .. Len(conns)
      <4>1. PICK k \in Staying(S) : Rank(S, k) = i
        BY <3>2, LeftFrom
      <4>2. Len(conns') <= Len(conns)
        <5>1. Staying(S) \in SUBSET (1 .. Len(conns))
          BY DEF Staying
        <5>2. IsFiniteSet(1 .. Len(conns)) /\ Cardinality(1 .. Len(conns)) = Len(conns)
          BY <3>2, UpTo
        <5>3. Cardinality(Staying(S)) <= Len(conns)
          BY <5>1, <5>2, FS_Subset
        <5> QED BY <3>2, <5>3, LeftAt
      <4> QED BY <3>2, <4>2, LeftAt, StayingIsFinite
    <3>4. \A k \in 1 .. i : conns[k] \notin S
      BY <2>3, <3>1, <3>2, <3>3
    <3>5. conns'[i] = conns[i]
      BY <3>2, <3>3, <3>4, LeftPrefix
    <3> QED BY <1>1, <1>5, <2>1, <2>3, <3>1, <3>3, <3>5 DEF CastInv
  <2>4. ASSUME ~shifted' PROVE cast.at <= Len(conns') + 1
    <3>1. /\ ~shifted /\ cast.at \in Nat /\ cast.at >= 1 /\ cast.at <= Len(conns) + 1
          /\ \A k \in 1 .. Len(conns) : k < cast.at => conns[k] \notin S
      BY <1>1, <1>5, <2>1, <2>4 DEF LeaveUnderCast, Passed, CastInv, Casts
    <3>2. conns \in Seq(Sockets) /\ Len(conns) \in Nat /\ Len(conns') \in Nat
      BY <1>1, LeftAt, StayingIsFinite DEF ConnsInv
    <3>3. CASE cast.at > 1
      <4>1. cast.at - 1 \in 1 .. Len(conns) /\ \A k \in 1 .. cast.at - 1 : conns[k] \notin S
        BY <3>1, <3>2, <3>3
      <4>2. cast.at - 1 \in 1 .. Len(conns')
        BY <3>2, <4>1, LeftPrefix
      <4> QED BY <3>1, <3>2, <4>2
    <3> QED BY <3>1, <3>2, <3>3
  <2> QED BY <2>2, <2>3, <2>4
<1>6. ASSUME cast # NoCast, cast.list # listObject' PROVE owed' = {}
  <2>1. CASE cast.list # listObject
    BY <1>1, <1>6, <2>1 DEF CastInv, LeaveUnderCast
  <2>2. CASE cast.list = listObject
    <3>1. LeftWithout(S) = <<>>
      BY <1>6, <2>2 DEF ListAfter
    <3>2. ToSet(conns) \subseteq S
      BY <1>4, <3>1 DEF ToSet
    <3> QED BY <1>1, <1>6, <2>2, <3>2 DEF CastInv, LeaveUnderCast
  <2> QED BY <2>1, <2>2
<1> QED BY <1>1, <1>2, <1>3, <1>5, <1>6 DEF CastInv

\* A broadcast goes on to the next place.
LEMMA CastMoves ==
  ASSUME NEW q \in Casts, NEW d \in SUBSET Sockets
  PROVE  LET r == [q EXCEPT !.at = q.at + 1, !.dead = d]
         IN  r \in Casts /\ r.at = q.at + 1 /\ r.list = q.list
<1> DEFINE r == [q EXCEPT !.at = q.at + 1, !.dead = d]
<1>1. q.at \in Nat /\ q.at + 1 \in Nat /\ q.list \in Nat
  BY DEF Casts
<1>2. r.at = q.at + 1 /\ r.list = q.list /\ r.dead = d
  BY DEF Casts
<1>3. r \in Casts
  BY <1>1 DEF Casts
<1> QED BY <1>2, <1>3

\* Every step keeps those ahead of a broadcast on its way.
LEMMA NextWalks == WalkInv /\ [FeedNext]_feedVars => WalkInv'
<1> SUFFICES ASSUME WalkInv, [FeedNext]_feedVars PROVE WalkInv'
  OBVIOUS
<1>0. ConnsInv /\ CastInv
  BY DEF WalkInv
<1>1. ASSUME NEW s \in Sockets, Accepts(s) PROVE WalkInv'
  <2>1. ConnsInv'
    BY <1>0, <1>1 DEF Accepts, ConnsInv, Once
  <2>2. CastInv'
    BY <1>0, <1>1 DEF Accepts, CastInv, castVars
  <2> QED BY <2>1, <2>2 DEF WalkInv
<1>2. ASSUME NEW s \in Sockets, Connects(s) PROVE WalkInv'
  <2>1. /\ conns \in Seq(Sockets) /\ conns' = Append(conns, s) /\ conns' \in Seq(Sockets)
        /\ Len(conns') = Len(conns) + 1 /\ Len(conns) \in Nat
        /\ conns'[Len(conns) + 1] = s /\ \A i \in 1 .. Len(conns) : conns'[i] = conns[i]
    BY <1>0, <1>2 DEF Connects, ConnsInv
  <2>2. \A i \in 1 .. Len(conns) : conns[i] # s
    BY <1>0, <1>2 DEF Connects, ConnsInv
  <2>3. Once(conns')
    BY <1>0, <2>1, <2>2 DEF ConnsInv, Once
  <2>4. endpoint' = [endpoint EXCEPT ![s] = "listening"]
    BY <1>2 DEF Connects
  <2>5. \A i \in 1 .. Len(conns') : endpoint'[conns'[i]] = "listening"
    BY <1>0, <2>1, <2>2, <2>4 DEF ConnsInv
  <2>6. ConnsInv'
    BY <1>0, <2>1, <2>3, <2>4, <2>5 DEF ConnsInv, Once
  <2>7. ToSet(conns) \subseteq ToSet(conns')
    BY <2>1 DEF ToSet
  <2>8. UNCHANGED <<listObject, gone, cast, events, owed, heard, shifted>>
    BY <1>2 DEF Connects, castVars
  <2>9. ASSUME cast # NoCast, cast.list = listObject, ~shifted
        PROVE  /\ cast.at <= Len(conns') + 1
               /\ \A i \in 1 .. Len(conns') : i < cast.at => conns'[i] \in heard \cup gone
    <3>1. cast.at <= Len(conns) + 1 /\ cast.at \in Nat
      BY <1>0, <2>9 DEF CastInv, Casts
    <3>2. \A i \in 1 .. Len(conns') : i < cast.at => i \in 1 .. Len(conns)
      BY <2>1, <3>1
    <3> QED BY <1>0, <2>1, <2>9, <3>1, <3>2 DEF CastInv
  <2>10. CastInv'
    BY <1>0, <2>7, <2>8, <2>9 DEF CastInv
  <2> QED BY <2>6, <2>10 DEF WalkInv
<1>3. ASSUME NEW s \in Sockets, PeerLeaves(s) PROVE WalkInv'
  BY <1>0, <1>3 DEF PeerLeaves, castVars, WalkInv, ConnsInv, CastInv, Once
<1>4. ASSUME NEW s \in Sockets, EndpointEnds(s) PROVE WalkInv'
  BY <1>0, <1>4, DisconnectKeepsList, DisconnectKeepsCast DEF EndpointEnds, WalkInv, ConnsInv
<1>5. ASSUME NEW s \in Sockets, PongArrives(s) PROVE WalkInv'
  BY <1>0, <1>5 DEF PongArrives, castVars, WalkInv, ConnsInv, CastInv, Once
<1>6. CASE CastBegins
  <2>1. cast' \in Casts /\ cast'.at = 1 /\ cast'.list = listObject
    BY <1>0, <1>6 DEF CastBegins, CastInv, Casts
  <2> QED BY <1>0, <1>6, <2>1 DEF CastBegins, keeperVars, WalkInv, ConnsInv, CastInv, Once
<1>7. CASE CastSends
  <2> DEFINE s == conns[cast.at]
             d == IF s \in gone THEN cast.dead \cup {s} ELSE cast.dead
  <2>1. cast \in Casts /\ cast.at >= 1 /\ cast.list = listObject /\ cast.at \in 1 .. Len(conns) /\ s \in Sockets
    BY <1>0, <1>7 DEF CastSends, CastGoesOn, ConnsInv, CastInv, Casts
  <2>2. /\ cast' \in Casts /\ cast'.at = cast.at + 1 /\ cast'.list = cast.list
        /\ heard' \cup gone = heard \cup gone \cup {s}
    <3>1. cast' = [cast EXCEPT !.at = cast.at + 1, !.dead = d]
      BY <1>7 DEF CastSends, NextIndex
    <3>2. d \in SUBSET Sockets
      BY <2>1 DEF Casts
    <3>3. heard' = IF s \in gone THEN heard ELSE heard \cup {s}
      BY <1>7 DEF CastSends
    <3> HIDE DEF d
    <3>4. cast' \in Casts /\ cast'.at = cast.at + 1 /\ cast'.list = cast.list
      BY <2>1, <3>1, <3>2, CastMoves
    <3> QED BY <3>3, <3>4
  <2> HIDE DEF s
  <2>3. \A i \in 1 .. Len(conns) : i < cast'.at => i < cast.at \/ conns[i] = s
    BY <2>1, <2>2 DEF s, Casts
  <2> QED BY <1>0, <1>7, <2>1, <2>2, <2>3 DEF CastSends, CastGoesOn, keeperVars, WalkInv, ConnsInv, CastInv, Once
<1>8. CASE CastEnds
  <2>1. ConnsInv'
    <3>1. conns' = LeftWithout(cast.dead)
          /\ endpoint' = [s \in Sockets |-> IF s \in cast.dead /\ endpoint[s] = "listening"
                                           THEN "dropped" ELSE endpoint[s]]
      BY <1>8 DEF CastEnds, Disconnects
    <3> QED BY <1>0, <3>1, DisconnectKeepsList DEF ConnsInv
  <2>2. CastInv'
    BY <1>0, <1>8 DEF CastEnds, Disconnects, ListAfter, CastInv, NoCast, Casts
  <2> QED BY <2>1, <2>2 DEF WalkInv
<1>9. CASE KeeperEndsRound
  BY <1>0, <1>9, DisconnectKeepsList, DisconnectKeepsCast DEF KeeperEndsRound, Disconnects, WalkInv, ConnsInv
<1>10. CASE \/ KeeperWakes \/ KeeperClears \/ KeeperCannotSend
            \/ KeeperIsAnswered \/ KeeperTimesOut \/ UNCHANGED feedVars
  <2>1. UNCHANGED <<conns, listObject, endpoint, gone, cast, events, owed, heard, shifted>>
    BY <1>10 DEF KeeperWakes, KeeperClears, KeeperCannotSend, KeeperIsAnswered, KeeperTimesOut,
                 KeeperMovesOn, castVars, feedVars
  <2> QED BY <1>0, <2>1 DEF WalkInv, ConnsInv, CastInv, Once
<1> QED BY <1>1, <1>2, <1>3, <1>4, <1>5, <1>6, <1>7, <1>8, <1>9, <1>10 DEF FeedNext

\* A broadcast that nobody it had passed left reaches all who were listening
\* from its begin to its end, for any number of listeners.
THEOREM AllListenersHear == FeedSpec => []ListenersHear
<1>1. WalkInv => ListenersHear
  <2> SUFFICES ASSUME WalkInv, cast # NoCast, ~CastGoesOn, ~shifted, NEW s \in owed
               PROVE  s \in heard \cup gone
    BY DEF ListenersHear
  <2>1. ConnsInv /\ CastInv
    BY DEF WalkInv
  <2>2. cast.list = listObject /\ s \in ToSet(conns)
    BY <2>1 DEF CastInv
  <2>3. PICK i \in 1 .. Len(conns) : conns[i] = s
    BY <2>1, <2>2 DEF ToSet, ConnsInv
  <2>4. i < cast.at
    BY <2>1, <2>2, <2>3 DEF CastGoesOn, CastInv, Casts
  <2> QED BY <2>1, <2>2, <2>3, <2>4 DEF CastInv
<1> QED BY InitWalks, NextWalks, <1>1, PTL DEF FeedSpec

-----------------------------------------------------------------------------
(* The pings.                                                              *)

Keepers == [at : {"none", "asleep", "clearing", "pinging"}, todo : Seq(Sockets),
            waits : BOOLEAN, dead : SUBSET Sockets]

\* A round comes to each listener once; while it waits for one, the event
\* tells whether the ping of this round was answered.
Decides(k, rest) ==
  /\ (pinged \cup k.dead) \cap ToSet(rest) = {}
  /\ k.dead \cap answered \subseteq gone /\ pinged \ k.dead \subseteq answered
PongInv ==
  /\ keeper \in Keepers /\ Once(keeper.todo)
  /\ keeper.at \in {"clearing", "pinging"} => Decides(keeper, keeper.todo)
  /\ keeper.at = "pinging" =>
       /\ keeper.todo # <<>>
       /\ keeper.waits => (Head(keeper.todo) \in ponged <=> Head(keeper.todo) \in answered)

FeedInv == WalkInv /\ PongInv

\* A task at rest has nothing to decide.
LEMMA RestingIsKeeper ==
  /\ NoKeeper \in Keepers /\ Asleep \in Keepers
  /\ NoKeeper.at = "none" /\ Asleep.at = "asleep" /\ NoKeeper.todo = <<>> /\ Asleep.todo = <<>>
<1>1. <<>> \in Seq(Sockets)
  OBVIOUS
<1>2. NoKeeper \in Keepers
  BY <1>1 DEF NoKeeper, Keepers
<1>3. Asleep = [NoKeeper EXCEPT !.at = "asleep"]
  BY DEF Asleep
<1>4. Asleep \in Keepers /\ Asleep.at = "asleep" /\ Asleep.todo = NoKeeper.todo
  BY <1>2, <1>3 DEF Keepers
<1> QED BY <1>2, <1>4 DEF NoKeeper

\* A task that comes to rest keeps the answers.
LEMMA RestDecides ==
  ASSUME keeper' \in {NoKeeper, Asleep} PROVE PongInv'
BY RestingIsKeeper DEF PongInv, Once

\* The first of a list without repetitions is not in its rest.
LEMMA HeadAndTail ==
  ASSUME NEW q \in Seq(Sockets), q # <<>>, Once(q)
  PROVE  /\ Head(q) \in Sockets /\ Head(q) \in ToSet(q)
         /\ Tail(q) \in Seq(Sockets) /\ Once(Tail(q))
         /\ ToSet(Tail(q)) \subseteq ToSet(q) \ {Head(q)}
<1>1. /\ Len(q) \in Nat /\ Len(q) >= 1 /\ Head(q) = q[1] /\ q[1] \in Sockets
      /\ Tail(q) \in Seq(Sockets) /\ Len(Tail(q)) = Len(q) - 1
      /\ \A i \in 1 .. Len(Tail(q)) : Tail(q)[i] = q[i + 1]
  OBVIOUS
<1>2. \A i \in 1 .. Len(Tail(q)) : i + 1 \in 1 .. Len(q) /\ i + 1 # 1
  BY <1>1
<1>3. Once(Tail(q))
  BY <1>1, <1>2 DEF Once
<1>4. Head(q) \in ToSet(q)
  BY <1>1 DEF ToSet
<1>5. ASSUME NEW x \in ToSet(Tail(q)) PROVE x \in ToSet(q) \ {Head(q)}
  <2>1. PICK i \in 1 .. Len(Tail(q)) : Tail(q)[i] = x
    BY <1>1 DEF ToSet
  <2>2. x = q[i + 1] /\ i + 1 \in 1 .. Len(q) /\ 1 \in 1 .. Len(q) /\ i + 1 # 1
    BY <1>1, <1>2, <2>1
  <2>3. x # q[1]
    BY <2>2 DEF Once
  <2> QED BY <1>1, <2>2, <2>3 DEF ToSet
<1> QED BY <1>1, <1>3, <1>4, <1>5

\* The task goes on with the next listener.
LEMMA MovingOnDecides ==
  ASSUME PongInv, NEW dead \in BOOLEAN, keeper.at = "pinging", KeeperMovesOn(dead),
         dead => (Head(keeper.todo) \in answered => Head(keeper.todo) \in gone),
         ~dead => (keeper.waits => Head(keeper.todo) \in answered)
  PROVE  PongInv'
<1> DEFINE s == Head(keeper.todo)
           d == IF dead THEN keeper.dead \cup {s} ELSE keeper.dead
<1>1. /\ keeper \in Keepers /\ keeper.todo \in Seq(Sockets) /\ keeper.todo # <<>> /\ Once(keeper.todo)
      /\ Decides(keeper, keeper.todo)
  BY DEF PongInv, Keepers
<1>2. /\ s \in Sockets /\ s \in ToSet(keeper.todo) /\ Tail(keeper.todo) \in Seq(Sockets)
      /\ Once(Tail(keeper.todo)) /\ ToSet(Tail(keeper.todo)) \subseteq ToSet(keeper.todo) \ {s}
  BY <1>1, HeadAndTail
<1>3. d \in SUBSET Sockets
  BY <1>1, <1>2 DEF Keepers
<1>4. /\ keeper' = [keeper EXCEPT !.at = "clearing", !.todo = Tail(keeper.todo), !.dead = d]
      /\ pinged' = IF keeper.waits THEN pinged \cup {s} ELSE pinged
      /\ UNCHANGED <<gone, answered, ponged>>
  BY DEF KeeperMovesOn
<1>5. d = IF dead THEN keeper.dead \cup {s} ELSE keeper.dead
  OBVIOUS
<1>6. /\ dead => (s \in answered => s \in gone)
      /\ ~dead => (keeper.waits => s \in answered)
  OBVIOUS
<1> HIDE DEF d, s
<1>7. keeper' \in Keepers /\ keeper'.at = "clearing" /\ keeper'.todo = Tail(keeper.todo) /\ keeper'.dead = d
  BY <1>1, <1>2, <1>3, <1>4 DEF Keepers
<1>8. (pinged' \cup d) \cap ToSet(Tail(keeper.todo)) = {}
  BY <1>1, <1>2, <1>4, <1>5 DEF Decides
<1>9. d \cap answered \subseteq gone /\ pinged' \ d \subseteq answered
  BY <1>1, <1>4, <1>5, <1>6 DEF Decides
<1> QED BY <1>2, <1>4, <1>7, <1>8, <1>9 DEF PongInv, Decides

\* Every step keeps the answers.
LEMMA NextDecides == FeedInv /\ [FeedNext]_feedVars => PongInv'
<1> SUFFICES ASSUME FeedInv, [FeedNext]_feedVars PROVE PongInv'
  OBVIOUS
<1>0. PongInv /\ ConnsInv
  BY DEF FeedInv, WalkInv
<1>1. ASSUME UNCHANGED <<keeper, ponged, answered, pinged>>, gone \subseteq gone' PROVE PongInv'
  BY <1>0, <1>1 DEF PongInv, Decides
<1>2. ASSUME NEW s \in Sockets, Connects(s) \/ EndpointEnds(s) PROVE PongInv'
  <2>1. keeper' \in {NoKeeper, Asleep, keeper} /\ UNCHANGED <<ponged, answered, pinged, gone>>
    BY <1>2 DEF Connects, EndpointEnds, KeeperAfter, castVars
  <2> QED BY <1>1, <2>1, RestDecides
<1>3. ASSUME NEW s \in Sockets, Accepts(s) \/ PeerLeaves(s) PROVE PongInv'
  BY <1>1, <1>3 DEF Accepts, PeerLeaves, keeperVars
<1>4. ASSUME NEW s \in Sockets, PongArrives(s) PROVE PongInv'
  <2>1. /\ keeper.at = "pinging" /\ keeper.todo # <<>> /\ Head(keeper.todo) = s
        /\ ponged' = ponged \cup {s} /\ answered' = answered \cup {s} /\ UNCHANGED <<keeper, gone, pinged>>
    BY <1>4 DEF PongArrives
  <2>2. s \in ToSet(keeper.todo)
    BY <1>0, <2>1, HeadAndTail DEF PongInv, Keepers
  <2>3. s \notin keeper.dead
    BY <1>0, <2>1, <2>2 DEF PongInv, Decides
  <2> QED BY <1>0, <2>1, <2>3 DEF PongInv, Decides
<1>5. CASE CastBegins \/ CastSends \/ UNCHANGED feedVars
  BY <1>1, <1>5 DEF CastBegins, CastSends, keeperVars, feedVars
<1>6. CASE CastEnds
  <2>1. keeper' \in {NoKeeper, keeper} /\ UNCHANGED <<ponged, answered, pinged, gone>>
    BY <1>6 DEF CastEnds, KeeperAfter
  <2> QED BY <1>1, <2>1, RestDecides
<1>7. CASE KeeperWakes
  <2>1. keeper' = [Asleep EXCEPT !.at = "clearing", !.todo = conns] /\ answered' = {} /\ pinged' = {}
    BY <1>7 DEF KeeperWakes
  <2>2. keeper'.at = "clearing" /\ keeper'.todo = conns /\ keeper'.dead = {} /\ keeper' \in Keepers
    BY <1>0, <2>1 DEF Asleep, NoKeeper, Keepers, ConnsInv
  <2> QED BY <1>0, <2>1, <2>2 DEF PongInv, Decides, ConnsInv
<1>8. CASE KeeperClears
  <2> DEFINE s == Head(keeper.todo)
  <2>1. /\ keeper.at = "clearing" /\ keeper.todo # <<>> /\ UNCHANGED <<gone, pinged>>
        /\ ponged' = ponged \ ({s} \cap ponging) /\ answered' = answered \ {s}
        /\ keeper' = [keeper EXCEPT !.at = "pinging", !.waits = s \in ponging]
    BY <1>8 DEF KeeperClears, ClearsEvent
  <2>2. s \in ToSet(keeper.todo)
    BY <1>0, <2>1, HeadAndTail DEF PongInv, Keepers
  <2>3. (s \in ponging) \in BOOLEAN
    OBVIOUS
  <2> HIDE DEF s
  <2>4. /\ keeper' \in Keepers /\ keeper'.at = "pinging" /\ keeper'.todo = keeper.todo
        /\ keeper'.dead = keeper.dead /\ (keeper'.waits <=> s \in ponging)
    BY <1>0, <2>1, <2>3 DEF PongInv, Keepers
  <2>5. s \notin pinged
    BY <1>0, <2>1, <2>2 DEF PongInv, Decides
  <2>6. Decides(keeper, keeper.todo)'
    BY <1>0, <2>1, <2>4, <2>5 DEF PongInv, Decides
  <2>7. keeper'.waits => (s \in ponged' <=> s \in answered')
    BY <2>1, <2>4
  <2> QED BY <1>0, <2>1, <2>4, <2>6, <2>7 DEF PongInv, Decides, s
<1>9. CASE KeeperCannotSend
  BY <1>0, <1>9, MovingOnDecides DEF KeeperCannotSend
<1>10. CASE KeeperIsAnswered
  BY <1>0, <1>10, MovingOnDecides DEF KeeperIsAnswered, Waiting, PongInv
<1>11. CASE KeeperTimesOut
  BY <1>0, <1>11, MovingOnDecides DEF KeeperTimesOut, Waiting, PongInv
<1>12. CASE KeeperEndsRound
  BY <1>12, RestDecides DEF KeeperEndsRound
<1> QED BY <1>2, <1>3, <1>4, <1>5, <1>6, <1>7, <1>8, <1>9, <1>10, <1>11, <1>12 DEF FeedNext

\* For any number of listeners and of rounds: an answer on time keeps a
\* listener, and silence loses it, whatever comes between the ping, the answer
\* and the end of the wait.
THEOREM AnswersDecide == FeedSpec => []PongDecides
<1>1. FeedInit => FeedInv
  <2>1. FeedInit => PongInv
    BY RestingIsKeeper DEF FeedInit, PongInv, Once
  <2> QED BY <2>1, InitWalks DEF FeedInv
<1>2. FeedInv /\ [FeedNext]_feedVars => FeedInv'
  BY NextWalks, NextDecides DEF FeedInv
<1>3. FeedInv => PongDecides
  BY DEF FeedInv, PongInv, PongDecides, Keepers, Decides
<1> QED BY <1>1, <1>2, <1>3, PTL DEF FeedSpec

-----------------------------------------------------------------------------
(* TransferView.                                                           *)

Statuses == {"none", "created", "running", "paused", "completed", "failed"}
Records  == [status : Statuses, imported : {0, 1}]
Views    == [sid : SessionIds \cup {0}, status : Statuses, imported : {0, 1}]
Events   == {"started", "paused", "completed"}

ViewTypeOK ==
  /\ rows \in [SessionIds -> Records] /\ highest \in Nat
  /\ known \in [SessionIds -> Records] /\ progress \in [SessionIds -> Records]
  /\ poll \in [SessionIds -> Records] /\ view \in Views /\ asked \in SessionIds \cup {0}
  /\ page \in {"transfer", "elsewhere"} /\ wire \in Seq(Events)
  /\ hydrated \in BOOLEAN /\ polled \in BOOLEAN /\ due \in BOOLEAN
  /\ linked \in BOOLEAN /\ overtaken \in BOOLEAN

\* An id was given if its row is there; a completed row has its count; the
\* window shows no session whose row is gone.
RowsInv ==
  /\ \A s \in SessionIds : /\ Exists(s) => s <= highest
                           /\ rows[s].status = "completed" => rows[s].imported = 1
  /\ Shown # 0 => Exists(Shown)

\* What was read of a session lags behind its row, and what is on its way is
\* not older than what has arrived.
EndedAs(r, row) == r.status \in Terminal => row.status \in Terminal
LagsBehind(r, row) ==
  /\ EndedAs(r, row) /\ r.imported <= row.imported /\ (r.status = "completed" => r.imported = 1)
ReadInv ==
  \A s \in SessionIds :
    /\ s \notin recycled => EndedAs(known[s], rows[s])
    /\ LagsBehind(progress[s], rows[s]) /\ LagsBehind(poll[s], rows[s])
    /\ poll[s] # NoRecord => progress[s].imported <= poll[s].imported

\* Only a mounted page has a link and an answer to show; an end that is on
\* the wire is that of the session shown.
LinkInv ==
  /\ linked \/ due => page = "transfer" /\ Shown # 0
  /\ ~linked => wire = <<>>
  /\ \A i \in 1 .. Len(wire) : wire[i] = "completed" => rows[Shown].status \in Terminal

EndInv ==
  view.status \in Terminal /\ Shown # 0 /\ Shown \notin recycled => rows[Shown].status \in Terminal

\* The count of a completed session is shown, is about to be, or is on its way.
CountInv ==
  /\ page = "transfer" /\ hydrated /\ polled /\ ~overtaken /\ Shown # 0 /\ Shown \notin recycled
  /\ view.status = "completed" /\ rows[Shown].status = "completed"
  => IF poll[Shown] # NoRecord THEN poll[Shown].imported = 1
     ELSE IF due THEN progress[Shown].imported = 1
     ELSE view.imported = 1

\* A guard of a session that waits is that of the request under way.
GuardInv ==
  \A s \in guarded :
    /\ s \in SessionIds /\ s <= highest
    /\ s \notin orphaned /\ rows[s].status = "created" => asked = s

ViewInv ==
  ViewTypeOK /\ RowsInv /\ ReadInv /\ LinkInv /\ EndInv /\ CountInv /\ GuardInv

USE DEF Shown

-----------------------------------------------------------------------------
(* The next id, and what the store makes of an answer.                     *)

LEMMA LeastNumber ==
  ASSUME NEW S \in SUBSET Nat, S # {}
  PROVE  \E m \in S : \A k \in S : m <= k
<1> DEFINE Less == {p \in Nat \X Nat : p[1] < p[2]}
<1>1. IsWellFoundedOn(Less, Nat)
  BY NatLessThanWellFounded, Zenon DEF OpToRel
<1>2. \A k, n \in Nat : k < n => <<k, n>> \in Less
  OBVIOUS
<1> HIDE DEF Less
<1>3. PICK m \in S : \A k \in S : <<k, m>> \notin Less
  BY <1>1, WFMin
<1>4. SUFFICES ASSUME NEW k \in S PROVE m <= k
  OBVIOUS
<1>5. k \in Nat /\ m \in Nat /\ ~(k < m)
  BY <1>2, <1>3
<1> QED BY <1>5

LEMMA MaxIsGreatest ==
  ASSUME NEW S \in SUBSET Nat, S # {}, NEW b \in Nat, \A k \in S : k <= b
  PROVE  Max(S) \in S /\ \A k \in S : k <= Max(S)
<1> DEFINE T == {b - k : k \in S}
<1>1. T \in SUBSET Nat /\ T # {}
  <2>1. ASSUME NEW k \in S PROVE b - k \in Nat
    <3>1. k \in Nat /\ k <= b
      OBVIOUS
    <3> QED BY <3>1
  <2>2. PICK k \in S : TRUE
    OBVIOUS
  <2> QED BY <2>1, <2>2
<1>2. PICK m \in T : \A t \in T : m <= t
  BY <1>1, LeastNumber
<1>3. PICK x \in S : m = b - x
  BY <1>2
<1>4. \A k \in S : b - x <= b - k
  BY <1>2, <1>3
<1>5. \A k \in S : x >= k
  BY <1>4
<1> QED BY <1>5 DEF Max

\* The id of a new session is not that of a row.
LEMMA NewIdIsFree ==
  ASSUME ViewInv, NewId \in SessionIds
  PROVE  /\ NewId \in Nat /\ rows[NewId] = NoRecord
         /\ Max({highest, NewId}) \in Nat
         /\ highest <= Max({highest, NewId}) /\ NewId <= Max({highest, NewId})
<1>0. SessionIds \subseteq Nat \ {0} /\ highest \in Nat /\ \A s \in SessionIds : Exists(s) => s <= highest
  BY ViewAssumption DEF ViewInv, ViewTypeOK, RowsInv
<1> DEFINE E == {s \in SessionIds : Exists(s)} \cup {0}
<1>1. E \in SUBSET Nat /\ 0 \in E /\ \A k \in E : k <= highest
  <2>1. ASSUME NEW k \in E PROVE k \in Nat /\ k <= highest
    <3>1. CASE k = 0
      BY <1>0, <3>1
    <3>2. CASE k \in SessionIds /\ Exists(k)
      <4>1. k <= highest /\ k \in Nat
        BY <1>0, <3>2
      <4> QED BY <4>1
    <3> QED BY <3>1, <3>2
  <2> QED BY <2>1
<1>2. Max(E) \in E /\ \A k \in E : k <= Max(E)
  <2> HIDE DEF E
  <2> QED BY <1>0, <1>1, MaxIsGreatest
<1>3. NewId = 1 + Max(E)
  BY DEF NewId
<1>4. NewId \notin E /\ NewId \in Nat
  <2> HIDE DEF E
  <2>1. Max(E) \in Nat
    BY <1>1, <1>2
  <2>2. \A k \in E : k <= Max(E) /\ k \in Nat
    BY <1>1, <1>2
  <2>3. 1 + Max(E) \in Nat /\ \A k \in E : k # 1 + Max(E)
    BY <2>1, <2>2
  <2> QED BY <1>3, <2>3
<1>5. \A k \in {highest, NewId} : k <= highest + NewId
  BY <1>0, <1>4
<1>6. Max({highest, NewId}) \in {highest, NewId} /\ \A k \in {highest, NewId} : k <= Max({highest, NewId})
  BY <1>0, <1>4, <1>5, MaxIsGreatest
<1> QED BY <1>0, <1>4, <1>6 DEF Exists

LEMMA PolledView ==
  ASSUME NEW s \in SessionIds, NEW v \in Views, NEW r \in Records
  PROVE  LET w == FromPolling(v, s, r)
         IN  /\ w \in Views /\ w.sid = s /\ w.imported = r.imported
             /\ w.status = IF v.status \in Terminal THEN v.status ELSE r.status
BY DEF FromPolling, Views, Records

LEMMA SessionView ==
  ASSUME NEW s \in SessionIds, NEW r \in Records
  PROVE  LET w == FromSession(s, r) IN w \in Views /\ w.sid = s /\ w.imported = 0 /\ w.status = r.status
BY DEF FromSession, Views, Records

\* The status of a page that is mounted is that of one of the answers.
LEMMA HydratedView ==
  ASSUME ViewTypeOK, NEW s \in SessionIds, NEW v \in Views, v.sid = s, NEW r \in Records
  PROVE  LET h == Hydrated(s, v, r)
         IN  /\ h \in Views /\ h.sid = s
             /\ h.status \in {IF r = NoRecord THEN v.status ELSE r.status, progress[s].status}
<1> DEFINE w == IF r = NoRecord THEN v ELSE FromSession(s, r)
<1>1. w \in Views /\ w.sid = s /\ w.status = IF r = NoRecord THEN v.status ELSE r.status
  BY SessionView
<1>2. progress[s] \in Records
  BY DEF ViewTypeOK
<1>3. Hydrated(s, v, r) = IF progress[s] = NoRecord THEN w ELSE FromPolling(w, s, progress[s])
  BY DEF Hydrated
<1> HIDE DEF w
<1> QED BY <1>1, <1>2, <1>3, PolledView

\* The page shows what it is mounted with.
LEMMA MountedView ==
  ASSUME ViewInv, NEW s, NEW v \in Views, v.sid = s, Mounts(s, v)
  PROVE  /\ view' \in Views /\ view'.sid = s
         /\ view'.status \in Terminal /\ s # 0 =>
              \/ v.status \in Terminal \/ known[s].status \in Terminal
              \/ progress[s].status \in Terminal
         /\ page' = "transfer" /\ polled' = FALSE /\ due' = FALSE /\ hydrated' \in BOOLEAN
         /\ guarded' \subseteq guarded
<1>1. s \in SessionIds \cup {0} /\ ViewTypeOK
  BY DEF Views, ViewInv
<1>2. /\ page' = "transfer" /\ polled' = FALSE /\ due' = FALSE /\ hydrated' \in BOOLEAN
      /\ guarded' \subseteq guarded
      /\ view' = IF s = 0 THEN v ELSE Hydrated(s, v, known[s])
  BY DEF Mounts, GuardedAfter
<1>3. CASE s = 0
  BY <1>2, <1>3
<1>4. CASE s # 0
  <2>1. s \in SessionIds /\ known[s] \in Records
    BY <1>1, <1>4 DEF ViewTypeOK
  <2>2. /\ view' \in Views /\ view'.sid = s
        /\ view'.status \in {IF known[s] = NoRecord THEN v.status ELSE known[s].status, progress[s].status}
    BY <1>1, <1>2, <1>4, <2>1, HydratedView
  <2> QED BY <1>2, <2>2
<1> QED BY <1>3, <1>4

-----------------------------------------------------------------------------
(* The steps of the engine.                                                *)

\* A row that is there goes on: it does not lose its end or its count, and an
\* event of it goes to the window that shows it.
RowStep(s, q) ==
  /\ Exists(s) /\ rows' = [rows EXCEPT ![s] = q] /\ q.status \notin {"none", "created"}
  /\ rows[s].status \in Terminal => q.status = "failed"
  /\ rows[s].imported <= q.imported /\ (q.status = "completed" => q.imported = 1)
  /\ \/ wire' = wire
     \/ \E e \in Events : /\ linked /\ Shown = s /\ wire' = Append(wire, e)
                          /\ e = "completed" => q.status = "completed"
  /\ asked' = asked \/ (asked = s /\ asked' = 0)
  /\ UNCHANGED <<highest, page, view, hydrated, polled, due, linked, known, progress, poll,
                 guarded, recycled, orphaned, overtaken>>

LEMMA EngineSteps ==
  ASSUME ViewInv, NEW s \in SessionIds,
         \/ (CancelSession \/ PauseSession) /\ s = Shown
         \/ StartSucceeds(s) \/ TaskEnds(s)
  PROVE  \E q \in Records : RowStep(s, q)
<1>1. rows[s] \in Records /\ rows \in [SessionIds -> Records] /\ view \in Views
  BY DEF ViewInv, ViewTypeOK
<1>2. rows[s].status # "none" => Exists(s)
  BY DEF Exists, NoRecord
<1>3. CASE (CancelSession \/ PauseSession) /\ s = Shown
  <2>1. PICK t \in {"paused", "failed"} : rows' = [rows EXCEPT ![s] = [rows[s] EXCEPT !.status = t]]
    BY <1>3 DEF CancelSession, PauseSession
  <2>2. Exists(s) /\ (t = "failed" \/ rows[s].status = "running")
    BY <1>1, <1>2, <1>3, <2>1 DEF CancelSession, PauseSession, Records
  <2> DEFINE q == [rows[s] EXCEPT !.status = t]
  <2>3. q \in Records /\ q.status = t /\ q.imported = rows[s].imported
    BY <1>1 DEF Records, Statuses
  <2>4. wire' = wire \/ (linked /\ wire' = Append(wire, "paused"))
    BY <1>3 DEF CancelSession, PauseSession, linkVars
  <2>5. UNCHANGED <<asked, highest, page, view, hydrated, polled, due, linked, known, progress, poll,
                    guarded, recycled, orphaned, overtaken>>
    BY <1>3 DEF CancelSession, PauseSession, startVars, pageVars, queryVars, linkVars, historyVars
  <2>6. /\ rows[s].status \in Terminal => q.status = "failed"
        /\ rows[s].imported <= q.imported
    BY <1>1, <2>2, <2>3 DEF Terminal, Records
  <2> HIDE DEF q
  <2>7. RowStep(s, q)
    BY <1>3, <2>1, <2>2, <2>3, <2>4, <2>5, <2>6 DEF RowStep, Events, q
  <2> QED BY <2>3, <2>7
<1>4. CASE StartSucceeds(s)
  <2> DEFINE q == [rows[s] EXCEPT !.status = "running"]
  <2>1. q \in Records /\ q.status = "running" /\ q.imported = rows[s].imported
    BY <1>1 DEF Records, Statuses
  <2>2. /\ rows' = [rows EXCEPT ![s] = q] /\ rows[s].status \in {"created", "paused"}
        /\ wire' = IF linked /\ Shown = s THEN Append(wire, "started") ELSE wire
        /\ asked' = IF asked = s THEN 0 ELSE asked
    BY <1>4 DEF StartSucceeds
  <2>3. UNCHANGED <<highest, page, view, hydrated, polled, due, linked, known, progress, poll,
                    guarded, recycled, orphaned, overtaken>>
    BY <1>4 DEF StartSucceeds, pageVars, queryVars, historyVars
  <2>4. rows[s].status \notin Terminal /\ rows[s].imported <= q.imported
    BY <1>1, <2>1, <2>2 DEF Terminal, Records
  <2> HIDE DEF q
  <2>5. RowStep(s, q)
    BY <1>2, <2>1, <2>2, <2>3, <2>4 DEF RowStep, Events
  <2> QED BY <2>1, <2>5
<1>5. CASE TaskEnds(s)
  <2>1. PICK q \in {[rows[s] EXCEPT !.status = "completed", !.imported = 1],
                    [rows[s] EXCEPT !.status = "failed"]} :
          /\ rows' = [rows EXCEPT ![s] = q]
          /\ wire' = wire \/ (linked /\ Shown = s /\ q.status = "completed" /\ wire' = Append(wire, "completed"))
    BY <1>1, <1>5 DEF TaskEnds, Records
  <2>2. /\ q \in Records /\ q.status \in Terminal /\ rows[s].imported <= q.imported
        /\ q.status = "completed" => q.imported = 1
    <3>1. CASE q = [rows[s] EXCEPT !.status = "completed", !.imported = 1]
      <4>1. q \in Records
        BY <1>1, <3>1 DEF Records, Statuses
      <4>2. q.status = "completed" /\ q.imported = 1 /\ rows[s].imported \in {0, 1}
        BY <1>1, <3>1 DEF Records
      <4> QED BY <4>1, <4>2 DEF Terminal
    <3>2. CASE q = [rows[s] EXCEPT !.status = "failed"]
      BY <1>1, <3>2 DEF Records, Statuses, Terminal
    <3> QED BY <2>1, <3>1, <3>2
  <2>3. UNCHANGED <<asked, highest, page, view, hydrated, polled, due, linked, known, progress, poll,
                    guarded, recycled, orphaned, overtaken>>
    BY <1>5 DEF TaskEnds, startVars, pageVars, queryVars, historyVars
  <2>4. rows[s].status \in {"running", "paused"}
    BY <1>5 DEF TaskEnds
  <2>5. RowStep(s, q)
    BY <1>2, <2>1, <2>2, <2>3, <2>4 DEF RowStep, Events, Terminal
  <2> QED BY <2>2, <2>5
<1> QED BY <1>3, <1>4, <1>5

LEMMA EngineKeeps ==
  ASSUME ViewInv, NEW s \in SessionIds, NEW q \in Records, RowStep(s, q) PROVE ViewInv'
<1>1. /\ ViewTypeOK /\ rows' = [rows EXCEPT ![s] = q] /\ rows \in [SessionIds -> Records]
      /\ view \in Views
  BY DEF ViewInv, ViewTypeOK, RowStep
<1>2. /\ \A r \in SessionIds : r # s => rows'[r] = rows[r]
      /\ rows'[s] = q
      /\ \A r \in SessionIds : EndedAs(rows[r], rows'[r]) /\ rows[r].imported <= rows'[r].imported
  BY <1>1 DEF RowStep, EndedAs, Records, Terminal
<1>3. UNCHANGED <<highest, page, view, hydrated, polled, due, linked, known, progress, poll,
                  guarded, recycled, orphaned, overtaken>>
  BY DEF RowStep
<1>4. ViewTypeOK'
  <2>1. wire' \in Seq(Events)
    BY <1>1 DEF RowStep, ViewTypeOK
  <2>2. asked' \in SessionIds \cup {0}
    BY <1>1 DEF RowStep, ViewTypeOK
  <2> QED BY <1>1, <1>3, <2>1, <2>2 DEF ViewTypeOK
<1>5. RowsInv'
  BY <1>1, <1>2, <1>3 DEF ViewInv, RowsInv, RowStep, Exists, NoRecord
<1>6. ReadInv'
  <2> SUFFICES ASSUME NEW r \in SessionIds
               PROVE  /\ r \notin recycled => EndedAs(known[r], rows'[r])
                      /\ LagsBehind(progress[r], rows'[r]) /\ LagsBehind(poll[r], rows'[r])
                      /\ poll[r] # NoRecord => progress[r].imported <= poll[r].imported
    BY <1>3 DEF ReadInv
  <2>1. /\ r \notin recycled => EndedAs(known[r], rows[r])
        /\ LagsBehind(progress[r], rows[r]) /\ LagsBehind(poll[r], rows[r])
        /\ poll[r] # NoRecord => progress[r].imported <= poll[r].imported
    BY DEF ViewInv, ReadInv
  <2>2. /\ progress[r].imported \in Int /\ poll[r].imported \in Int
        /\ rows[r].imported \in Int /\ rows'[r].imported \in Int
    BY <1>1, <1>4 DEF ViewTypeOK, Records
  <2> QED BY <1>2, <2>1, <2>2 DEF EndedAs, LagsBehind
<1>7. LinkInv'
  <2>1. LinkInv
    BY DEF ViewInv
  <2>2. ~linked' => wire' = <<>>
    BY <1>3, <2>1 DEF LinkInv, RowStep
  <2>3. Shown # 0 => Shown \in SessionIds
    BY <1>1 DEF Views
  <2>4. ASSUME NEW i \in 1 .. Len(wire'), wire'[i] = "completed" PROVE rows'[Shown].status \in Terminal
    <3>1. CASE i \in 1 .. Len(wire) /\ wire'[i] = wire[i]
      <4>1. linked /\ Shown # 0 /\ rows[Shown].status \in Terminal
        BY <2>1, <2>4, <3>1 DEF LinkInv
      <4> QED BY <1>2, <2>3, <4>1 DEF EndedAs
    <3>2. CASE ~(i \in 1 .. Len(wire) /\ wire'[i] = wire[i])
      <4>1. PICK e \in Events : /\ linked /\ Shown = s /\ wire' = Append(wire, e)
                                /\ e = "completed" => q.status = "completed"
        BY <2>4, <3>2 DEF RowStep
      <4>2. wire \in Seq(Events)
        BY <1>1 DEF ViewTypeOK
      <4>3. i = Len(wire) + 1 /\ wire'[i] = e
        BY <2>4, <3>2, <4>1, <4>2
      <4> QED BY <1>2, <2>4, <4>1, <4>3 DEF Terminal
    <3> QED BY <3>1, <3>2
  <2> QED BY <1>3, <2>1, <2>2, <2>4 DEF LinkInv
<1>8. EndInv'
  <2>1. EndInv /\ (Shown # 0 => Shown \in SessionIds)
    BY <1>1 DEF ViewInv, Views
  <2> QED BY <1>2, <1>3, <2>1 DEF EndInv, EndedAs
<1>9. CountInv'
  <2> SUFFICES ASSUME page = "transfer", hydrated, polled, ~overtaken, Shown # 0, Shown \notin recycled,
                      view.status = "completed", rows'[Shown].status = "completed"
               PROVE  rows[Shown].status = "completed"
    <3>1. CountInv
      BY DEF ViewInv
    <3> QED BY <1>3, <3>1 DEF CountInv
  <2>1. rows[Shown].status \in Terminal /\ Shown \in SessionIds
    BY <1>1 DEF ViewInv, EndInv, Terminal, Views
  <2>2. Shown # s
    BY <1>2, <2>1 DEF RowStep
  <2> QED BY <1>2, <2>1, <2>2
<1>10. GuardInv'
  <2>1. GuardInv
    BY DEF ViewInv
  <2> QED BY <1>1, <1>2, <1>3, <2>1 DEF GuardInv, RowStep
<1> QED BY <1>4, <1>5, <1>6, <1>7, <1>8, <1>9, <1>10 DEF ViewInv

-----------------------------------------------------------------------------
(* Starting a session.                                                     *)

\* A guard is set with its request; it is dropped with the answer, unless
\* nobody waits for that any more.
LEMMA StartsKeep ==
  ASSUME ViewInv,
         AutoStart \/ UserStarts \/ StartTimesOut \/ \E s \in SessionIds : StartIsRefused(s)
  PROVE  ViewInv'
<1>1. /\ ViewTypeOK /\ GuardInv /\ view.sid \in SessionIds \cup {0}
      /\ view.sid # 0 => view.sid <= highest
  BY DEF ViewInv, ViewTypeOK, Views, RowsInv
<1>2. UNCHANGED <<rows, highest, page, view, hydrated, known, progress, poll, polled, due, linked,
                  wire, recycled, overtaken>>
  BY DEF AutoStart, UserStarts, StartTimesOut, StartIsRefused, Asks, engineVars, pageVars,
         queryVars, linkVars, historyVars
<1>3. asked' \in SessionIds \cup {0} /\ GuardInv'
  <2>1. CASE AutoStart \/ UserStarts
    <3>1. /\ Shown # 0 /\ asked' = Shown
          /\ orphaned' = IF asked = 0 THEN orphaned ELSE orphaned \cup {asked}
      BY <2>1 DEF AutoStart, UserStarts, Asks, LosesCallbacks
    <3>2. guarded' \in {guarded, guarded \cup {Shown}}
      BY <2>1 DEF AutoStart, UserStarts
    <3>3. ASSUME NEW s \in guarded'
          PROVE  /\ s \in SessionIds /\ s <= highest
                 /\ s \notin orphaned' /\ rows[s].status = "created" => asked' = s
      <4>1. CASE s = Shown
        BY <1>1, <3>1, <4>1
      <4>2. CASE s # Shown
        <5>1. /\ s \in SessionIds /\ s <= highest
              /\ s \notin orphaned /\ rows[s].status = "created" => asked = s
          BY <1>1, <3>2, <3>3, <4>2 DEF GuardInv
        <5>2. s # 0
          BY <5>1, ViewAssumption
        <5> QED BY <3>1, <5>1, <5>2
      <4> QED BY <4>1, <4>2
    <3> QED BY <1>1, <1>2, <3>1, <3>3 DEF GuardInv
  <2>2. CASE StartTimesOut \/ \E s \in SessionIds : StartIsRefused(s)
    <3>1. /\ asked' \in {asked, 0} /\ orphaned' = orphaned /\ guarded' \subseteq guarded
          /\ asked' # asked => asked \notin guarded'
      BY <2>2 DEF StartTimesOut, StartIsRefused, GuardAfterError, historyVars
    <3> QED BY <1>1, <1>2, <3>1 DEF GuardInv, ViewTypeOK
  <2> QED BY <2>1, <2>2
<1>4. ViewTypeOK' /\ RowsInv' /\ ReadInv' /\ LinkInv' /\ EndInv' /\ CountInv'
  BY <1>2, <1>3 DEF ViewInv, ViewTypeOK, RowsInv, Exists, ReadInv, EndedAs, LagsBehind, LinkInv,
                    EndInv, CountInv
<1> QED BY <1>3, <1>4 DEF ViewInv

-----------------------------------------------------------------------------
(* Pages and links.                                                        *)

LEMMA LeavingKeeps ==
  ASSUME ViewInv, LeavePage \/ CancelAnswered PROVE ViewInv'
<1>1. /\ page' = "elsewhere" /\ hydrated' = FALSE /\ polled' = FALSE /\ due' = FALSE
      /\ linked' = FALSE /\ wire' = <<>> /\ asked' = 0 /\ LosesCallbacks
      /\ UNCHANGED <<rows, highest, known, progress, poll, guarded, recycled>>
      /\ view' \in {view, NoView} /\ overtaken' \in {overtaken, FALSE}
  BY DEF LeavePage, CancelAnswered, Unmounts, engineVars, queryVars
<1>2. ViewTypeOK'
  <2>1. view' \in Views /\ <<>> \in Seq(Events)
    BY <1>1 DEF ViewInv, ViewTypeOK, NoView, Views, Statuses
  <2> QED BY <1>1, <2>1 DEF ViewInv, ViewTypeOK
<1>5. ReadInv' /\ LinkInv' /\ CountInv'
  BY <1>1 DEF ViewInv, ReadInv, EndedAs, LagsBehind, LinkInv, CountInv
<1>3. RowsInv' /\ EndInv'
  BY <1>1 DEF ViewInv, RowsInv, EndInv, Exists, NoView
<1>4. GuardInv'
  <2>1. GuardInv /\ orphaned' = IF asked = 0 THEN orphaned ELSE orphaned \cup {asked}
    BY <1>1 DEF ViewInv, LosesCallbacks
  <2>2. \A s \in SessionIds : s # 0
    BY ViewAssumption
  <2> QED BY <1>1, <2>1, <2>2 DEF GuardInv
<1> QED BY <1>2, <1>3, <1>4, <1>5 DEF ViewInv

LEMMA LinksKeep ==
  ASSUME ViewInv, Links \/ LinkBreaks PROVE ViewInv'
<1>1. /\ UNCHANGED <<rows, highest, page, view, hydrated, known, progress, poll, polled, due, asked,
                     guarded, recycled, orphaned, overtaken>>
      /\ \/ linked' = TRUE /\ wire' = wire /\ page = "transfer" /\ Shown # 0
         \/ linked' = FALSE /\ wire' = <<>>
  BY DEF Links, LinkBreaks, engineVars, startVars, pageVars, queryVars, historyVars
<1>2. ViewTypeOK'
  <2>1. wire \in Seq(Events) /\ <<>> \in Seq(Events)
    BY DEF ViewInv, ViewTypeOK
  <2>2. wire' \in Seq(Events) /\ linked' \in BOOLEAN
    BY <1>1, <2>1
  <2> QED BY <1>1, <2>2 DEF ViewInv, ViewTypeOK
<1>3. LinkInv'
  BY <1>1 DEF ViewInv, LinkInv
<1> QED BY <1>1, <1>2, <1>3 DEF ViewInv, RowsInv, Exists, ReadInv, EndedAs, LagsBehind, EndInv,
                                CountInv, GuardInv

\* A page that is mounted shows no end that is not real.
LEMMA MountsKeep ==
  ASSUME ViewInv, OpenPage \/ \E s \in SessionIds : OpenSession(s) PROVE ViewInv'
<1>1. /\ UNCHANGED <<rows, highest, known, progress, poll, linked, wire, asked, recycled, orphaned>>
      /\ page = "elsewhere" /\ overtaken' = FALSE
  BY DEF OpenPage, OpenSession, engineVars, startVars, queryVars, linkVars
<1> DEFINE Real(s, v) ==
             /\ v.sid = s /\ Mounts(s, v) /\ (s # 0 => Exists(s))
             /\ v.status \in Terminal /\ s # 0 /\ s \notin recycled => rows[s].status \in Terminal
<1>2. \E s \in SessionIds \cup {0}, v \in Views : Real(s, v)
  <2>1. CASE OpenPage
    <3>1. view \in Views /\ Shown \in SessionIds \cup {0} /\ Mounts(Shown, view)
      BY <2>1 DEF OpenPage, ViewInv, ViewTypeOK, Views
    <3>2. Real(Shown, view)
      BY <3>1 DEF ViewInv, RowsInv, EndInv
    <3> QED BY <3>1, <3>2
  <2>2. ASSUME NEW s \in SessionIds, OpenSession(s) PROVE \E v \in Views : Real(s, v)
    <3>1. rows[s] \in Records /\ rows[s].status # "none" /\ Mounts(s, FromSession(s, rows[s]))
      BY <2>2 DEF OpenSession, ViewInv, ViewTypeOK
    <3>2. Exists(s)
      BY <3>1 DEF Exists, NoRecord
    <3>3. FromSession(s, rows[s]) \in Views /\ FromSession(s, rows[s]).sid = s
          /\ FromSession(s, rows[s]).status = rows[s].status
      BY <3>1, SessionView
    <3> QED BY <3>1, <3>2, <3>3
  <2> QED BY <2>1, <2>2
<1>3. PICK s \in SessionIds \cup {0}, v \in Views : Real(s, v)
  BY <1>2
<1>4. /\ view' \in Views /\ view'.sid = s
      /\ view'.status \in Terminal /\ s # 0 =>
           \/ v.status \in Terminal \/ known[s].status \in Terminal \/ progress[s].status \in Terminal
      /\ page' = "transfer" /\ polled' = FALSE /\ due' = FALSE /\ hydrated' \in BOOLEAN
      /\ guarded' \subseteq guarded
  BY <1>3, MountedView
<1>5. linked = FALSE /\ wire = <<>>
  BY <1>1 DEF ViewInv, LinkInv, ViewTypeOK
<1>6. ViewTypeOK' /\ CountInv'
  BY <1>1, <1>4 DEF ViewInv, ViewTypeOK, CountInv
<1>10. LinkInv'
  BY <1>1, <1>4, <1>5 DEF LinkInv
<1>7. RowsInv' /\ ReadInv'
  BY <1>1, <1>3, <1>4 DEF ViewInv, RowsInv, Exists, ReadInv, EndedAs, LagsBehind
<1>8. EndInv'
  <2> SUFFICES ASSUME view'.status \in Terminal, s # 0, s \notin recycled PROVE rows[s].status \in Terminal
    BY <1>1, <1>4 DEF EndInv
  <2> QED BY <1>3, <1>4 DEF ViewInv, ReadInv, EndedAs, LagsBehind
<1>9. GuardInv'
  BY <1>1, <1>4 DEF ViewInv, GuardInv
<1> QED BY <1>6, <1>7, <1>8, <1>9, <1>10 DEF ViewInv

-----------------------------------------------------------------------------
(* Polls and events.                                                       *)

LEMMA PollsKeep ==
  ASSUME ViewInv, PollReads \/ \E s \in SessionIds : PollArrives(s) \/ CacheExpires(s)
  PROVE  ViewInv'
<1>1. /\ UNCHANGED <<rows, highest, page, view, hydrated, linked, wire, asked, guarded,
                     recycled, orphaned, overtaken>>
      /\ ViewTypeOK /\ ReadInv /\ NoRecord \in Records
      /\ view.sid \in SessionIds \cup {0}
  BY DEF PollReads, PollArrives, CacheExpires, engineVars, startVars, pageVars, linkVars, historyVars,
         ViewInv, ViewTypeOK, NoRecord, Records, Statuses, Views
<1>2. CASE PollReads
  <2>1. /\ page = "transfer" /\ Shown # 0 /\ Shown \in SessionIds /\ polled' = TRUE
        /\ poll[Shown] = NoRecord /\ poll' = [poll EXCEPT ![Shown] = rows[Shown]]
        /\ Exists(Shown) /\ UNCHANGED <<due, known, progress>>
    BY <1>1, <1>2 DEF PollReads
  <2>2. rows[Shown] \in Records /\ (rows[Shown].status = "completed" => rows[Shown].imported = 1)
    BY <1>1, <2>1 DEF ViewInv, ViewTypeOK, RowsInv
  <2>3. ViewTypeOK' /\ LinkInv' /\ EndInv'
    BY <1>1, <2>1, <2>2 DEF ViewInv, ViewTypeOK, LinkInv, EndInv
  <2>4. ReadInv'
    BY <1>1, <2>1, <2>2 DEF ReadInv, EndedAs, LagsBehind, ViewTypeOK, Records
  <2>5. CountInv'
    BY <1>1, <2>1, <2>2 DEF CountInv, ViewTypeOK, Exists
  <2> QED BY <1>1, <2>3, <2>4, <2>5 DEF ViewInv, RowsInv, Exists, GuardInv
<1>3. ASSUME NEW s \in SessionIds, PollArrives(s) PROVE ViewInv'
  <2>1. /\ poll[s] # NoRecord /\ progress' = [progress EXCEPT ![s] = poll[s]]
        /\ poll' = [poll EXCEPT ![s] = NoRecord] /\ UNCHANGED <<known, polled>>
        /\ due' = (due \/ Observed(s)) /\ poll[s] \in Records
    BY <1>1, <1>3 DEF PollArrives, ViewTypeOK
  <2>2. ViewTypeOK' /\ LinkInv' /\ EndInv'
    <3>1. s # 0
      BY ViewAssumption
    <3>2. due' \in BOOLEAN
      BY <1>1, <2>1 DEF ViewTypeOK
    <3> QED BY <1>1, <2>1, <3>1, <3>2 DEF ViewInv, ViewTypeOK, LinkInv, EndInv, Observed
  <2>3. ReadInv'
    BY <1>1, <2>1 DEF ReadInv, EndedAs, LagsBehind, ViewTypeOK, NoRecord, Terminal, Records
  <2>4. CountInv'
    <3>1. CASE s = Shown
      BY <1>1, <2>1, <3>1 DEF ViewInv, CountInv, ViewTypeOK, Observed
    <3>2. CASE s # Shown
      BY <1>1, <2>1, <3>2 DEF ViewInv, CountInv, ViewTypeOK, Observed
    <3> QED BY <3>1, <3>2
  <2> QED BY <1>1, <2>2, <2>3, <2>4 DEF ViewInv, RowsInv, Exists, GuardInv
<1>4. ASSUME NEW s \in SessionIds, CacheExpires(s) PROVE ViewInv'
  <2>1. /\ known' = [known EXCEPT ![s] = NoRecord] /\ progress' = [progress EXCEPT ![s] = NoRecord]
        /\ UNCHANGED <<poll, polled, due>> /\ ~(page = "transfer" /\ Shown = s)
    BY <1>4 DEF CacheExpires, pageVars, Observed
  <2>2. ViewTypeOK' /\ LinkInv' /\ EndInv' /\ CountInv'
    BY <1>1, <2>1 DEF ViewInv, ViewTypeOK, LinkInv, EndInv, CountInv
  <2>3. ReadInv'
    BY <1>1, <2>1 DEF ReadInv, EndedAs, LagsBehind, ViewTypeOK, NoRecord, Terminal, Records
  <2> QED BY <1>1, <2>2, <2>3 DEF ViewInv, RowsInv, Exists, GuardInv
<1> QED BY <1>2, <1>3, <1>4

LEMMA FetchKeeps ==
  ASSUME ViewInv, SessionFetched PROVE ViewInv'
<1>1. /\ page = "transfer" /\ Shown # 0 /\ Shown \in SessionIds
      /\ known' = [known EXCEPT ![Shown] = rows[Shown]] /\ rows[Shown] \in Records /\ view \in Views
      /\ UNCHANGED <<rows, highest, page, progress, poll, polled, linked, wire, asked, recycled, orphaned>>
      /\ Exists(Shown) /\ ViewTypeOK
  BY DEF SessionFetched, ViewInv, ViewTypeOK, Views, engineVars, startVars, linkVars
<1>2. \/ hydrated /\ UNCHANGED <<view, hydrated, guarded, due, overtaken>>
      \/ /\ view' = Hydrated(Shown, view, rows[Shown]) /\ hydrated' = TRUE
         /\ guarded' \subseteq guarded /\ due' = FALSE /\ overtaken' = polled
  BY DEF SessionFetched, GuardedAfter
<1>3. /\ view' \in Views /\ view'.sid = view.sid
      /\ view' = view \/ view'.status \in {rows[Shown].status, progress[Shown].status}
  BY <1>1, <1>2, HydratedView DEF Exists
<1>4. ViewTypeOK' /\ LinkInv'
  BY <1>1, <1>2, <1>3 DEF ViewInv, ViewTypeOK, LinkInv
<1>5. RowsInv' /\ GuardInv'
  BY <1>1, <1>2, <1>3 DEF ViewInv, RowsInv, Exists, GuardInv
<1>6. ReadInv'
  BY <1>1 DEF ViewInv, ViewTypeOK, ReadInv, EndedAs, LagsBehind
<1>7. EndInv'
  BY <1>1, <1>3 DEF ViewInv, EndInv, ReadInv, EndedAs, LagsBehind
<1>8. CountInv'
  <2>1. CASE UNCHANGED <<view, hydrated, guarded, due, overtaken>>
    BY <1>1, <2>1 DEF ViewInv, CountInv
  <2>2. CASE overtaken' = polled
    BY <1>1, <2>2 DEF ViewTypeOK, CountInv
  <2> QED BY <1>2, <2>1, <2>2
<1> QED BY <1>4, <1>5, <1>6, <1>7, <1>8 DEF ViewInv

LEMMA ShowingKeeps ==
  ASSUME ViewInv, PollIsShown PROVE ViewInv'
<1>1. /\ due /\ due' = FALSE /\ guarded' \subseteq guarded
      /\ view' = FromPolling(view, Shown, progress[Shown])
      /\ UNCHANGED <<rows, highest, page, hydrated, known, progress, poll, polled, linked, wire, asked,
                     recycled, orphaned, overtaken>>
      /\ ViewTypeOK /\ view \in Views /\ Shown \in SessionIds /\ progress[Shown] \in Records
  BY DEF PollIsShown, GuardedAfter, ViewInv, ViewTypeOK, LinkInv, Views, engineVars, startVars,
         queryVars, linkVars, historyVars
<1>2. /\ view' \in Views /\ view'.sid = view.sid /\ view'.imported = progress[Shown].imported
      /\ view'.status = IF view.status \in Terminal THEN view.status ELSE progress[Shown].status
  BY <1>1, PolledView
<1>3. ViewTypeOK' /\ LinkInv'
  BY <1>1, <1>2 DEF ViewInv, ViewTypeOK, LinkInv
<1>4. RowsInv' /\ ReadInv' /\ GuardInv'
  BY <1>1, <1>2 DEF ViewInv, RowsInv, Exists, ReadInv, EndedAs, LagsBehind, GuardInv
<1>5. LagsBehind(progress[Shown], rows[Shown])
      /\ (poll[Shown] # NoRecord => progress[Shown].imported <= poll[Shown].imported)
  BY <1>1 DEF ViewInv, ReadInv
<1>6. EndInv'
  BY <1>1, <1>2, <1>5 DEF ViewInv, EndInv, EndedAs, LagsBehind
<1>7. CountInv'
  <2>1. CASE view.status = "completed"
    BY <1>1, <1>2, <2>1 DEF ViewInv, CountInv
  <2>2. CASE view.status # "completed"
    <3>1. view'.status = "completed" => progress[Shown].imported = 1
      BY <1>2, <1>5, <2>2 DEF LagsBehind
    <3>2. poll[Shown].imported \in {0, 1}
      BY <1>1 DEF ViewTypeOK, Records
    <3>3. view'.status = "completed" /\ poll[Shown] # NoRecord => poll[Shown].imported = 1
      BY <1>5, <3>1, <3>2
    <3> QED BY <1>1, <1>2, <3>1, <3>3 DEF CountInv
  <2> QED BY <2>1, <2>2
<1> QED BY <1>3, <1>4, <1>6, <1>7 DEF ViewInv

LEMMA EventsKeep ==
  ASSUME ViewInv, EventArrives PROVE ViewInv'
<1>1. /\ ViewTypeOK /\ LinkInv /\ wire \in Seq(Events) /\ wire # <<>> /\ wire' = Tail(wire)
      /\ page = "transfer" /\ Shown # 0 /\ Shown \in SessionIds /\ view \in Views
      /\ UNCHANGED <<rows, highest, page, hydrated, polled, due, known, progress, linked, asked,
                     recycled, orphaned>>
      /\ guarded' \subseteq guarded
  BY DEF EventArrives, GuardedAfter, ViewInv, ViewTypeOK, LinkInv, Views, engineVars, startVars, pageVars
<1>2. /\ Len(wire) \in Nat /\ Len(wire) >= 1 /\ Head(wire) = wire[1] /\ wire[1] \in Events
      /\ wire' \in Seq(Events) /\ Len(wire') = Len(wire) - 1
      /\ \A i \in 1 .. Len(wire') : wire'[i] = wire[i + 1] /\ i + 1 \in 1 .. Len(wire)
  BY <1>1
<1>3. linked
  BY <1>1 DEF LinkInv
<1>4. CASE Head(wire) = "completed"
  <2>1. /\ view' = [view EXCEPT !.status = "completed", !.imported = 1]
        /\ poll' = [poll EXCEPT ![Shown] = NoRecord] /\ overtaken' = (overtaken \/ due)
    BY <1>4 DEF EventArrives, PollAfterEnd
  <2>2. view' \in Views /\ view'.sid = view.sid /\ view'.status = "completed" /\ view'.imported = 1
    BY <1>1, <2>1 DEF Views, Statuses
  <2>3. rows[Shown].status \in Terminal
    BY <1>1, <1>2, <1>4 DEF LinkInv
  <2>4. NoRecord \in Records /\ NoRecord.status \notin Terminal /\ NoRecord.imported = 0
    BY DEF NoRecord, Records, Statuses, Terminal
  <2>5. ViewTypeOK'
    BY <1>1, <1>2, <2>1, <2>2, <2>4 DEF ViewTypeOK
  <2>6. LinkInv'
    BY <1>1, <1>2, <1>3, <2>2 DEF LinkInv
  <2>7. RowsInv' /\ EndInv' /\ GuardInv'
    BY <1>1, <2>2, <2>3 DEF ViewInv, RowsInv, Exists, EndInv, GuardInv
  <2>8. ReadInv'
    BY <1>1, <2>1, <2>4 DEF ViewInv, ReadInv, EndedAs, LagsBehind, ViewTypeOK, Records, NoRecord
  <2>9. CountInv'
    <3>1. poll'[Shown] = NoRecord
      BY <1>1, <2>1 DEF ViewTypeOK
    <3> QED BY <1>1, <2>1, <2>2, <3>1 DEF CountInv
  <2> QED BY <2>5, <2>6, <2>7, <2>8, <2>9 DEF ViewInv
<1>5. CASE Head(wire) # "completed"
  <2>1. PICK t \in {"running", "paused"} : view' = [view EXCEPT !.status = t]
    BY <1>2, <1>5 DEF EventArrives, Events
  <2>2. view' \in Views /\ view'.sid = view.sid /\ view'.status = t
    BY <1>1, <2>1 DEF Views, Statuses
  <2>3. UNCHANGED <<poll, overtaken>>
    BY <1>5 DEF EventArrives
  <2>4. ViewTypeOK'
    BY <1>1, <1>2, <2>2, <2>3 DEF ViewTypeOK
  <2>5. LinkInv'
    BY <1>1, <1>2, <1>3, <2>2 DEF LinkInv
  <2>6. EndInv' /\ CountInv'
    BY <2>2 DEF EndInv, CountInv, Terminal
  <2>7. RowsInv' /\ ReadInv' /\ GuardInv'
    BY <1>1, <2>2, <2>3 DEF ViewInv, RowsInv, Exists, ReadInv, EndedAs, LagsBehind, GuardInv
  <2> QED BY <2>4, <2>5, <2>6, <2>7 DEF ViewInv
<1> QED BY <1>4, <1>5

-----------------------------------------------------------------------------
(* Sessions that come and go.                                              *)

LEMMA DeletingKeeps ==
  ASSUME ViewInv, NEW s \in SessionIds, DeleteSession(s) PROVE ViewInv'
<1>1. /\ page = "elsewhere"
      /\ rows' = [rows EXCEPT ![s] = NoRecord] /\ known' = [known EXCEPT ![s] = NoRecord]
      /\ progress' = [progress EXCEPT ![s] = NoRecord] /\ poll' = [poll EXCEPT ![s] = NoRecord]
      /\ \/ Shown # s /\ UNCHANGED <<view, overtaken>>
         \/ view' = [NoView EXCEPT !.status = "failed"] /\ overtaken' = FALSE
      /\ UNCHANGED <<highest, page, hydrated, polled, due, linked, wire, asked, guarded,
                     recycled, orphaned>>
  BY DEF DeleteSession, CacheWithout, ShowsNothing, startVars, pageVars, linkVars
<1>2. /\ NoRecord \in Records /\ NoRecord.status = "none" /\ NoRecord.imported = 0
      /\ ViewTypeOK /\ Shown \in SessionIds \cup {0} /\ s # 0
  BY ViewAssumption DEF NoRecord, Records, Statuses, ViewInv, ViewTypeOK, Views
<1>v. /\ view' \in Views /\ view'.sid # s /\ overtaken' \in BOOLEAN
      /\ view' = view \/ view'.sid = 0
  BY <1>1, <1>2 DEF ViewTypeOK, NoView, Views, Statuses
<1>3. /\ \A r \in SessionIds : IF r = s
           THEN rows'[r] = NoRecord /\ known'[r] = NoRecord /\ progress'[r] = NoRecord /\ poll'[r] = NoRecord
           ELSE /\ rows'[r] = rows[r] /\ known'[r] = known[r]
                /\ progress'[r] = progress[r] /\ poll'[r] = poll[r]
  BY <1>1, <1>2 DEF ViewTypeOK
<1>4. ViewTypeOK'
  BY <1>1, <1>2, <1>v DEF ViewTypeOK
<1>5. RowsInv'
  BY <1>1, <1>2, <1>v, <1>3 DEF ViewInv, RowsInv, Exists
<1>6. ReadInv'
  BY <1>1, <1>2, <1>3 DEF ViewInv, ReadInv, EndedAs, LagsBehind, Terminal
<1>7. LinkInv' /\ CountInv' /\ EndInv'
  BY <1>1, <1>2, <1>v, <1>3 DEF ViewInv, LinkInv, ViewTypeOK, CountInv, EndInv
<1>8. GuardInv'
  BY <1>1, <1>2, <1>3 DEF ViewInv, GuardInv
<1> QED BY <1>4, <1>5, <1>6, <1>7, <1>8 DEF ViewInv

LEMMA ClearingKeeps ==
  ASSUME ViewInv, ClearSessions PROVE ViewInv'
<1>1. /\ page = "elsewhere" /\ rows' = [s \in SessionIds |-> NoRecord]
      /\ known' = IF Shown = 0 THEN known ELSE [known EXCEPT ![Shown] = NoRecord]
      /\ progress' = rows' /\ poll' = rows'
      /\ view' = [NoView EXCEPT !.status = "failed"] /\ overtaken' = FALSE
      /\ recycled' = recycled \cup {s \in SessionIds : known'[s] # NoRecord}
      /\ UNCHANGED <<highest, page, hydrated, polled, due, linked, wire, asked, guarded, orphaned>>
  BY DEF ClearSessions, ShowsNothing, startVars, pageVars, linkVars
<1>2. /\ NoRecord \in Records /\ NoRecord.status = "none" /\ NoRecord.imported = 0 /\ ViewTypeOK
      /\ Shown \in SessionIds \cup {0}
  BY DEF NoRecord, Records, Statuses, ViewInv, ViewTypeOK, Views
<1>3. view' \in Views /\ view'.sid = 0
  BY <1>1 DEF NoView, Views, Statuses
<1>4. ViewTypeOK'
  <2>1. known' \in [SessionIds -> Records]
    BY <1>1, <1>2 DEF ViewTypeOK
  <2> QED BY <1>1, <1>2, <1>3, <2>1 DEF ViewTypeOK
<1>5. RowsInv' /\ EndInv' /\ CountInv'
  BY <1>1, <1>2, <1>3 DEF RowsInv, Exists, EndInv, CountInv
<1>6. ReadInv'
  <2>1. \A s \in SessionIds : s \notin recycled' => known'[s] = NoRecord
    BY <1>1
  <2> QED BY <1>1, <1>2, <2>1 DEF ReadInv, EndedAs, LagsBehind, Terminal
<1>7. LinkInv'
  BY <1>1, <1>2 DEF ViewInv, LinkInv, ViewTypeOK
<1>8. GuardInv'
  BY <1>1, <1>2 DEF ViewInv, GuardInv
<1> QED BY <1>4, <1>5, <1>6, <1>7, <1>8 DEF ViewInv

LEMMA CreatingKeeps ==
  ASSUME ViewInv, CreateSession PROVE ViewInv'
<1> DEFINE n   == NewId
           row == [status |-> "created", imported |-> 0]
           v   == FromSession(n, row)
<1>1. /\ n \in SessionIds /\ rows' = [rows EXCEPT ![n] = row] /\ highest' = Max({highest, n})
      /\ \/ /\ page = "transfer" /\ view' = v /\ polled' = FALSE /\ due' = (progress[n] # NoRecord)
            /\ UNCHANGED <<page, hydrated, guarded>>
         \/ Mounts(n, v)
      /\ orphaned' = IF n <= highest THEN orphaned \cup {n} ELSE orphaned
      /\ linked' = FALSE /\ wire' = <<>> /\ overtaken' = FALSE
      /\ UNCHANGED <<known, progress, poll, asked, recycled>>
  BY DEF CreateSession, startVars, queryVars
<1>2. /\ n \in Nat /\ n # 0 /\ rows[n] = NoRecord
      /\ highest' \in Nat /\ highest <= highest' /\ n <= highest'
  BY <1>1, NewIdIsFree, ViewAssumption
<1>3. /\ row \in Records /\ row.status = "created" /\ row.imported = 0 /\ row # NoRecord
      /\ NoRecord.status \notin Terminal /\ NoRecord.imported = 0
      /\ ViewTypeOK /\ <<>> \in Seq(Events)
  BY DEF Records, Statuses, NoRecord, Terminal, ViewInv
<1> HIDE DEF n, row
<1>4. v \in Views /\ v.sid = n /\ v.status = "created"
  BY <1>1, <1>3, SessionView
<1>5. /\ known[n].status \notin Terminal \/ n \in recycled
      /\ progress[n].status \notin Terminal /\ poll[n].status \notin Terminal
      /\ progress[n].imported <= 0 /\ poll[n].imported <= 0
  BY <1>1, <1>2, <1>3 DEF ViewInv, ReadInv, EndedAs, LagsBehind
<1> HIDE DEF v
<1>6. /\ view' \in Views /\ view'.sid = n /\ (view'.status \in Terminal => n \in recycled)
      /\ page' = "transfer" /\ polled' = FALSE /\ due' \in BOOLEAN /\ hydrated' \in BOOLEAN
      /\ guarded' \subseteq guarded
  <2>1. CASE Mounts(n, v)
    BY <1>2, <1>4, <1>5, <2>1, MountedView DEF Terminal
  <2>2. CASE ~Mounts(n, v)
    BY <1>1, <1>3, <1>4, <2>2 DEF Terminal, ViewTypeOK
  <2> QED BY <2>1, <2>2
<1>7. rows' \in [SessionIds -> Records] /\ rows'[n] = row /\ \A s \in SessionIds : s # n => rows'[s] = rows[s]
  BY <1>1, <1>3 DEF ViewTypeOK
<1>8. ViewTypeOK'
  BY <1>1, <1>2, <1>3, <1>6, <1>7 DEF ViewTypeOK
<1>9. RowsInv'
  <2>1. \A s \in SessionIds : s # n /\ Exists(s) => s <= highest /\ s \in Nat
    BY ViewAssumption DEF ViewInv, RowsInv
  <2>2. highest \in Nat
    BY <1>3 DEF ViewTypeOK
  <2> QED BY <1>2, <1>3, <1>6, <1>7, <2>1, <2>2 DEF ViewInv, RowsInv, Exists
<1>10. ReadInv'
  <2> SUFFICES ASSUME NEW s \in SessionIds
               PROVE  /\ s \notin recycled => EndedAs(known[s], rows'[s])
                      /\ LagsBehind(progress[s], rows'[s]) /\ LagsBehind(poll[s], rows'[s])
                      /\ poll[s] # NoRecord => progress[s].imported <= poll[s].imported
    BY <1>1 DEF ReadInv
  <2>1. /\ s \notin recycled => EndedAs(known[s], rows[s])
        /\ LagsBehind(progress[s], rows[s]) /\ LagsBehind(poll[s], rows[s])
        /\ poll[s] # NoRecord => progress[s].imported <= poll[s].imported
    BY DEF ViewInv, ReadInv
  <2>2. CASE s = n
    BY <1>2, <1>3, <1>5, <1>7, <2>1, <2>2 DEF EndedAs, LagsBehind
  <2>3. CASE s # n
    BY <1>7, <2>1, <2>3
  <2> QED BY <2>2, <2>3
<1>11. LinkInv' /\ EndInv' /\ CountInv'
  BY <1>1, <1>2, <1>6 DEF LinkInv, EndInv, CountInv
<1>12. GuardInv'
  <2> SUFFICES ASSUME NEW s \in guarded'
               PROVE  /\ s \in SessionIds /\ s <= highest'
                      /\ s \notin orphaned' /\ rows'[s].status = "created" => asked' = s
    BY DEF GuardInv
  <2>1. /\ s \in SessionIds /\ s <= highest
        /\ s \notin orphaned /\ rows[s].status = "created" => asked = s
    BY <1>6 DEF ViewInv, GuardInv
  <2>2. s \in Nat /\ highest \in Nat
    BY <1>3, <2>1, ViewAssumption DEF ViewTypeOK
  <2>3. s = n => s \in orphaned'
    BY <1>1, <2>1
  <2> QED BY <1>1, <1>2, <1>7, <2>1, <2>2, <2>3
<1> QED BY <1>8, <1>9, <1>10, <1>11, <1>12 DEF ViewInv

-----------------------------------------------------------------------------

LEMMA InitShows == ViewInit => ViewInv
<1> SUFFICES ASSUME ViewInit PROVE ViewInv
  OBVIOUS
<1>1. /\ NoRecord \in Records /\ NoRecord.status = "none" /\ NoRecord.imported = 0
      /\ NoView \in Views /\ NoView.sid = 0 /\ <<>> \in Seq(Events)
  BY DEF NoRecord, Records, Statuses, NoView, Views
<1>2. ViewTypeOK
  BY <1>1 DEF ViewInit, ViewTypeOK
<1>3. RowsInv /\ ReadInv /\ LinkInv
  BY <1>1 DEF ViewInit, RowsInv, Exists, ReadInv, EndedAs, LagsBehind, LinkInv, Terminal
<1>4. EndInv /\ CountInv /\ GuardInv
  BY <1>1 DEF ViewInit, EndInv, CountInv, GuardInv
<1> QED BY <1>2, <1>3, <1>4 DEF ViewInv

LEMMA NextShows == ViewInv /\ [ViewNext]_viewVars => ViewInv'
<1> SUFFICES ASSUME ViewInv, [ViewNext]_viewVars PROVE ViewInv'
  OBVIOUS
<1>1. ASSUME NEW s \in SessionIds, StartSucceeds(s) \/ TaskEnds(s) PROVE ViewInv'
  BY <1>1, EngineSteps, EngineKeeps
<1>2. CASE CancelSession \/ PauseSession
  <2>1. Shown \in SessionIds
    BY <1>2 DEF CancelSession, PauseSession, ViewInv, ViewTypeOK, Views
  <2> QED BY <1>2, <2>1, EngineSteps, EngineKeeps
<1>3. CASE UNCHANGED viewVars
  BY <1>3 DEF viewVars, ViewInv, ViewTypeOK, RowsInv, Exists, ReadInv, EndedAs, LagsBehind, LinkInv,
              EndInv, CountInv, GuardInv
<1> QED BY <1>1, <1>2, <1>3, StartsKeep, LeavingKeeps, LinksKeep, MountsKeep, PollsKeep, FetchKeeps,
           ShowingKeeps, EventsKeep, DeletingKeeps, ClearingKeeps, CreatingKeeps DEF ViewNext

\* However polls, events, pages and cached answers follow one another, a
\* session that is shown as ended has ended.
THEOREM EndsAreReal == ViewSpec => []ShownEndIsReal
<1>1. ViewInv => ShownEndIsReal
  BY DEF ViewInv, EndInv, ShownEndIsReal
<1> QED BY InitShows, NextShows, <1>1, PTL DEF ViewSpec

\* The final count is shown, whether the end was polled or heard.
THEOREM EndsAreComplete == ViewSpec => []EndIsShownInFull
<1>1. ViewInv => EndIsShownInFull
  BY DEF ViewInv, CountInv, EndIsShownInFull
<1> QED BY InitShows, NextShows, <1>1, PTL DEF ViewSpec

-----------------------------------------------------------------------------
(* What a page that has started another session does with this one.        *)

\* Only a page that has its session has started one.  No id is cached before it
\* is given, and of a session that waits nothing but that is cached.
StartInv ==
  /\ autoStarted \in BOOLEAN /\ (autoStarted => page = "transfer" /\ hydrated)
  /\ \A s \in SessionIds : s > highest => known[s] = NoRecord
  /\ \A s \in SessionIds :
       rows[s].status = "created" /\ s \notin orphaned => StartsItself(s)

LEMMA InitWaits == ViewInit => StartInv
BY DEF ViewInit, StartInv, StartsItself, NoRecord

\* The cache holds what it held, less, or the row as it is.
LEMMA WaitingGoesOn ==
  ASSUME ViewInv, StartInv, autoStarted' \in BOOLEAN,
         autoStarted' => page' = "transfer" /\ hydrated',
         highest' = highest, orphaned \subseteq orphaned',
         \A s \in SessionIds :
           /\ rows'[s].status = "created" => rows[s].status = "created"
           /\ \/ known'[s] = known[s] \/ known'[s] = NoRecord
              \/ known'[s] = rows[s] /\ Exists(s)
  PROVE  StartInv'
<1>1. \A s \in SessionIds : s \in Nat /\ (Exists(s) => s <= highest)
  BY ViewAssumption DEF ViewInv, RowsInv
<1>2. highest \in Nat
  BY DEF ViewInv, ViewTypeOK
<1>3. NoRecord.status = "none"
  BY DEF NoRecord
<1> QED BY <1>1, <1>2, <1>3 DEF StartInv, StartsItself

LEMMA CreatingWaits ==
  ASSUME ViewInv, StartInv, CreateSession PROVE StartInv'
<1> DEFINE n   == NewId
           row == [status |-> "created", imported |-> 0]
<1>1. /\ n \in SessionIds /\ rows' = [rows EXCEPT ![n] = row] /\ highest' = Max({highest, n})
      /\ orphaned' = IF n <= highest THEN orphaned \cup {n} ELSE orphaned
      /\ UNCHANGED <<known, autoStarted>>
      /\ \/ page = "transfer" /\ UNCHANGED <<page, hydrated>>
         \/ page # "transfer"
  BY DEF CreateSession, startVars, queryVars
<1>2. /\ highest \in Nat /\ rows \in [SessionIds -> Records]
      /\ n \in Nat /\ highest' \in Nat /\ highest <= highest' /\ n <= highest'
  BY <1>1, NewIdIsFree, ViewAssumption DEF ViewInv, ViewTypeOK
<1> HIDE DEF n, row
<1>3. autoStarted' \in BOOLEAN /\ (autoStarted' => page' = "transfer" /\ hydrated')
  BY <1>1 DEF StartInv
<1>4. ASSUME NEW s \in SessionIds PROVE s > highest' => known'[s] = NoRecord
  <2>1. s \in Nat
    BY ViewAssumption
  <2> QED BY <1>1, <1>2, <2>1 DEF StartInv
<1>5. ASSUME NEW s \in SessionIds, rows'[s].status = "created", s \notin orphaned'
      PROVE  StartsItself(s)'
  <2>1. CASE s = n
    <3>1. s > highest
      BY <1>1, <1>2, <1>5, <2>1
    <3> QED BY <1>1, <3>1 DEF StartInv, StartsItself, NoRecord
  <2>2. CASE s # n
    BY <1>1, <1>2, <1>5, <2>2 DEF StartInv, StartsItself
  <2> QED BY <2>1, <2>2
<1> QED BY <1>3, <1>4, <1>5 DEF StartInv

LEMMA NextWaits == ViewInv /\ StartInv /\ [ViewNext]_viewVars => StartInv'
<1> SUFFICES ASSUME ViewInv, StartInv, [ViewNext]_viewVars PROVE StartInv'
  OBVIOUS
<1>t. /\ rows \in [SessionIds -> Records] /\ known \in [SessionIds -> Records]
      /\ view \in Views /\ NoRecord.status = "none" /\ hydrated \in BOOLEAN
  BY DEF ViewInv, ViewTypeOK, NoRecord
<1>s. autoStarted \in BOOLEAN /\ (autoStarted => page = "transfer" /\ hydrated)
  BY DEF StartInv
<1>1. CASE LeavePage \/ CancelAnswered
  BY <1>1, WaitingGoesOn DEF LeavePage, CancelAnswered, Unmounts, LosesCallbacks, engineVars, queryVars
<1>2. CASE OpenPage \/ \E s \in SessionIds : OpenSession(s)
  BY <1>2, <1>s, WaitingGoesOn DEF OpenPage, OpenSession, engineVars, startVars, queryVars
<1>3. CASE \/ CancelSession \/ PauseSession
           \/ \E s \in SessionIds : StartSucceeds(s) \/ TaskEnds(s)
  <2>1. PICK s \in SessionIds, q \in Records : /\ rows' = [rows EXCEPT ![s] = q]
                                               /\ q.status # "created"
    <3>1. ASSUME NEW s \in SessionIds, NEW t \in Statuses, NEW k \in {0, 1}
          PROVE  /\ [rows[s] EXCEPT !.status = t] \in Records
                 /\ [rows[s] EXCEPT !.status = t].status = t
                 /\ [rows[s] EXCEPT !.status = t, !.imported = k] \in Records
                 /\ [rows[s] EXCEPT !.status = t, !.imported = k].status = t
      BY <1>t DEF Records
    <3>2. view.sid \in SessionIds \cup {0}
      BY <1>t DEF Views
    <3>3. CASE CancelSession \/ PauseSession
      BY <3>1, <3>2, <3>3 DEF CancelSession, PauseSession, Statuses
    <3>4. ASSUME NEW s \in SessionIds, StartSucceeds(s)
          PROVE  \E q \in Records : rows' = [rows EXCEPT ![s] = q] /\ q.status # "created"
      BY <3>1, <3>4 DEF StartSucceeds, Statuses
    <3>5. ASSUME NEW s \in SessionIds, TaskEnds(s)
          PROVE  \E q \in Records : rows' = [rows EXCEPT ![s] = q] /\ q.status # "created"
      <4>1. \/ rows' = [rows EXCEPT ![s] = [rows[s] EXCEPT !.status = "completed", !.imported = 1]]
            \/ rows' = [rows EXCEPT ![s] = [rows[s] EXCEPT !.status = "failed"]]
        BY <1>t, <3>5 DEF TaskEnds
      <4>2. "completed" \in Statuses /\ "failed" \in Statuses
        BY DEF Statuses
      <4> QED BY <3>1, <4>1, <4>2
    <3> QED BY <1>3, <3>3, <3>4, <3>5
  <2>2. UNCHANGED <<highest, autoStarted, page, hydrated, known, orphaned>>
    BY <1>3 DEF CancelSession, PauseSession, StartSucceeds, TaskEnds, startVars, pageVars, queryVars,
                historyVars
  <2> QED BY <1>t, <1>s, <2>1, <2>2, WaitingGoesOn
<1>4. ASSUME NEW s \in SessionIds, DeleteSession(s) PROVE StartInv'
  BY <1>4, <1>t, <1>s, WaitingGoesOn DEF DeleteSession, CacheWithout, startVars, pageVars
<1>5. CASE ClearSessions
  BY <1>5, <1>t, <1>s, WaitingGoesOn DEF ClearSessions, startVars, pageVars
<1>6. CASE AutoStart \/ UserStarts \/ StartTimesOut \/ \E s \in SessionIds : StartIsRefused(s)
  <2>1. /\ UNCHANGED <<rows, highest, page, hydrated, known>>
        /\ orphaned \subseteq orphaned'
    BY <1>6
    DEF AutoStart, UserStarts, StartTimesOut, StartIsRefused, Asks, LosesCallbacks, engineVars,
        pageVars, queryVars, historyVars
  <2>2. autoStarted' \in BOOLEAN /\ (autoStarted' => page = "transfer" /\ hydrated)
    BY <1>6, <1>s DEF AutoStart, UserStarts, StartTimesOut, StartIsRefused
  <2> QED BY <2>1, <2>2, WaitingGoesOn
<1>7. CASE SessionFetched
  BY <1>7, <1>t, <1>s, WaitingGoesOn DEF SessionFetched, engineVars, startVars
<1>8. CASE PollReads \/ \E s \in SessionIds : PollArrives(s)
  BY <1>8, <1>s, WaitingGoesOn DEF PollReads, PollArrives, engineVars, startVars, historyVars
<1>9. ASSUME NEW s \in SessionIds, CacheExpires(s) PROVE StartInv'
  BY <1>9, <1>t, <1>s, WaitingGoesOn DEF CacheExpires, engineVars, startVars, pageVars, historyVars
<1>10. CASE PollIsShown \/ Links \/ LinkBreaks \/ EventArrives
  <2>1. UNCHANGED <<rows, highest, page, hydrated, known, autoStarted, orphaned>>
    BY <1>10
    DEF PollIsShown, Links, LinkBreaks, EventArrives, engineVars, startVars, pageVars, queryVars,
        historyVars
  <2> QED BY <2>1, <1>s, WaitingGoesOn
<1>11. CASE UNCHANGED viewVars
  BY <1>11, <1>s, WaitingGoesOn DEF viewVars
<1> QED BY <1>1, <1>2, <1>3, <1>4, <1>5, <1>6, <1>7, <1>8, <1>9, <1>10, <1>11, CreatingWaits
        DEF ViewNext

\* No guard is left behind by a request that was answered, refused or given
\* up while its page was there; and a page that has started another session
\* starts this one as soon as it has fetched it.
THEOREM WaitingSessionsCanStart == ViewSpec => []WaitingCanStart
<1>1. ViewInv /\ StartInv => WaitingCanStart
  BY DEF ViewInv, GuardInv, StartInv, ViewTypeOK, Views, WaitingCanStart
<1> QED BY InitShows, InitWaits, NextShows, NextWaits, <1>1, PTL DEF ViewSpec
=============================================================================
