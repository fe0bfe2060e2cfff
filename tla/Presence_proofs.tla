--------------------------- MODULE Presence_proofs ---------------------------
(***************************************************************************)
(* What the WebSocket server keeps true for any number of users,           *)
(* connections and rooms, through closes, crashes and restarts: its maps   *)
(* follow its connections, the online flag follows the map, and the rooms  *)
(* of a connection follow what its client asked for.                       *)
(***************************************************************************)
EXTENDS Presence, FiniteSetTheorems, SequenceTheorems, TLAPS

-----------------------------------------------------------------------------
\* The parts of the invariant.

Live == {"open", "closing", "leaving"}

Types ==
    /\ server \in {"down", "up", "stopping"}
    /\ conn \in [Conn -> Phase]
    /\ peer \subseteq Conn /\ alive \subseteq Conn /\ expired \subseteq Conn
    /\ entry \subseteq User /\ timer \subseteq User /\ sockets \in [User -> SUBSET Conn]
    /\ online \in [User -> BOOLEAN] /\ writes \in [User -> SUBSET BOOLEAN] /\ raced \subseteq User
    /\ queue \in [Conn -> Seq(Operation)]
    /\ rooms \in [Conn -> SUBSET Room] /\ holds \in [Conn -> SUBSET Room]
    /\ revoked \subseteq User /\ revoking \subseteq User /\ push \subseteq User
    /\ budget \in [{"conns", "ops", "stops", "faults", "revocations"} -> Nat]

\* The sockets of a user are his connections that are set up and not over; what is not set
\* up, or is over, asks for nothing and is in no room.
ConnectionsInv ==
    /\ \A u \in User : sockets[u] = {c \in Conn : UserOf[c] = u /\ conn[c] \in Live}
    /\ \A c \in Conn : conn[c] \notin Live => queue[c] = <<>> /\ rooms[c] = {}

\* A user without a socket is waited for; a server that is down has forgotten everybody.
GraceInv ==
    /\ server = "up" => \A u \in entry : sockets[u] # {} \/ u \in timer
    /\ server = "down" => /\ entry = {} /\ timer = {}
                          /\ \A u \in User : writes[u] = {}

\* Of a user whose writes did not overlap, the only write under way is the right one, and
\* when there is none the flag is.
FlagsInv ==
    server = "up" => \A u \in User \ raced :
        /\ TRUE \in writes[u] => u \in entry
        /\ FALSE \in writes[u] => u \notin entry
        /\ writes[u] = {} => (online[u] <=> u \in entry)

\* An operation that waits for its permission is the first of its connection, which has
\* room for one more.
OneChecking(q, in) ==
    \A i \in 1 .. Len(q) : q[i].checking =>
        i = 1 /\ q[i].op = "join" /\ q[i].room \notin in /\ Cardinality(in) < MaxRooms

\* The client holds a room if the last operation on it that is still to come is a join, or
\* if there is none to come and the connection is in it.
LastWord(q, in, held) ==
    /\ \A i \in 1 .. Len(q) : (\A k \in i + 1 .. Len(q) : q[k].room # q[i].room) =>
           (q[i].room \in held <=> q[i].op = "join")
    /\ \A r \in Room : (\A i \in 1 .. Len(q) : q[i].room # r) => (r \in held <=> r \in in)

Fit(q, in, held) ==
    /\ OneChecking(q, in) /\ LastWord(q, in, held)
    /\ IsFiniteSet(in) /\ Cardinality(in) <= MaxRooms

RoomsInv == \A c \in Conn : Fit(queue[c], rooms[c], holds[c])

IInv == Types /\ ConnectionsInv /\ GraceInv /\ FlagsInv /\ RoomsInv
-----------------------------------------------------------------------------
(* The operations of one connection.                                       *)

\* The first operation is taken away.
LEMMA Dequeued ==
  ASSUME NEW S, NEW q \in Seq(S), NEW n \in 1 .. Len(q), n = 1
  PROVE  /\ Without(q, n) \in Seq(S) /\ Len(Without(q, n)) = Len(q) - 1
         /\ \A i \in 1 .. Len(Without(q, n)) : i + 1 \in 1 .. Len(q)
                                               /\ Without(q, n)[i] = q[i + 1]
<1>1. Len(q) \in Nat /\ \A i \in 1 .. Len(q) : q[i] \in S
  BY LenProperties, ElementOfSeq
<1> DEFINE t == SubSeq(q, 2, Len(q))
<1>2. SubSeq(q, 1, 0) = <<>>
  BY SubSeqEmpty
<1>3. /\ t \in Seq(S) /\ Len(t) = Len(q) - 1
      /\ \A i \in 1 .. Len(q) - 1 : t[i] = q[i + 1]
  <2>1. \A i \in 2 .. Len(q) : q[i] \in S
    BY <1>1
  <2>2. /\ t \in Seq(S)
        /\ Len(t) = IF 2 <= Len(q) THEN Len(q) - 2 + 1 ELSE 0
        /\ \A i \in 1 .. Len(q) - 2 + 1 : t[i] = q[2 + i - 1]
    BY <1>1, <2>1, SubSeqProperties
  <2>3. Len(q) - 2 + 1 = Len(q) - 1 /\ \A i \in 1 .. Len(q) - 1 : 2 + i - 1 = i + 1
    BY <1>1
  <2>4. Len(t) = Len(q) - 1
    <3>1. Len(q) \in Nat \ {0} /\ Len(t) = IF 2 <= Len(q) THEN Len(q) - 2 + 1 ELSE 0
      BY <1>1, <2>2
    <3> DEFINE m == Len(t)
               k == Len(q)
    <3> HIDE DEF m, k
    <3>2. k \in Nat \ {0} /\ m = IF 2 <= k THEN k - 2 + 1 ELSE 0
      BY <3>1 DEF m, k
    <3>3. m = k - 1
      BY ONLY <3>2
    <3> QED BY <3>3 DEF m, k
  <2>5. \A i \in 1 .. Len(q) - 1 : t[i] = q[i + 1]
    BY <2>2, <2>3
  <2> QED BY <2>2, <2>4, <2>5
<1>4. Without(q, n) = <<>> \o t
  BY <1>2 DEF Without
<1> HIDE DEF t
<1>5. Without(q, n) = t
  BY <1>3, <1>4, ConcatEmptySeq
<1> QED BY <1>1, <1>3, <1>5

\* An operation that is neither checked nor the first waits for its turn.
LEMMA CheckingAfter ==
  ASSUME NEW q \in Seq(Operation), NEW in, NEW in2, NEW n \in 1 .. Len(q), n = 1,
         OneChecking(q, in)
  PROVE  OneChecking(Without(q, n), in2)
<1>1. \A i \in 1 .. Len(Without(q, n)) : ~Without(q, n)[i].checking
  BY Dequeued, LenProperties DEF OneChecking
<1> QED BY <1>1 DEF OneChecking

\* The last word, when the first operation is done: other rooms are as they were, and the
\* room it is about is in the hands of a later operation, or held if it is entered.
LEMMA WordAfter ==
  ASSUME NEW q \in Seq(Operation), NEW n \in 1 .. Len(q), n = 1,
         NEW in, NEW in2, NEW held, NEW held2, LastWord(q, in, held),
         \A r \in Room \ {q[n].room} : (r \in in2 <=> r \in in) /\ (r \in held2 <=> r \in held),
         (\A k \in 2 .. Len(q) : q[k].room # q[n].room) =>
            (q[n].room \in held2 <=> q[n].room \in in2),
         \/ q[n].room \in held2 <=> q[n].room \in held
         \/ /\ q[n].room \notin held2
            /\ \A k \in 2 .. Len(q) : q[k].room = q[n].room => q[k].op # "join"
  PROVE  LastWord(Without(q, n), in2, held2)
<1> DEFINE t == Without(q, n)
<1>1. /\ Len(q) \in Nat /\ Len(t) = Len(q) - 1
      /\ \A i \in 1 .. Len(t) : i + 1 \in 2 .. Len(q) /\ t[i] = q[i + 1]
      /\ \A i \in 1 .. Len(q) : q[i] \in Operation
  BY Dequeued, LenProperties, ElementOfSeq
<1> HIDE DEF t
<1>2. ASSUME NEW i \in 1 .. Len(t), \A k \in i + 1 .. Len(t) : t[k].room # t[i].room
      PROVE  t[i].room \in held2 <=> t[i].op = "join"
  <2>1. ASSUME NEW k \in i + 1 + 1 .. Len(q) PROVE q[k].room # q[i + 1].room
    <3>1. k - 1 \in i + 1 .. Len(t) /\ k - 1 \in 1 .. Len(t) /\ k - 1 + 1 = k
      BY <1>1
    <3>2. t[k - 1] = q[k]
      BY <1>1, <3>1
    <3> QED BY <1>1, <1>2, <3>1, <3>2
  <2>2. q[i + 1].room \in held <=> q[i + 1].op = "join"
    BY <1>1, <2>1 DEF LastWord
  <2>3. q[i + 1].room \in Room
    BY <1>1 DEF Operation
  <2>4. CASE q[i + 1].room # q[n].room
    BY <1>1, <2>2, <2>3, <2>4
  <2>5. CASE q[i + 1].room = q[n].room
    BY <1>1, <2>2, <2>5
  <2> QED BY <2>4, <2>5
<1>3. ASSUME NEW r \in Room, \A i \in 1 .. Len(t) : t[i].room # r
      PROVE  r \in held2 <=> r \in in2
  <2>1. ASSUME NEW k \in 2 .. Len(q) PROVE q[k].room # r
    <3>1. k - 1 \in 1 .. Len(t) /\ k - 1 + 1 = k
      BY <1>1
    <3>2. t[k - 1] = q[k]
      BY <1>1, <3>1
    <3> QED BY <1>3, <3>1, <3>2
  <2>2. CASE r = q[n].room
    BY <2>1, <2>2
  <2>3. CASE r # q[n].room
    <3>1. \A i \in 1 .. Len(q) : q[i].room # r
      BY <1>1, <2>1, <2>3
    <3>2. r \in held <=> r \in in
      BY <3>1 DEF LastWord
    <3> QED BY <2>3, <3>2
  <2> QED BY <2>2, <2>3
<1> QED BY <1>2, <1>3 DEF LastWord, t
\* A frame of the client adds an operation.
LEMMA AskFits ==
  ASSUME NEW q \in Seq(Operation), NEW in, NEW held, Fit(q, in, held),
         NEW o \in {"join", "leave"}, NEW r \in Room
  PROVE  LET q2 == Append(q, [op |-> o, room |-> r, checking |-> FALSE])
             held2 == IF o = "join" THEN held \union {r} ELSE held \ {r}
         IN  q2 \in Seq(Operation) /\ Fit(q2, in, held2)
<1> DEFINE new == [op |-> o, room |-> r, checking |-> FALSE]
           q2 == Append(q, new)
           held2 == IF o = "join" THEN held \union {r} ELSE held \ {r}
           n == Len(q) + 1
<1>1. new \in Operation /\ new.op = o /\ new.room = r /\ ~new.checking
  BY DEF Operation
<1> HIDE DEF new
<1>2. /\ q2 \in Seq(Operation) /\ Len(q) \in Nat /\ Len(q2) = n
      /\ \A i \in 1 .. Len(q) : q2[i] = q[i]
      /\ q2[n] = new
  BY <1>1, AppendProperties, LenProperties
<1> HIDE DEF q2
<1>3. OneChecking(q2, in)
  BY <1>1, <1>2 DEF Fit, OneChecking
<1>4. r \in held2 <=> o = "join"
  OBVIOUS
<1>5. \A x : x # r => (x \in held2 <=> x \in held)
  OBVIOUS
<1> HIDE DEF held2
<1>6. ASSUME NEW i \in 1 .. Len(q2), \A k \in i + 1 .. Len(q2) : q2[k].room # q2[i].room
      PROVE  q2[i].room \in held2 <=> q2[i].op = "join"
  <2>1. CASE i = n
    BY <1>1, <1>2, <1>4, <2>1
  <2>2. CASE i # n
    <3>1. i \in 1 .. Len(q) /\ n \in i + 1 .. Len(q2)
      BY <1>2, <2>2
    <3>2. q2[i] = q[i] /\ q[i].room # r
      BY <1>1, <1>2, <1>6, <3>1
    <3>3. \A k \in i + 1 .. Len(q) : q[k].room # q[i].room
      BY <1>2, <1>6, <3>1
    <3>4. q[i].room \in held <=> q[i].op = "join"
      BY <3>1, <3>3 DEF Fit, LastWord
    <3> QED BY <1>5, <3>2, <3>4
  <2> QED BY <2>1, <2>2
<1>7. ASSUME NEW x \in Room, \A i \in 1 .. Len(q2) : q2[i].room # x
      PROVE  x \in held2 <=> x \in in
  <2>1. x # r /\ \A i \in 1 .. Len(q) : q[i].room # x
    BY <1>1, <1>2, <1>7
  <2> QED BY <1>5, <2>1 DEF Fit, LastWord
<1> QED BY <1>2, <1>3, <1>6, <1>7 DEF Fit, LastWord, q2, held2, new

\* The steps that move a room or a queue of room operations.
LEMMA OnlyRooms ==
  ASSUME Types, [Next]_vars
  PROVE  \/ UNCHANGED roomVars
         \/ \E c \in Conn : OnUserMessage(c) \/ OnUserConnectionClose(c)
         \/ \E c \in Conn : \E i \in 1 .. Len(queue[c]) : StartOperation(c, i) \/ FinishJoin(c, i)
         \/ Exit
  BY DEF Next, vars, ServeConn, ServeUser, AuthenticateUpgrade, LeaveUnregistered,
     SetupUserConnection, ClientCloses, CloseEvent, GraceEnds, UpdateOnlineStatus,
     SweepConnections, Pong, Expire, RevokeSession, CommitRevocation, CloseRevokedSession,
     LosePush, StopWebSocketServer, Restart

\* One connection's rooms change, the others' do not.
LEMMA OneFits ==
  ASSUME Types, RoomsInv, NEW c \in Conn, NEW q, NEW in, NEW held, Fit(q, in, held),
         queue' = [queue EXCEPT ![c] = q], rooms' = [rooms EXCEPT ![c] = in],
         holds' = [holds EXCEPT ![c] = held]
  PROVE  RoomsInv'
<1>1. /\ queue'[c] = q /\ rooms'[c] = in /\ holds'[c] = held
      /\ \A d \in Conn \ {c} : queue'[d] = queue[d] /\ rooms'[d] = rooms[d]
                             /\ holds'[d] = holds[d]
  BY DEF Types
<1>2. ASSUME NEW d \in Conn PROVE Fit(queue'[d], rooms'[d], holds'[d])
  BY <1>1 DEF RoomsInv
<1>3. RoomsInv' = \A d \in Conn : Fit(queue'[d], rooms'[d], holds'[d])
  BY DEF RoomsInv, Fit, OneChecking, LastWord
<1> QED BY <1>2, <1>3

\* Nothing asked, and nothing held.
LEMMA NothingFits == Fit(<<>>, {}, {})
<1>1. Len(<<>>) = 0 /\ IsFiniteSet({}) /\ Cardinality({}) = 0
  BY FS_EmptySet
<1> QED BY <1>1, BoundsAssumption DEF Fit, OneChecking, LastWord
\* An operation is done: what is left of the queue, and the rooms, fit.
LEMMA DoneFits ==
  ASSUME NEW q \in Seq(Operation), NEW n \in 1 .. Len(q), n = 1,
         NEW in, NEW in2, NEW held, NEW held2, Fit(q, in, held),
         \A r \in Room \ {q[n].room} : (r \in in2 <=> r \in in) /\ (r \in held2 <=> r \in held),
         (\A k \in 2 .. Len(q) : q[k].room # q[n].room) =>
            (q[n].room \in held2 <=> q[n].room \in in2),
         \/ q[n].room \in held2 <=> q[n].room \in held
         \/ /\ q[n].room \notin held2
            /\ \A k \in 2 .. Len(q) : q[k].room = q[n].room => q[k].op # "join",
         IsFiniteSet(in2), Cardinality(in2) <= MaxRooms
  PROVE  Fit(Without(q, n), in2, held2)
<1>1. OneChecking(Without(q, n), in2)
  BY CheckingAfter DEF Fit
<1>2. LastWord(Without(q, n), in2, held2)
  BY WordAfter DEF Fit
<1> QED BY <1>1, <1>2 DEF Fit

\* A refused room is not entered, and given up unless it is asked for again.
LEMMA RefusalFits ==
  ASSUME Types, NEW c \in Conn, NEW n \in 1 .. Len(queue[c]), n = 1,
         Fit(queue[c], rooms[c], holds[c]), queue[c][n].room \notin rooms[c],
         RefuseRoom(c, n)
  PROVE  \E held : holds' = [holds EXCEPT ![c] = held]
                   /\ Fit(Without(queue[c], n), rooms[c], held)
<1> DEFINE q == queue[c]
           r == q[n].room
<1>1. q \in Seq(Operation) /\ holds \in [Conn -> SUBSET Room] /\ Len(q) \in Nat
  BY LenProperties DEF Types
<1>2. IsFiniteSet(rooms[c]) /\ Cardinality(rooms[c]) <= MaxRooms
  BY DEF Fit
<1>3. CASE AsksAgain(c, n)
  <2>1. holds' = [holds EXCEPT ![c] = holds[c]]
    BY <1>1, <1>3 DEF RefuseRoom
  <2>2. ~ \A k \in 2 .. Len(q) : q[k].room # q[n].room
    BY <1>3 DEF AsksAgain
  <2>3. Fit(Without(q, n), rooms[c], holds[c])
    BY <1>1, <1>2, <2>2, DoneFits
  <2> QED BY <2>1, <2>3
<1>4. CASE ~AsksAgain(c, n)
  <2> DEFINE held == holds[c] \ {r}
  <2>1. holds' = [holds EXCEPT ![c] = held]
    BY <1>4 DEF RefuseRoom
  <2>2. \A k \in 2 .. Len(q) : q[k].room = r => q[k].op # "join"
    BY <1>4 DEF AsksAgain
  <2>3. /\ r \notin held
        /\ \A x \in Room \ {r} : x \in held <=> x \in holds[c]
    OBVIOUS
  <2> HIDE DEF held
  <2>4. Fit(Without(q, n), rooms[c], held)
    BY <1>1, <1>2, <2>2, <2>3, DoneFits
  <2> QED BY <2>1, <2>4
<1> QED BY <1>3, <1>4

\* RoomsInv holds when an operation starts: joining takes a place, leaving gives one back.
LEMMA StartFits ==
  ASSUME Types, RoomsInv, NEW c \in Conn, NEW n \in 1 .. Len(queue[c]), StartOperation(c, n)
  PROVE  RoomsInv'
<1> DEFINE q == queue[c]
           o == q[n]
           in == rooms[c]
           held == holds[c]
           settled == o.op = "leave" \/ o.room \in in
           full == Cardinality(in) >= MaxRooms
<1>1. /\ q \in Seq(Operation) /\ in \in SUBSET Room /\ held \in SUBSET Room /\ Len(q) \in Nat
      /\ \A i \in 1 .. Len(q) : q[i] \in Operation
      /\ rooms \in [Conn -> SUBSET Room] /\ holds \in [Conn -> SUBSET Room]
  BY LenProperties, ElementOfSeq DEF Types
<1>2. /\ n = 1 /\ ~o.checking
      /\ queue' = [queue EXCEPT ![c] = IF settled \/ full THEN Without(q, n)
                                       ELSE [q EXCEPT ![n].checking = TRUE]]
      /\ rooms' = [rooms EXCEPT ![c] = IF o.op = "leave" THEN in \ {o.room} ELSE in]
      /\ IF ~settled /\ full THEN RefuseRoom(c, n) ELSE holds' = holds
  BY DEF StartOperation, Turn
<1>3. Fit(q, in, held) /\ IsFiniteSet(in) /\ Cardinality(in) <= MaxRooms /\ Cardinality(in) \in Nat
  BY FS_CardinalityType DEF RoomsInv, Fit
<1>4. o \in Operation /\ o.op \in {"join", "leave"} /\ o.room \in Room
  BY <1>1 DEF Operation
<1>5. (\A k \in 2 .. Len(q) : q[k].room # o.room) => (o.room \in held <=> o.op = "join")
  BY <1>1, <1>2, <1>3 DEF Fit, LastWord
<1>6. holds = [holds EXCEPT ![c] = held]
  BY <1>1
<1>7. CASE o.op = "leave"
  <2> DEFINE in2 == in \ {o.room}
  <2>1. IsFiniteSet(in2) /\ Cardinality(in2) <= MaxRooms
    <3>1. IsFiniteSet(in2) /\ Cardinality(in2) <= Cardinality(in)
      BY <1>3, FS_Subset
    <3>2. Cardinality(in2) \in Nat
      BY <3>1, FS_CardinalityType
    <3> QED BY <1>3, <3>1, <3>2, BoundsAssumption
  <2>2. o.room \notin in2 /\ \A r \in Room \ {o.room} : r \in in2 <=> r \in in
    OBVIOUS
  <2> HIDE DEF in2
  <2>3. Fit(Without(q, n), in2, held)
    BY <1>1, <1>2, <1>3, <1>5, <1>7, <2>1, <2>2, DoneFits
  <2>4. queue' = [queue EXCEPT ![c] = Without(q, n)] /\ rooms' = [rooms EXCEPT ![c] = in2]
        /\ holds' = [holds EXCEPT ![c] = held]
    BY <1>2, <1>6, <1>7 DEF in2
  <2> QED BY <2>3, <2>4, OneFits
<1>8. CASE o.op = "join" /\ o.room \in in
  <2>1. Fit(Without(q, n), in, held)
    BY <1>1, <1>2, <1>3, <1>5, <1>8, DoneFits
  <2>2. queue' = [queue EXCEPT ![c] = Without(q, n)] /\ rooms' = [rooms EXCEPT ![c] = in]
        /\ holds' = [holds EXCEPT ![c] = held]
    BY <1>2, <1>6, <1>8
  <2> QED BY <2>1, <2>2, OneFits
<1>9. CASE ~settled /\ full
  <2>1. queue' = [queue EXCEPT ![c] = Without(q, n)] /\ rooms' = [rooms EXCEPT ![c] = in]
        /\ RefuseRoom(c, n)
    BY <1>2, <1>9
  <2>2. PICK held2 : holds' = [holds EXCEPT ![c] = held2] /\ Fit(Without(q, n), in, held2)
    BY <1>2, <1>3, <1>9, <2>1, RefusalFits
  <2> QED BY <2>1, <2>2, OneFits
<1>10. CASE ~settled /\ ~full
  <2> DEFINE o2 == [o EXCEPT !.checking = TRUE]
             q2 == [q EXCEPT ![n] = o2]
  <2>1. o2 \in Operation /\ o2.op = o.op /\ o2.room = o.room
    BY <1>4 DEF Operation
  <2> HIDE DEF o2
  <2>2. /\ q2 \in Seq(Operation) /\ Len(q2) = Len(q) /\ q2[n] = o2
        /\ \A i \in 1 .. Len(q) : i # n => q2[i] = q[i]
    BY <1>1, <2>1, ExceptSeq
  <2>3. queue' = [queue EXCEPT ![c] = q2] /\ rooms' = [rooms EXCEPT ![c] = in]
        /\ holds' = [holds EXCEPT ![c] = held]
    BY <1>2, <1>6, <1>10 DEF o2
  <2> HIDE DEF q2
  <2>4. \A i \in 1 .. Len(q) : q2[i].op = q[i].op /\ q2[i].room = q[i].room
    BY <1>1, <2>1, <2>2
  <2>5. LastWord(q2, in, held)
    BY <1>3, <2>2, <2>4 DEF Fit, LastWord
  <2>6. OneChecking(q2, in)
    <3>1. \A i \in 1 .. Len(q) : i # n => ~q2[i].checking
      BY <1>2, <1>3, <2>2 DEF Fit, OneChecking
    <3> QED BY <1>2, <1>3, <1>4, <1>10, <2>1, <2>2, <3>1, BoundsAssumption DEF OneChecking
  <2>7. Fit(q2, in, held)
    BY <1>3, <2>5, <2>6 DEF Fit
  <2> QED BY <2>3, <2>7, OneFits
<1> QED BY <1>4, <1>7, <1>8, <1>9, <1>10

\* RoomsInv holds when the permission for a join has come back.
LEMMA FinishFits ==
  ASSUME Types, RoomsInv, NEW c \in Conn, NEW n \in 1 .. Len(queue[c]), FinishJoin(c, n)
  PROVE  RoomsInv'
<1> DEFINE q == queue[c]
           r == q[n].room
           in == rooms[c]
           held == holds[c]
<1>1. /\ q \in Seq(Operation) /\ in \in SUBSET Room /\ Len(q) \in Nat /\ r \in Room
      /\ rooms \in [Conn -> SUBSET Room] /\ holds \in [Conn -> SUBSET Room]
  <2>1. q \in Seq(Operation) /\ in \in SUBSET Room
        /\ rooms \in [Conn -> SUBSET Room] /\ holds \in [Conn -> SUBSET Room]
    BY DEF Types
  <2>2. Len(q) \in Nat /\ q[n] \in Operation
    BY <2>1, LenProperties, ElementOfSeq
  <2> QED BY <2>1, <2>2 DEF Operation
<1>2. Fit(q, in, held) /\ IsFiniteSet(in) /\ Cardinality(in) <= MaxRooms /\ Cardinality(in) \in Nat
  BY FS_CardinalityType DEF RoomsInv, Fit
<1>3. n = 1 /\ q[n].op = "join" /\ r \notin in /\ Cardinality(in) < MaxRooms
  BY <1>2 DEF FinishJoin, Fit, OneChecking
<1>4. queue' = [queue EXCEPT ![c] = Without(q, n)]
  BY DEF FinishJoin
<1>5. CASE rooms' = [rooms EXCEPT ![c] = in \union {r}] /\ holds' = holds
  <2> DEFINE in2 == in \union {r}
  <2>1. IsFiniteSet(in2) /\ Cardinality(in2) = Cardinality(in) + 1
    BY <1>2, <1>3, FS_AddElement
  <2>2. Cardinality(in2) <= MaxRooms
    BY <1>2, <1>3, <2>1, BoundsAssumption
  <2>3. r \in in2 /\ \A x \in Room \ {r} : x \in in2 <=> x \in in
    OBVIOUS
  <2>4. (\A k \in 2 .. Len(q) : q[k].room # r) => r \in held
    BY <1>1, <1>2, <1>3 DEF Fit, LastWord
  <2>5. rooms' = [rooms EXCEPT ![c] = in2] /\ holds' = [holds EXCEPT ![c] = held]
    BY <1>1, <1>5
  <2> HIDE DEF in2
  <2>6. Fit(Without(q, n), in2, held)
    BY <1>1, <1>2, <1>3, <2>1, <2>2, <2>3, <2>4, DoneFits
  <2> QED BY <1>4, <2>5, <2>6, OneFits
<1>6. CASE RefuseRoom(c, n) /\ rooms' = rooms
  <2>1. rooms' = [rooms EXCEPT ![c] = in]
    BY <1>1, <1>6
  <2>2. PICK held2 : holds' = [holds EXCEPT ![c] = held2] /\ Fit(Without(q, n), in, held2)
    BY <1>2, <1>3, <1>6, RefusalFits
  <2> QED BY <1>4, <2>1, <2>2, OneFits
<1> QED BY <1>5, <1>6 DEF FinishJoin

\* RoomsInv is inductive on typed states.
LEMMA RoomsStep ==
  ASSUME Types, RoomsInv, [Next]_vars
  PROVE  RoomsInv'
<1>1. CASE UNCHANGED roomVars
  BY <1>1 DEF roomVars, RoomsInv, Fit, OneChecking, LastWord
<1>2. ASSUME NEW c \in Conn, OnUserMessage(c) PROVE RoomsInv'
  <2>1. PICK o \in {"join", "leave"}, r \in Room :
          /\ queue' = [queue EXCEPT ![c] =
                          Append(queue[c], [op |-> o, room |-> r, checking |-> FALSE])]
          /\ holds' = [holds EXCEPT ![c] = IF o = "join" THEN holds[c] \union {r}
                                           ELSE holds[c] \ {r}]
    BY <1>2 DEF OnUserMessage
  <2>2. queue[c] \in Seq(Operation) /\ Fit(queue[c], rooms[c], holds[c])
        /\ rooms' = [rooms EXCEPT ![c] = rooms[c]]
    BY <1>2 DEF Types, RoomsInv, OnUserMessage
  <2>3. Fit(Append(queue[c], [op |-> o, room |-> r, checking |-> FALSE]), rooms[c],
            IF o = "join" THEN holds[c] \union {r} ELSE holds[c] \ {r})
    BY <2>2, AskFits
  <2> QED BY <2>1, <2>2, <2>3, OneFits
<1>3. ASSUME NEW c \in Conn, OnUserConnectionClose(c) PROVE RoomsInv'
  <2>1. queue' = [queue EXCEPT ![c] = <<>>] /\ rooms' = [rooms EXCEPT ![c] = {}]
        /\ holds' = [holds EXCEPT ![c] = {}]
    BY <1>3 DEF OnUserConnectionClose, RoomsSettled, Types
  <2> QED BY <2>1, NothingFits, OneFits
<1>4. CASE Exit
  <2>1. \A c \in Conn : queue'[c] = <<>> /\ rooms'[c] = {} /\ holds'[c] = {}
    BY <1>4 DEF Exit
  <2>2. \A c \in Conn : Fit(queue'[c], rooms'[c], holds'[c])
    BY <2>1, NothingFits
  <2> QED BY <2>2 DEF RoomsInv, Fit, OneChecking, LastWord
<1> QED BY <1>1, <1>2, <1>3, <1>4, OnlyRooms, StartFits, FinishFits
-----------------------------------------------------------------------------
(* The connections, and the sockets of a user.                             *)

\* A step that moves connections and sockets together, and empties what is over.
LEMMA Follow ==
  ASSUME Types, ConnectionsInv, sockets' \in [User -> SUBSET Conn],
         \A u \in User, c \in Conn : c \in sockets'[u] <=> UserOf[c] = u /\ conn'[c] \in Live,
         \A c \in Conn : conn'[c] \notin Live => queue'[c] = <<>> /\ rooms'[c] = {}
  PROVE  ConnectionsInv'
<1>1. \A u \in User : sockets'[u] = {c \in Conn : UserOf[c] = u /\ conn'[c] \in Live}
  OBVIOUS
<1> QED BY <1>1 DEF ConnectionsInv

\* What ConnectionsInv says of a single connection.
LEMMA Follows ==
  ASSUME Types, ConnectionsInv
  PROVE  /\ \A u \in User, c \in Conn : c \in sockets[u] <=> UserOf[c] = u /\ conn[c] \in Live
         /\ \A c \in Conn : conn[c] \notin Live => queue[c] = <<>> /\ rooms[c] = {}
         /\ \A c \in Conn : queue[c] # <<>> => conn[c] \in Live
  BY DEF Types, ConnectionsInv

\* ConnectionsInv is inductive on typed states.
LEMMA ConnectionsStep ==
  ASSUME Types, ConnectionsInv, [Next]_vars
  PROVE  ConnectionsInv'
<1>1. sockets \in [User -> SUBSET Conn] /\ conn \in [Conn -> Phase]
      /\ queue \in [Conn -> Seq(Operation)] /\ rooms \in [Conn -> SUBSET Room]
  BY DEF Types
<1>2. CASE UNCHANGED <<conn, sockets, queue, rooms>>
  BY <1>2 DEF ConnectionsInv
<1>3. ASSUME UNCHANGED <<sockets, queue, rooms>>, conn' \in [Conn -> Phase],
             \A c \in Conn : conn'[c] \in Live <=> conn[c] \in Live
      PROVE  ConnectionsInv'
  BY <1>1, <1>3, Follow, Follows
<1>4. ASSUME NEW c \in Conn, AuthenticateUpgrade(c) \/ LeaveUnregistered(c) PROVE ConnectionsInv'
  <2>1. /\ UNCHANGED <<sockets, queue, rooms>> /\ conn[c] \notin Live
        /\ \E p \in {"gone", "validated"} : conn' = [conn EXCEPT ![c] = p]
    BY <1>4 DEF AuthenticateUpgrade, LeaveUnregistered, presence, roomVars, Enter, Live
  <2> QED BY <1>1, <1>3, <2>1 DEF Live, Phase
<1>5. ASSUME NEW c \in Conn, SetupUserConnection(c) PROVE ConnectionsInv'
  <2>1. /\ UNCHANGED <<queue, rooms>> /\ conn' = [conn EXCEPT ![c] = "open"]
        /\ sockets' = [sockets EXCEPT ![UserOf[c]] = sockets[UserOf[c]] \union {c}]
    BY <1>5 DEF SetupUserConnection, Enter, roomVars
  <2>2. UserOf[c] \in User
    BY ConnAssumption
  <2>3. conn'[c] = "open" /\ \A d \in Conn : d # c => conn'[d] = conn[d]
    BY <1>1, <2>1
  <2>4. \A u \in User, d \in Conn :
           d \in sockets'[u] <=> d \in sockets[u] \/ (u = UserOf[c] /\ d = c)
    BY <1>1, <2>1, <2>2
  <2>5. sockets' \in [User -> SUBSET Conn]
    BY <1>1, <2>1, <2>2
  <2>6. \A u \in User, d \in Conn : d \in sockets'[u] <=> UserOf[d] = u /\ conn'[d] \in Live
    BY <2>3, <2>4, Follows DEF Live
  <2>7. \A d \in Conn : conn'[d] \notin Live => queue'[d] = <<>> /\ rooms'[d] = {}
    BY <2>1, <2>3, Follows DEF Live
  <2> QED BY <2>5, <2>6, <2>7, Follow
<1>6. ASSUME NEW c \in Conn, OnUserConnectionClose(c) PROVE ConnectionsInv'
  <2>1. /\ conn' = [conn EXCEPT ![c] = "gone"] /\ conn[c] = "leaving"
        /\ sockets' = [sockets EXCEPT ![UserOf[c]] = sockets[UserOf[c]] \ {c}]
        /\ queue[c] = <<>> /\ queue' = queue /\ rooms' = [rooms EXCEPT ![c] = {}]
    BY <1>6 DEF OnUserConnectionClose, Enter, RoomsSettled
  <2>2. UserOf[c] \in User
    BY ConnAssumption
  <2>3. conn'[c] = "gone" /\ \A d \in Conn : d # c => conn'[d] = conn[d]
    BY <1>1, <2>1
  <2>4. \A u \in User, d \in Conn :
           d \in sockets'[u] <=> d \in sockets[u] /\ ~(u = UserOf[c] /\ d = c)
    BY <1>1, <2>1, <2>2
  <2>5. sockets' \in [User -> SUBSET Conn]
    BY <1>1, <2>1, <2>2
  <2>6. \A u \in User, d \in Conn : d \in sockets'[u] <=> UserOf[d] = u /\ conn'[d] \in Live
    BY <2>3, <2>4, Follows DEF Live
  <2>7. \A d \in Conn : conn'[d] \notin Live => queue'[d] = <<>> /\ rooms'[d] = {}
    BY <1>1, <2>1, <2>3, Follows
  <2> QED BY <2>5, <2>6, <2>7, Follow
<1>7. ASSUME NEW c \in Conn, ClientCloses(c) \/ CloseEvent(c) PROVE ConnectionsInv'
  <2>1. /\ UNCHANGED <<sockets, queue, rooms>>
        /\ \/ conn' = conn
           \/ conn[c] \in Live /\ \E p \in {"closing", "leaving"} : conn' = [conn EXCEPT ![c] = p]
    BY <1>7 DEF ClientCloses, CloseEvent, presence, roomVars, Enter, Live
  <2> QED BY <1>1, <1>3, <2>1 DEF Live, Phase
<1>8. ASSUME UNCHANGED <<sockets, queue, rooms>>, NEW S,
             conn' = [c \in Conn |-> IF c \in S /\ conn[c] = "open" THEN "closing" ELSE conn[c]]
      PROVE  ConnectionsInv'
  BY <1>1, <1>3, <1>8 DEF Live, Phase
<1>9. CASE SweepConnections
  <2>1. conn' = [c \in Conn |-> IF c \in {d \in Conn : Overdue(d)} /\ conn[c] = "open"
                                THEN "closing" ELSE conn[c]]
    BY <1>9 DEF SweepConnections
  <2> QED BY <1>8, <1>9, <2>1 DEF SweepConnections, presence, roomVars
<1>10. ASSUME NEW u \in User, CloseRevokedSession(u) PROVE ConnectionsInv'
  <2>1. conn' = [c \in Conn |-> IF c \in sockets[u] /\ conn[c] = "open"
                                THEN "closing" ELSE conn[c]]
    BY <1>10 DEF CloseRevokedSession
  <2> QED BY <1>8, <1>10, <2>1 DEF CloseRevokedSession, presence, roomVars
<1>11. CASE StopWebSocketServer
  <2>1. conn' = [c \in Conn |-> IF c \in Conn /\ conn[c] = "open" THEN "closing" ELSE conn[c]]
    BY <1>11 DEF StopWebSocketServer
  <2> QED BY <1>8, <1>11, <2>1 DEF StopWebSocketServer, roomVars
<1>12. CASE Exit
  <2>1. \A c \in Conn : conn'[c] \notin Live /\ queue'[c] = <<>> /\ rooms'[c] = {}
    BY <1>12 DEF Exit, Live
  <2>2. sockets' = [u \in User |-> {}]
    BY <1>12 DEF Exit
  <2> QED BY <2>1, <2>2, Follow
<1>13. ASSUME NEW c \in Conn, UNCHANGED <<conn, sockets>>, conn[c] \in Live,
              \A d \in Conn \ {c} : queue'[d] = queue[d] /\ rooms'[d] = rooms[d]
       PROVE  ConnectionsInv'
  BY <1>1, <1>13, Follow, Follows
<1>14. ASSUME NEW c \in Conn, OnUserMessage(c) PROVE ConnectionsInv'
  <2>1. UNCHANGED <<conn, sockets>> /\ conn[c] \in Live
        /\ \A d \in Conn \ {c} : queue'[d] = queue[d] /\ rooms'[d] = rooms[d]
    BY <1>1, <1>14 DEF OnUserMessage, presence, Live
  <2> QED BY <1>13, <2>1
<1>15. ASSUME NEW c \in Conn, NEW i \in 1 .. Len(queue[c]), StartOperation(c, i) \/ FinishJoin(c, i)
       PROVE  ConnectionsInv'
  <2>1. conn[c] \in Live
    <3>1. queue[c] # <<>>
      <4>1. Len(<<>>) = 0
        OBVIOUS
      <4> QED BY <4>1
    <3> QED BY <3>1, Follows
  <2>2. UNCHANGED <<conn, sockets>> /\ \A d \in Conn \ {c} : queue'[d] = queue[d] /\ rooms'[d] = rooms[d]
    <3>1. CASE StartOperation(c, i)
      BY <1>1, <3>1 DEF StartOperation, presence
    <3>2. CASE FinishJoin(c, i)
      BY <1>1, <3>2 DEF FinishJoin, presence
    <3> QED BY <1>15, <3>1, <3>2
  <2> QED BY <1>13, <2>1, <2>2
<1>16. ASSUME [Next]_vars
       PROVE  \/ UNCHANGED <<conn, sockets, queue, rooms>>
              \/ \E c \in Conn : \/ AuthenticateUpgrade(c) \/ LeaveUnregistered(c)
                                \/ SetupUserConnection(c) \/ OnUserConnectionClose(c)
                                \/ ClientCloses(c) \/ CloseEvent(c) \/ OnUserMessage(c)
              \/ \E c \in Conn : \E i \in 1 .. Len(queue[c]) : StartOperation(c, i) \/ FinishJoin(c, i)
              \/ \E u \in User : CloseRevokedSession(u)
              \/ SweepConnections \/ StopWebSocketServer \/ Exit
  BY <1>16 DEF Next, vars, presence, roomVars, ServeConn, ServeUser, GraceEnds, UpdateOnlineStatus,
     Pong, Expire, RevokeSession, CommitRevocation, LosePush, Restart
<1> QED BY <1>2, <1>4, <1>5, <1>6, <1>7, <1>9, <1>10, <1>11, <1>12, <1>14, <1>15, <1>16
-----------------------------------------------------------------------------
(* Who is waited for, and who is shown.                                    *)

LEMMA OnlyFlags ==
  ASSUME [Next]_vars
  PROVE  \/ UNCHANGED <<server, entry, timer, sockets, flags>>
         \/ \E c \in Conn : SetupUserConnection(c) \/ OnUserConnectionClose(c)
         \/ \E u \in User : GraceEnds(u) \/ \E value \in BOOLEAN : UpdateOnlineStatus(u, value)
         \/ StopWebSocketServer \/ Exit \/ Restart
  BY DEF Next, vars, presence, ServeConn, ServeUser, AuthenticateUpgrade, LeaveUnregistered,
     OnUserMessage, StartOperation, FinishJoin, ClientCloses, CloseEvent, SweepConnections, Pong,
     Expire, RevokeSession, CommitRevocation, CloseRevokedSession, LosePush

\* GraceInv is inductive on typed states.
LEMMA GraceStep ==
  ASSUME Types, GraceInv, [Next]_vars
  PROVE  GraceInv'
<1>1. /\ sockets \in [User -> SUBSET Conn] /\ writes \in [User -> SUBSET BOOLEAN]
      /\ server \in {"down", "up", "stopping"}
  BY DEF Types
<1>2. CASE UNCHANGED <<server, entry, timer, sockets, flags>>
  BY <1>2 DEF GraceInv, flags
<1>3. ASSUME NEW c \in Conn, SetupUserConnection(c) PROVE GraceInv'
  <2>1. UserOf[c] \in User
    BY ConnAssumption
  <2>2. sockets'[UserOf[c]] # {} /\ \A u \in User \ {UserOf[c]} : sockets'[u] = sockets[u]
    BY <1>1, <1>3, <2>1 DEF SetupUserConnection
  <2>3. server # "down" /\ server' = server
        /\ timer' = timer \ {UserOf[c]} /\ entry' = entry \union {UserOf[c]}
    BY <1>3 DEF SetupUserConnection, Running
  <2>4. entry' \subseteq User
    BY <2>1, <2>3 DEF Types
  <2> QED BY <2>2, <2>3, <2>4 DEF GraceInv
<1>4. ASSUME NEW c \in Conn, OnUserConnectionClose(c) PROVE GraceInv'
  <2>1. UserOf[c] \in User /\ entry \subseteq User
    BY ConnAssumption DEF Types
  <2>2. \A u \in User \ {UserOf[c]} : sockets'[u] = sockets[u]
    BY <1>1, <1>4 DEF OnUserConnectionClose
  <2>3. UNCHANGED <<server, entry, writes>>
        /\ timer' = IF UserOf[c] \in entry /\ sockets'[UserOf[c]] = {} THEN timer \union {UserOf[c]}
                    ELSE timer
    BY <1>4 DEF OnUserConnectionClose, flags
  <2> QED BY <2>1, <2>2, <2>3 DEF GraceInv
<1>5. ASSUME NEW u \in User, GraceEnds(u) PROVE GraceInv'
  <2>1. server # "down"
    BY <1>5 DEF GraceEnds, GraceInv
  <2>2. /\ UNCHANGED <<server, sockets>> /\ timer' = timer \ {u}
        /\ entry' = entry \/ entry' = entry \ {u}
        /\ sockets[u] # {} \/ entry' = entry \ {u}
    BY <1>5 DEF GraceEnds
  <2>3. entry \subseteq User /\ entry' \subseteq entry
    BY <2>2 DEF Types
  <2> QED BY <2>1, <2>2, <2>3 DEF GraceInv
<1>6. ASSUME NEW u \in User, NEW value \in BOOLEAN, UpdateOnlineStatus(u, value) PROVE GraceInv'
  <2>1. UNCHANGED <<server, entry, timer, sockets>> /\ writes' = [writes EXCEPT ![u] = @ \ {value}]
    BY <1>6 DEF UpdateOnlineStatus, presence
  <2>2. \A v \in User : writes'[v] \subseteq writes[v]
    BY <1>1, <2>1
  <2> QED BY <2>1, <2>2 DEF GraceInv
<1>7. CASE StopWebSocketServer
  BY <1>7 DEF StopWebSocketServer, GraceInv
<1>8. CASE Exit
  BY <1>8 DEF Exit, GraceInv
<1>9. CASE Restart
  BY <1>9 DEF Restart, GraceInv, presence
<1> QED BY <1>2, <1>3, <1>4, <1>5, <1>6, <1>7, <1>8, <1>9, OnlyFlags

\* A write of the right value is issued for one user.
LEMMA IssueFollows ==
  ASSUME Types, FlagsInv, NEW u \in User, NEW value \in BOOLEAN, IssueWrite(u, value),
         server' = server, \A v \in User \ {u} : v \in entry' <=> v \in entry,
         value = TRUE => u \in entry', value = FALSE => u \notin entry'
  PROVE  FlagsInv'
<1>1. /\ writes' = [writes EXCEPT ![u] = writes[u] \union {value}]
      /\ raced' = IF writes[u] = {} THEN raced ELSE raced \union {u}
      /\ online' = online
  BY DEF IssueWrite
<1>2. writes \in [User -> SUBSET BOOLEAN]
  BY DEF Types
<1>3. /\ writes'[u] = writes[u] \union {value}
      /\ \A v \in User \ {u} : writes'[v] = writes[v]
  BY <1>1, <1>2
<1>4. ASSUME server' = "up", NEW v \in User \ raced'
      PROVE  /\ TRUE \in writes'[v] => v \in entry'
             /\ FALSE \in writes'[v] => v \notin entry'
             /\ writes'[v] = {} => (online'[v] <=> v \in entry')
  <2>1. CASE v = u
    <3>1. writes'[u] = {value}
      BY <1>1, <1>3, <1>4, <2>1
    <3> QED BY <2>1, <3>1
  <2>2. CASE v # u
    <3>1. v \in User \ raced /\ writes'[v] = writes[v] /\ (v \in entry' <=> v \in entry)
      BY <1>1, <1>3, <1>4, <2>2
    <3> QED BY <1>1, <1>4, <3>1 DEF FlagsInv
  <2> QED BY <2>1, <2>2
<1> QED BY <1>4 DEF FlagsInv

\* FlagsInv is inductive where the grace timers are as GraceInv says.
LEMMA FlagsStep ==
  ASSUME Types, GraceInv, FlagsInv, [Next]_vars
  PROVE  FlagsInv'
<1>1. /\ sockets \in [User -> SUBSET Conn] /\ writes \in [User -> SUBSET BOOLEAN]
      /\ online \in [User -> BOOLEAN] /\ entry \subseteq User
  BY DEF Types
<1>2. CASE UNCHANGED <<server, entry, flags>>
  BY <1>2 DEF FlagsInv, flags
<1>3. ASSUME NEW c \in Conn, SetupUserConnection(c) PROVE FlagsInv'
  <2>1. UserOf[c] \in User
    BY ConnAssumption
  <2>2. server' = server /\ entry' = entry \union {UserOf[c]}
        /\ IF UserOf[c] \in entry THEN UNCHANGED flags ELSE IssueWrite(UserOf[c], TRUE)
    BY <1>3 DEF SetupUserConnection
  <2>3. CASE UserOf[c] \in entry
    BY <1>2, <2>2, <2>3
  <2>4. CASE UserOf[c] \notin entry
    BY <2>1, <2>2, <2>4, IssueFollows
  <2> QED BY <2>3, <2>4
<1>4. ASSUME NEW u \in User, GraceEnds(u) PROVE FlagsInv'
  <2>1. server' = server
        /\ IF sockets[u] # {} THEN UNCHANGED <<entry, flags>>
           ELSE entry' = entry \ {u} /\ IssueWrite(u, FALSE)
    BY <1>4 DEF GraceEnds
  <2>2. CASE sockets[u] # {}
    BY <1>2, <2>1, <2>2
  <2>3. CASE sockets[u] = {}
    BY <2>1, <2>3, IssueFollows
  <2> QED BY <2>2, <2>3
<1>5. ASSUME NEW u \in User, NEW value \in BOOLEAN, UpdateOnlineStatus(u, value) PROVE FlagsInv'
  <2>1. /\ UNCHANGED <<server, entry>> /\ value \in writes[u]
        /\ writes' = [writes EXCEPT ![u] = writes[u] \ {value}]
        /\ \/ online' = [online EXCEPT ![u] = value] /\ raced' = raced
           \/ raced' = raced \union {u} /\ online' = online
    BY <1>5 DEF UpdateOnlineStatus, presence
  <2>2. /\ writes'[u] = writes[u] \ {value}
        /\ \A v \in User \ {u} : writes'[v] = writes[v] /\ online'[v] = online[v]
        /\ u \notin raced' => online'[u] = value
    BY <1>1, <2>1
  <2>3. ASSUME server' = "up", NEW v \in User \ raced'
        PROVE  /\ TRUE \in writes'[v] => v \in entry'
               /\ FALSE \in writes'[v] => v \notin entry'
               /\ writes'[v] = {} => (online'[v] <=> v \in entry')
    <3>1. /\ v \in User \ raced
          /\ TRUE \in writes[v] => v \in entry
          /\ FALSE \in writes[v] => v \notin entry
          /\ writes[v] = {} => (online[v] <=> v \in entry)
      BY <2>1, <2>3 DEF FlagsInv
    <3>2. CASE v # u
      BY <2>1, <2>2, <3>1, <3>2
    <3>3. CASE v = u
      <4>1. online'[u] = value
        BY <2>1, <2>2, <2>3, <3>3
      <4>2. value = TRUE \/ value = FALSE
        OBVIOUS
      <4>3. online'[v] <=> v \in entry'
        BY <2>1, <3>1, <3>3, <4>1, <4>2
      <4> QED BY <2>1, <2>2, <3>1, <3>3, <4>3
    <3> QED BY <3>2, <3>3
  <2> QED BY <2>3 DEF FlagsInv
<1>6. CASE StopWebSocketServer
  BY <1>6 DEF StopWebSocketServer, FlagsInv
<1>7. CASE Exit
  BY <1>7 DEF Exit, FlagsInv
<1>8. CASE Restart
  BY <1>8 DEF Restart, FlagsInv, GraceInv, presence
<1>9. ASSUME NEW c \in Conn, OnUserConnectionClose(c) PROVE FlagsInv'
  BY <1>2, <1>9 DEF OnUserConnectionClose
<1> QED BY <1>2, <1>3, <1>4, <1>5, <1>6, <1>7, <1>8, <1>9, OnlyFlags
-----------------------------------------------------------------------------
(* The types, and the theorems.                                            *)

LEMMA BudgetStep ==
  ASSUME Types, NEW kind \in {"conns", "ops", "stops", "faults", "revocations"}, Spend(kind)
  PROVE  budget' \in [{"conns", "ops", "stops", "faults", "revocations"} -> Nat]
<1>1. budget[kind] \in Nat /\ budget[kind] > 0
  BY DEF Types, Spend
<1>2. budget[kind] - 1 \in Nat
  BY <1>1
<1> QED BY <1>2 DEF Types, Spend

\* Types are kept, given that no room operation exceeds its bound.
LEMMA TypesStep ==
  ASSUME Types, RoomsInv, [Next]_vars
  PROVE  Types'
<1> DEFINE Kinds == {"conns", "ops", "stops", "faults", "revocations"}
<1>1. CASE UNCHANGED vars
  BY <1>1 DEF Types, vars, presence, flags, roomVars, session
<1>2. ASSUME NEW c \in Conn PROVE UserOf[c] \in User
  BY ConnAssumption
<1>3. ASSUME NEW c \in Conn, AuthenticateUpgrade(c) PROVE Types'
  <2>1. budget' \in [Kinds -> Nat]
    BY <1>3, BudgetStep DEF AuthenticateUpgrade
  <2> QED BY <1>3, <2>1 DEF AuthenticateUpgrade, Types, Enter, Phase, presence, flags, roomVars, session
<1>4. ASSUME NEW c \in Conn, LeaveUnregistered(c) PROVE Types'
  BY <1>4 DEF LeaveUnregistered, Types, Enter, Phase, presence, flags, roomVars, session
<1>5. ASSUME NEW u \in User, NEW value \in BOOLEAN, IssueWrite(u, value)
      PROVE  /\ online' \in [User -> BOOLEAN] /\ writes' \in [User -> SUBSET BOOLEAN]
             /\ raced' \subseteq User
  BY <1>5 DEF IssueWrite, Types
<1>6. ASSUME NEW c \in Conn, SetupUserConnection(c) PROVE Types'
  <2>1. /\ online' \in [User -> BOOLEAN] /\ writes' \in [User -> SUBSET BOOLEAN]
        /\ raced' \subseteq User
    BY <1>2, <1>5, <1>6 DEF SetupUserConnection, Types, flags
  <2>2. sockets' \in [User -> SUBSET Conn] /\ entry' \subseteq User /\ timer' \subseteq User
    BY <1>2, <1>6 DEF SetupUserConnection, Types
  <2> QED BY <1>6, <2>1, <2>2 DEF SetupUserConnection, Types, Enter, Phase, roomVars, session
<1>7. ASSUME NEW c \in Conn, OnUserMessage(c) PROVE Types'
  <2>1. budget' \in [Kinds -> Nat]
    BY <1>7, BudgetStep DEF OnUserMessage
  <2>2. PICK o \in {"join", "leave"}, r \in Room :
          /\ queue' = [queue EXCEPT ![c] =
                          Append(queue[c], [op |-> o, room |-> r, checking |-> FALSE])]
          /\ holds' = [holds EXCEPT ![c] = IF o = "join" THEN holds[c] \union {r}
                                           ELSE holds[c] \ {r}]
    BY <1>7 DEF OnUserMessage
  <2>3. Append(queue[c], [op |-> o, room |-> r, checking |-> FALSE]) \in Seq(Operation)
    <3>1. queue[c] \in Seq(Operation) /\ [op |-> o, room |-> r, checking |-> FALSE] \in Operation
      BY DEF Types, Operation
    <3> QED BY <3>1, AppendProperties
  <2>4. queue' \in [Conn -> Seq(Operation)] /\ holds' \in [Conn -> SUBSET Room]
    BY <2>2, <2>3 DEF Types
  <2> QED BY <1>7, <2>1, <2>4 DEF OnUserMessage, Types, presence, flags, session
<1>8. ASSUME NEW c \in Conn, NEW i \in 1 .. Len(queue[c]), RefuseRoom(c, i) \/ UNCHANGED holds
      PROVE  holds' \in [Conn -> SUBSET Room]
  <2>1. holds \in [Conn -> SUBSET Room]
    BY DEF Types
  <2>2. holds' = holds \/ \E r : holds' = [holds EXCEPT ![c] = holds[c] \ {r}]
    BY <1>8 DEF RefuseRoom
  <2> QED BY <2>1, <2>2
<1>9. ASSUME NEW c \in Conn, NEW i \in 1 .. Len(queue[c]), i = 1
      PROVE  Without(queue[c], i) \in Seq(Operation)
  BY <1>9, Dequeued DEF Types
<1>10. ASSUME NEW c \in Conn, NEW i \in 1 .. Len(queue[c]), StartOperation(c, i) PROVE Types'
  <2>1. holds' \in [Conn -> SUBSET Room]
    BY <1>8, <1>10 DEF StartOperation
  <2> DEFINE q == queue[c]
             q2 == [q EXCEPT ![i].checking = TRUE]
  <2>2. Without(q, i) \in Seq(Operation)
    BY <1>9, <1>10 DEF StartOperation, Turn
  <2>3. q2 \in Seq(Operation)
    <3>1. q \in Seq(Operation) /\ q[i] \in Operation
      BY ElementOfSeq DEF Types
    <3>2. [q[i] EXCEPT !.checking = TRUE] \in Operation
      BY <3>1 DEF Operation
    <3> QED BY <3>1, <3>2, ExceptSeq
  <2>4. \E x \in {Without(q, i), q2} : queue' = [queue EXCEPT ![c] = x]
    BY <1>10 DEF StartOperation
  <2> HIDE DEF q, q2
  <2>5. queue' \in [Conn -> Seq(Operation)]
    BY <2>2, <2>3, <2>4 DEF Types
  <2>6. rooms' \in [Conn -> SUBSET Room]
    BY <1>10 DEF StartOperation, Types
  <2> QED BY <1>10, <2>1, <2>5, <2>6 DEF StartOperation, Types, presence, flags, session
<1>11. ASSUME NEW c \in Conn, NEW i \in 1 .. Len(queue[c]), FinishJoin(c, i) PROVE Types'
  <2>1. holds' \in [Conn -> SUBSET Room]
    BY <1>8, <1>11 DEF FinishJoin
  <2>2. i = 1
    BY <1>11 DEF FinishJoin, RoomsInv, Fit, OneChecking
  <2>3. queue' \in [Conn -> Seq(Operation)]
    BY <1>9, <1>11, <2>2 DEF FinishJoin, Types
  <2>4. queue[c][i].room \in Room
    <3>1. queue[c] \in Seq(Operation)
      BY DEF Types
    <3>2. queue[c][i] \in Operation
      BY <3>1, ElementOfSeq
    <3> QED BY <3>2 DEF Operation
  <2>5. rooms' \in [Conn -> SUBSET Room]
    <3>1. rooms' = rooms \/ rooms' = [rooms EXCEPT ![c] = rooms[c] \union {queue[c][i].room}]
      BY <1>11 DEF FinishJoin
    <3>2. rooms \in [Conn -> SUBSET Room]
      BY DEF Types
    <3> QED BY <2>4, <3>1, <3>2
  <2> QED BY <1>11, <2>1, <2>3, <2>5 DEF FinishJoin, Types, presence, flags, session
<1>12. ASSUME NEW c \in Conn, ClientCloses(c) \/ CloseEvent(c) PROVE Types'
  BY <1>12 DEF ClientCloses, CloseEvent, Types, Enter, Phase, presence, flags, roomVars, session
<1>13. ASSUME NEW c \in Conn, OnUserConnectionClose(c) PROVE Types'
  <2>1. sockets' \in [User -> SUBSET Conn] /\ timer' \subseteq User
    BY <1>2, <1>13 DEF OnUserConnectionClose, Types
  <2>2. rooms' \in [Conn -> SUBSET Room] /\ holds' \in [Conn -> SUBSET Room]
    BY <1>13 DEF OnUserConnectionClose, Types
  <2> QED BY <1>13, <2>1, <2>2 DEF OnUserConnectionClose, Types, Enter, Phase, flags, session
<1>14. ASSUME NEW u \in User, GraceEnds(u) PROVE Types'
  <2>1. /\ online' \in [User -> BOOLEAN] /\ writes' \in [User -> SUBSET BOOLEAN]
        /\ raced' \subseteq User /\ entry' \subseteq User
    BY <1>5, <1>14 DEF GraceEnds, Types, flags
  <2> QED BY <1>14, <2>1 DEF GraceEnds, Types, roomVars, session
<1>15. ASSUME NEW u \in User, NEW value \in BOOLEAN, UpdateOnlineStatus(u, value) PROVE Types'
  <2>1. budget' \in [Kinds -> Nat]
    BY <1>15, BudgetStep DEF UpdateOnlineStatus, Types
  <2>2. /\ online' \in [User -> BOOLEAN] /\ writes' \in [User -> SUBSET BOOLEAN]
        /\ raced' \subseteq User
    BY <1>15 DEF UpdateOnlineStatus, Types
  <2> QED BY <1>15, <2>1, <2>2 DEF UpdateOnlineStatus, Types, presence, roomVars, session
<1>16. CASE SweepConnections
  BY <1>16 DEF SweepConnections, Types, Phase, presence, flags, roomVars, session
<1>17. ASSUME NEW c \in Conn, Pong(c) \/ Expire(c) PROVE Types'
  BY <1>17 DEF Pong, Expire, Types, presence, flags, roomVars, session
<1>18. ASSUME NEW u \in User, RevokeSession(u) \/ LosePush(u) PROVE Types'
  <2>1. budget' \in [Kinds -> Nat]
    BY <1>18, BudgetStep DEF RevokeSession, LosePush
  <2> QED BY <1>18, <2>1 DEF RevokeSession, LosePush, Types, presence, flags, roomVars
<1>19. ASSUME NEW u \in User, CommitRevocation(u) \/ CloseRevokedSession(u) PROVE Types'
  BY <1>19 DEF CommitRevocation, CloseRevokedSession, Types, Phase, presence, flags, roomVars
<1>20. CASE StopWebSocketServer
  BY <1>20 DEF StopWebSocketServer, Types, Phase, flags, roomVars, session
<1>21. CASE Exit
  <2>1. budget' \in [Kinds -> Nat]
    BY <1>21, BudgetStep DEF Exit
  <2>2. <<>> \in Seq(Operation)
    BY EmptySeq
  <2> QED BY <1>21, <2>1, <2>2 DEF Exit, Types, Phase, session
<1>22. CASE Restart
  BY <1>22 DEF Restart, Types, presence, roomVars, session
<1> HIDE DEF Kinds
<1> QED BY <1>1, <1>3, <1>4, <1>6, <1>7, <1>10, <1>11, <1>12, <1>13, <1>14, <1>15, <1>16, <1>17,
           <1>18, <1>19, <1>20, <1>21, <1>22 DEF Next, ServeConn, ServeUser

\* The start satisfies the invariant.
LEMMA InitIInv == Init => IInv
<1> SUFFICES ASSUME Init PROVE IInv
  OBVIOUS
<1>1. Types
  <2>1. budget \in [{"conns", "ops", "stops", "faults", "revocations"} -> Nat]
    BY BoundsAssumption DEF Init
  <2>2. <<>> \in Seq(Operation)
    BY EmptySeq
  <2> QED BY <2>1, <2>2 DEF Init, Types, Phase
<1>2. ConnectionsInv /\ GraceInv /\ FlagsInv
  BY DEF Init, ConnectionsInv, GraceInv, FlagsInv, Live
<1>3. RoomsInv
  BY NothingFits DEF Init, RoomsInv
<1> QED BY <1>1, <1>2, <1>3 DEF IInv

\* The types and the four parts of the invariant hold at all times.
THEOREM Invariant == Spec => []IInv
<1>1. IInv /\ [Next]_vars => IInv'
  BY TypesStep, ConnectionsStep, GraceStep, FlagsStep, RoomsStep DEF IInv
<1> QED BY <1>1, InitIInv, PTL DEF Spec

\* The sockets of a user are his connections that are not over, nothing that is over is in a
\* room, and a user without a socket is waited for.
THEOREM AlwaysRegistered == Spec => []Registered
<1>1. ASSUME IInv PROVE Registered
  <2>1. TypeOK
    <3>1. \A c \in Conn : \A i \in 1 .. Len(queue[c]) : queue[c][i] \in Operation
      BY <1>1, ElementOfSeq DEF IInv, Types
    <3> QED BY <1>1, <3>1 DEF IInv, Types, TypeOK
  <2>2. SocketsFollowConnections
    BY <1>1 DEF IInv, ConnectionsInv, SocketsFollowConnections, Live
  <2>3. GraceIsTimed
    BY <1>1 DEF IInv, GraceInv, GraceIsTimed
  <2> QED BY <2>1, <2>2, <2>3 DEF Registered
<1> QED BY <1>1, Invariant, PTL

\* When no write is under way, a user is shown as online exactly if he counts as connected.
THEOREM PresenceAlwaysFollows == Spec => []PresenceFollows
<1>1. IInv => PresenceFollows
  BY DEF IInv, FlagsInv, PresenceFollows
<1> QED BY <1>1, Invariant, PTL

\* A connection is in no more rooms than it may be, and in those its client holds.
THEOREM RoomsAlwaysFollow == Spec => []RoomsFollow
<1>1. ASSUME IInv PROVE RoomsFollow
  <2>1. RoomsBounded
    BY <1>1 DEF IInv, RoomsInv, Fit, RoomsBounded
  <2>2. ASSUME NEW c \in Conn, queue[c] = <<>> PROVE rooms[c] = holds[c]
    <3>1. Len(queue[c]) = 0 /\ rooms[c] \in SUBSET Room /\ holds[c] \in SUBSET Room
      BY <1>1, <2>2 DEF IInv, Types
    <3>2. \A r \in Room : r \in holds[c] <=> r \in rooms[c]
      BY <1>1, <3>1 DEF IInv, RoomsInv, Fit, LastWord
    <3> QED BY <3>1, <3>2
  <2> QED BY <2>1, <2>2 DEF RoomsFollow, RoomsAsHeld
<1> QED BY <1>1, Invariant, PTL
=============================================================================
