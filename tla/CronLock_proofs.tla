-------------------------- MODULE CronLock_proofs --------------------------
(***************************************************************************)
(* Proofs about CronLock, for any number of processes and tokens, any      *)
(* lifetime, renewal interval and call time-out that TimingAssumption      *)
(* relates, and any number of faults: one process holds the lock while the *)
(* timing holds, a lock that has not expired is never taken from its       *)
(* holder, and the lock implements Lease.                                  *)
(***************************************************************************)
EXTENDS CronLock, TLAPS

-----------------------------------------------------------------------------
(* The inductive invariant.                                                *)

First == {"acquire", "create", "granted", "refused"}

\* What a client that waits for m is doing.
Awaits(m) ==
    \/ pc[m.by] = "acquiring" /\ m.kind \in First
    \/ pc[m.by] = "held" /\ m.kind = "renew"
    \/ pc[m.by] = "releasing" /\ m.kind = "release"

\* A call is for the lock its client wants, or it is left over and carries a
\* token its client has no more use for; but for renewals the breaker gave up on.
Known(m) ==
    /\ m.token[1] = m.by
    /\ m.kind \in {"granted", "refused"} => m.awaited
    /\ m.kind = "create" => m.store = "mongo"
    /\ m.awaited => /\ m.token = handle[m.by].token
                    /\ m.store = handle[m.by].store
                    /\ Awaits(m)
    /\ m.token = handle[m.by].token =>
          /\ pc[m.by] = "acquiring" => m.awaited
          /\ pc[m.by] = "held" => /\ m.kind = "renew"
                                  /\ m.store = handle[m.by].store
                                  /\ m.store = "mongo" => m.awaited

\* A client that does not hold the lock waits for one call at most.
OneAwaited ==
    \A m, n \in calls :
        m.awaited /\ n.awaited /\ m.by = n.by /\ pc[m.by] # "held" => m = n

OwnToken == \A c \in Client : handle[c].token[1] = c

CallsInv == OwnToken /\ OneAwaited /\ \A m \in calls : Known(m)

Awaiting(c) == \E m \in calls : m.by = c /\ m.awaited

\* The least a holder's lock has left: an interval less for a renewal that did
\* not go through, and one less for a renewal that is not answered yet.
Least(c) ==
    Ttl - CallTimeout - RenewEvery + renewIn[c]
        - (IF missed[c] THEN RenewEvery ELSE 0)
        - (IF Awaiting(c) THEN RenewEvery ELSE 0)

Has(s, t, left) == lock[s].token = t /\ lock[s].left >= left

\* While the timing holds: calls are young, a renewal is as old as its client's
\* timer says, and who holds the lock, or is about to be told so, has it in the store.
Young == \A m \in calls : m.awaited => m.age <= CallTimeout

InStep == \A m \in calls :
    m.awaited /\ m.kind = "renew" => m.age = RenewEvery - renewIn[m.by]

Granted == \A m \in calls : m.kind = "granted" => Has(m.store, m.token, Ttl - m.age)

Lasting == \A c \in Holders : Has(handle[c].store, handle[c].token, Least(c))

LeaseInv == late = 0 => Young /\ InStep /\ Granted /\ Lasting

\* While no connection has changed, all clients use one store.
SideInv ==
    flips = 0 => \A c, d \in Client :
        /\ connected[c] = connected[d]
        /\ pc[c] # "idle" => handle[c].store = IF connected[d] THEN "redis" ELSE "mongo"

IInv == TypeOK /\ CallsInv /\ LeaseInv /\ SideInv

-----------------------------------------------------------------------------
(* Calls and tokens.                                                       *)

LEMMA Bounds ==
    /\ Ttl \in Nat /\ RenewEvery \in Nat /\ CallTimeout \in Nat
    /\ 0 < CallTimeout /\ CallTimeout < RenewEvery
    /\ 2 * RenewEvery + 2 * CallTimeout < Ttl
    /\ LateBudget \in Nat /\ FlipBudget \in Nat /\ FaultBudget \in Nat
    /\ MaxAge \in Nat /\ CallTimeout <= MaxAge
BY TimingAssumption, BudgetAssumption DEF MaxAge

\* The fields of a call.
LEMMA CallFields ==
    ASSUME NEW m \in Call
    PROVE  /\ m.by \in Client /\ m.store \in Store /\ m.token \in Token
           /\ m.age \in 0..MaxAge /\ m.age \in Nat /\ m.awaited \in BOOLEAN
           /\ m.kind \in {"acquire", "create", "renew", "release", "granted", "refused"}
BY Bounds DEF Call

\* Calls that agree in all fields are the same.
LEMMA SameCall ==
    ASSUME NEW m \in Call, NEW n \in Call, m.by = n.by, m.store = n.store,
           m.token = n.token, m.age = n.age, m.awaited = n.awaited, m.kind = n.kind
    PROVE  m = n
BY DEF Call

\* A call whose kind, whose waiting or whose age has changed is a call.
LEMMA Reply ==
    ASSUME NEW m \in Call,
           NEW k \in {"acquire", "create", "renew", "release", "granted", "refused"}
    PROVE  LET r == [m EXCEPT !.kind = k]
           IN /\ r \in Call
              /\ r.by = m.by /\ r.store = m.store /\ r.token = m.token
              /\ r.age = m.age /\ r.awaited = m.awaited /\ r.kind = k
BY DEF Call

\* A call nobody waits for any more.
LEMMA LeftOver ==
    ASSUME NEW m \in Call
    PROVE  LET r == [m EXCEPT !.awaited = FALSE]
           IN /\ r \in Call
              /\ r.by = m.by /\ r.store = m.store /\ r.token = m.token
              /\ r.age = m.age /\ r.awaited = FALSE /\ r.kind = m.kind
BY DEF Call

\* A call that has aged.
LEMMA Older ==
    ASSUME NEW m \in Call, NEW a \in 0..MaxAge
    PROVE  LET r == [m EXCEPT !.age = a]
           IN /\ r \in Call
              /\ r.by = m.by /\ r.store = m.store /\ r.token = m.token
              /\ r.age = a /\ r.awaited = m.awaited /\ r.kind = m.kind
BY DEF Call

\* A call just sent.
LEMMA NewCall ==
    ASSUME NEW c \in Client, NEW h \in Handle,
           NEW k \in {"acquire", "create", "renew", "release", "granted", "refused"}
    PROVE  LET r == Sent(c, h, k)
           IN /\ r \in Call
              /\ r.by = c /\ r.store = h.store /\ r.token = h.token
              /\ r.age = 0 /\ r.awaited = TRUE /\ r.kind = k
BY Bounds DEF Call, Handle, Sent

\* A token is somebody's.
LEMMA Tokens ==
    ASSUME NEW t \in Token
    PROVE  t # None /\ t[1] \in Client
BY DEF Token, None

\* The calls of a client that waits for none of them any more.
LEMMA AbandonedCalls ==
    ASSUME calls \subseteq Call, NEW c \in Client
    PROVE  /\ Abandoned(c) \subseteq Call
           /\ \A n \in Abandoned(c) :
                 \/ n \in calls /\ n.by # c
                 \/ \E m \in calls :
                       /\ n.by = c /\ m.by = c /\ ~n.awaited /\ n.store = m.store
                       /\ n.token = m.token /\ n.age = m.age /\ n.kind = m.kind
<1> SUFFICES ASSUME NEW n \in Abandoned(c)
             PROVE  /\ n \in Call
                    /\ \/ n \in calls /\ n.by # c
                       \/ \E m \in calls :
                             /\ n.by = c /\ m.by = c /\ ~n.awaited /\ n.store = m.store
                             /\ n.token = m.token /\ n.age = m.age /\ n.kind = m.kind
  OBVIOUS
<1>1. PICK m \in calls : n = IF m.by = c THEN [m EXCEPT !.awaited = FALSE] ELSE m
  BY DEF Abandoned
<1>2. CASE m.by = c
  <2>1. n = [m EXCEPT !.awaited = FALSE] BY <1>1, <1>2
  <2> QED BY <2>1, <1>2, LeftOver
<1>3. CASE m.by # c BY <1>1, <1>3
<1> QED BY <1>2, <1>3

-----------------------------------------------------------------------------
(* What a store does to a call and to the lock.                            *)

Asks(m) == m.awaited /\ m.kind \in {"acquire", "create"}

\* The call is gone, or the client that waits for it has the answer k on its way.
Replies(m) ==
    \/ ~Asks(m) /\ calls' = calls \ {m}
    \/ Asks(m) /\ \E k \in {"create", "granted", "refused"} :
          /\ calls' = (calls \ {m}) \cup {[m EXCEPT !.kind = k]}
          /\ k = "create" => m.store = "mongo"
          /\ k = "granted" => /\ lock'[m.store].token = m.token
                              /\ lock'[m.store].left >= Ttl - m.age

\* A renewal has gone through, or its client has missed one.
Renews(m) ==
    IF m.kind = "renew" /\ m.awaited
    THEN \/ /\ missed' = [missed EXCEPT ![m.by] = FALSE] /\ late' = late
            /\ lock'[m.store].token = m.token
            /\ lock'[m.store].left >= Ttl - m.age
         \/ Miss(m.by)
    ELSE missed' = missed /\ late' = late

\* A client that waits for its release goes idle.
Frees(m) ==
    pc' = IF m.kind = "release" /\ m.awaited THEN [pc EXCEPT ![m.by] = "idle"] ELSE pc

\* The lock of a store stays, or becomes the call's, or is given back by its own
\* release, or has expired.
Touches(m) ==
    /\ lock' \in [Store -> [token : Token \cup {None}, left : (-MaxAge)..Ttl]]
    /\ \A s \in Store :
          \/ lock'[s] = lock[s]
          \/ /\ s = m.store /\ lock[s].token \in {None, m.token}
             /\ m.kind \in {"acquire", "create", "renew"}
             /\ lock'[s].token = m.token /\ lock'[s].left >= Ttl - m.age
             /\ s = "redis" => lock'[s].left = Ttl
          \/ /\ s = m.store /\ lock[s].token = m.token /\ m.kind = "release"
          \/ lock[s].left <= 0

\* The locks of the stores after one is written or deleted.
LEMMA LockTypes ==
    ASSUME lock \in [Store -> [token : Token \cup {None}, left : (-MaxAge)..Ttl]],
           NEW m \in Call, NEW l \in Nat, l <= MaxAge
    PROVE  /\ Locked(m, Ttl - l) =>
                 /\ lock' \in [Store -> [token : Token \cup {None}, left : (-MaxAge)..Ttl]]
                 /\ lock'[m.store] = [token |-> m.token, left |-> Ttl - l]
                 /\ \A s \in Store \ {m.store} : lock'[s] = lock[s]
           /\ \A r \in Store : Unlocked(r) =>
                 /\ lock' \in [Store -> [token : Token \cup {None}, left : (-MaxAge)..Ttl]]
                 /\ \A s \in Store \ {r} : lock'[s] = lock[s]
<1>1. Ttl - l \in (-MaxAge)..Ttl /\ 0 \in (-MaxAge)..Ttl BY Bounds
<1>2. [token |-> m.token, left |-> Ttl - l] \in [token : Token \cup {None}, left : (-MaxAge)..Ttl]
  BY <1>1, CallFields
<1>3. Absent \in [token : Token \cup {None}, left : (-MaxAge)..Ttl] BY <1>1 DEF Absent
<1> HIDE DEF Absent
<1>4. m.store \in Store BY CallFields
<1> QED BY <1>2, <1>3, <1>4 DEF Locked, Unlocked

\* What an answer does, whichever call it answers.
LEMMA AnswerMoves ==
    ASSUME NEW m \in Call, NEW won \in BOOLEAN, Answer(m, won),
           won => \/ m.kind = "release"
                  \/ lock'[m.store].token = m.token /\ lock'[m.store].left >= Ttl - m.age
    PROVE  Replies(m) /\ Renews(m) /\ Frees(m)
<1>1. Frees(m) BY DEF Answer, Frees
<1>2. Renews(m) BY DEF Answer, Renews
<1>3. Replies(m)
  <2>1. CASE Asks(m)
    <3>1. m.kind # "release" BY <2>1 DEF Asks
    <3>2. CASE won
      <4>1. calls' = (calls \ {m}) \cup {[m EXCEPT !.kind = "granted"]}
        BY <2>1, <3>2 DEF Answer, Asks
      <4> QED BY <4>1, <3>1, <3>2, <2>1 DEF Replies
    <3>3. CASE ~won
      <4>1. calls' = (calls \ {m}) \cup {[m EXCEPT !.kind = "refused"]}
        BY <2>1, <3>3 DEF Answer, Asks
      <4> QED BY <4>1, <2>1 DEF Replies
    <3> QED BY <3>2, <3>3
  <2>2. CASE ~Asks(m)
    BY <2>2 DEF Answer, Asks, Replies
  <2> QED BY <2>1, <2>2
<1> QED BY <1>1, <1>2, <1>3

ServeMoves(m) == Touches(m) /\ Replies(m) /\ Renews(m) /\ Frees(m)

\* What serving a call does, whichever store serves it.
LEMMA ServeMovesOn ==
    ASSUME TypeOK, NEW m \in calls,
           m.kind = "create" => m.store = "mongo",
           \/ RedisSet(m) \/ RedisDel(m)
           \/ MongoPurge(m) \/ MongoCreate(m) \/ MongoTouch(m) \/ MongoDelete(m)
    PROVE  ServeMoves(m)
<1>1. m \in Call BY DEF TypeOK
<1>2. lock \in [Store -> [token : Token \cup {None}, left : (-MaxAge)..Ttl]]
  BY DEF TypeOK
<1>3. /\ m.store \in Store /\ m.age \in Nat /\ m.age <= MaxAge /\ 0 \in Nat /\ 0 <= MaxAge
      /\ m.token \in Token /\ m.token # None
  BY <1>1, CallFields, Tokens, Bounds
<1>4. \A s \in Store : lock[s].left \in Int /\ lock[s].token \in Token \cup {None}
  BY <1>2
<1> HIDE DEF Answer, Locked, Unlocked, Touches, Replies, Renews, Frees
<1>5. CASE RedisSet(m)
  <2> DEFINE won == lock["redis"].token \in {None, m.token}
  <2>1. m.store = "redis" /\ Answer(m, won) /\ won \in BOOLEAN
        /\ IF won THEN Locked(m, Ttl) ELSE UNCHANGED lock
    BY <1>5 DEF RedisSet
  <2>2. m.kind \in {"acquire", "renew"} BY <1>5 DEF RedisSet
  <2>3. CASE won
    <3>1. Locked(m, Ttl - 0) BY <2>1, <2>3, Bounds
    <3>2. /\ lock' \in [Store -> [token : Token \cup {None}, left : (-MaxAge)..Ttl]]
          /\ lock'["redis"] = [token |-> m.token, left |-> Ttl - 0]
          /\ \A s \in Store \ {"redis"} : lock'[s] = lock[s]
      BY <1>1, <1>2, <1>3, <2>1, <3>1, LockTypes
    <3>3. lock'["redis"].token = m.token /\ lock'["redis"].left = Ttl /\ Ttl >= Ttl - m.age
      BY <3>2, <1>3, Bounds
    <3>4. Touches(m) BY <3>2, <3>3, <2>1, <2>2, <2>3 DEF Touches
    <3>5. Replies(m) /\ Renews(m) /\ Frees(m) BY <2>1, <3>3, <1>1, AnswerMoves
    <3> QED BY <3>4, <3>5 DEF ServeMoves
  <2>4. CASE ~won
    <3>1. lock' = lock BY <2>1, <2>4
    <3>2. Touches(m) BY <3>1, <1>2 DEF Touches
    <3>3. Replies(m) /\ Renews(m) /\ Frees(m) BY <2>1, <2>4, <1>1, AnswerMoves
    <3> QED BY <3>2, <3>3 DEF ServeMoves
  <2> QED BY <2>3, <2>4
<1>6. CASE RedisDel(m) \/ MongoDelete(m)
  <2>1. /\ Answer(m, TRUE) /\ m.kind = "release"
        /\ IF lock[m.store].token = m.token THEN Unlocked(m.store) ELSE UNCHANGED lock
    BY <1>6 DEF RedisDel, MongoDelete
  <2>2. Replies(m) /\ Renews(m) /\ Frees(m) BY <2>1, <1>1, AnswerMoves
  <2>3. Touches(m)
    <3>1. CASE lock[m.store].token = m.token
      <4>1. Unlocked(m.store) BY <2>1, <3>1
      <4>2. /\ lock' \in [Store -> [token : Token \cup {None}, left : (-MaxAge)..Ttl]]
            /\ \A s \in Store \ {m.store} : lock'[s] = lock[s]
        BY <4>1, <1>1, <1>2, <1>3, LockTypes
      <4> QED BY <4>2, <3>1, <2>1 DEF Touches
    <3>2. CASE lock[m.store].token # m.token
      <4>1. lock' = lock BY <2>1, <3>2
      <4> QED BY <4>1, <1>2 DEF Touches
    <3> QED BY <3>1, <3>2
  <2> QED BY <2>2, <2>3 DEF ServeMoves
<1>7. CASE MongoPurge(m)
  <2>1. /\ m.store = "mongo" /\ m.kind = "acquire"
        /\ IF lock["mongo"].left + m.age <= 0 THEN Unlocked("mongo") ELSE UNCHANGED lock
        /\ calls' = (calls \ {m}) \cup (IF m.awaited THEN {[m EXCEPT !.kind = "create"]} ELSE {})
        /\ UNCHANGED <<pc, missed, late>>
    BY <1>7 DEF MongoPurge
  <2>2. Renews(m) /\ Frees(m) BY <2>1 DEF Renews, Frees
  <2>3. Replies(m)
    <3>1. CASE m.awaited
      <4>1. calls' = (calls \ {m}) \cup {[m EXCEPT !.kind = "create"]} BY <2>1, <3>1
      <4> QED BY <4>1, <3>1, <2>1 DEF Replies, Asks
    <3>2. CASE ~m.awaited
      <4>1. calls' = calls \ {m} BY <2>1, <3>2
      <4> QED BY <4>1, <3>2, <2>1 DEF Replies, Asks
    <3> QED BY <3>1, <3>2
  <2>4. Touches(m)
    <3>1. CASE lock["mongo"].left + m.age <= 0
      <4>1. Unlocked("mongo") BY <2>1, <3>1
      <4>2. /\ lock' \in [Store -> [token : Token \cup {None}, left : (-MaxAge)..Ttl]]
            /\ \A s \in Store \ {"mongo"} : lock'[s] = lock[s]
        BY <4>1, <1>1, <1>2, <1>3, <2>1, LockTypes
      <4>3. lock["mongo"].left <= 0 BY <3>1, <1>3, <1>4, <2>1
      <4> QED BY <4>2, <4>3, <2>1 DEF Touches
    <3>2. CASE ~(lock["mongo"].left + m.age <= 0)
      <4>1. lock' = lock BY <2>1, <3>2
      <4> QED BY <4>1, <1>2 DEF Touches
    <3> QED BY <3>1, <3>2
  <2> QED BY <2>2, <2>3, <2>4 DEF ServeMoves
<1>8. CASE MongoCreate(m) \/ MongoTouch(m)
  <2>1. PICK won \in BOOLEAN :
          /\ m.store = "mongo" /\ m.kind \in {"create", "renew"} /\ Answer(m, won)
          /\ IF won THEN Locked(m, Ttl - m.age) ELSE UNCHANGED lock
          /\ won => lock["mongo"].token \in {None, m.token}
    BY <1>8 DEF MongoCreate, MongoTouch
  <2>2. CASE won
    <3>1. /\ lock' \in [Store -> [token : Token \cup {None}, left : (-MaxAge)..Ttl]]
          /\ lock'["mongo"] = [token |-> m.token, left |-> Ttl - m.age]
          /\ \A s \in Store \ {"mongo"} : lock'[s] = lock[s]
      BY <2>1, <2>2, <1>1, <1>2, <1>3, LockTypes
    <3>2. lock'["mongo"].token = m.token /\ lock'["mongo"].left >= Ttl - m.age
      BY <3>1, <1>3, Bounds
    <3>3. Touches(m) BY <3>1, <3>2, <2>1, <2>2 DEF Touches
    <3>4. Replies(m) /\ Renews(m) /\ Frees(m) BY <2>1, <3>2, <1>1, AnswerMoves
    <3> QED BY <3>3, <3>4 DEF ServeMoves
  <2>3. CASE ~won
    <3>1. lock' = lock BY <2>1, <2>3
    <3>2. Touches(m) BY <3>1, <1>2 DEF Touches
    <3>3. Replies(m) /\ Renews(m) /\ Frees(m) BY <2>1, <2>3, <1>1, AnswerMoves
    <3> QED BY <3>2, <3>3 DEF ServeMoves
  <2> QED BY <2>2, <2>3
<1> QED BY <1>5, <1>6, <1>7, <1>8

-----------------------------------------------------------------------------
(* Types.                                                                  *)

LEMMA HandleFields ==
    ASSUME NEW h \in Handle
    PROVE  h.store \in Store /\ h.token \in Token
BY DEF Handle

\* A missed renewal is a breach of the timing, and counted as one.
LEMMA MissTypes ==
    ASSUME TypeOK, NEW c \in Client, Miss(c)
    PROVE  /\ missed' \in [Client -> BOOLEAN] /\ late' \in 0..LateBudget
           /\ late' >= late /\ (late' = 0 => ~missed[c])
BY Bounds DEF TypeOK, Miss

\* The start is well typed.
LEMMA InitTypes == Init => TypeOK
<1> SUFFICES ASSUME Init PROVE TypeOK OBVIOUS
<1>1. (CHOOSE n \in Serial : TRUE) \in Serial BY SerialAssumption
<1>2. \A c \in Client : [store |-> "redis", token |-> <<c, CHOOSE n \in Serial : TRUE>>] \in Handle
  BY <1>1 DEF Handle, Store, Token
<1>3. handle \in [Client -> Handle] BY <1>2 DEF Init
<1>4. lock \in [Store -> [token : Token \cup {None}, left : (-MaxAge)..Ttl]]
  BY Bounds DEF Init, Absent
<1>5. connected \in [Client -> BOOLEAN] BY DEF Init
<1> QED BY <1>3, <1>4, <1>5, Bounds DEF Init, TypeOK

\* Types are kept when a client sends an acquire.
LEMMA AcquireTypes ==
    ASSUME TypeOK, NEW c \in Client, Acquire(c)
    PROVE  TypeOK'
<1>1. PICK t \in {c} \X Serial, h \in Handle :
         /\ h = [store |-> IF connected[c] THEN "redis" ELSE "mongo", token |-> t]
         /\ handle' = [handle EXCEPT ![c] = h]
         /\ calls' = calls \cup {Sent(c, h, "acquire")}
  BY DEF Acquire, Handle, Store, Token
<1>2. calls' \subseteq Call
  <2>1. Sent(c, h, "acquire") \in Call BY <1>1, NewCall
  <2> QED BY <2>1, <1>1 DEF TypeOK
<1>3. handle' \in [Client -> Handle] BY <1>1 DEF TypeOK
<1> QED BY <1>2, <1>3 DEF Acquire, TypeOK

\* Types are kept when a client learns of its acquire.
LEMMA AcquiredTypes ==
    ASSUME TypeOK, NEW c \in Client, Acquired(c)
    PROVE  TypeOK'
BY Bounds DEF Acquired, TypeOK

\* Types are kept when the renewal timer fires.
LEMMA RenewTimerTypes ==
    ASSUME TypeOK, NEW c \in Client, RenewTimer(c)
    PROVE  TypeOK'
<1>1. missed' \in [Client -> BOOLEAN] /\ late' \in 0..LateBudget
  <2>1. Miss(c) \/ UNCHANGED <<missed, late>> BY DEF RenewTimer
  <2> QED BY <2>1, MissTypes DEF TypeOK
<1>2. calls' \subseteq Call
  <2>1. handle[c] \in Handle BY DEF TypeOK
  <2>2. Sent(c, handle[c], "renew") \in Call BY <2>1, NewCall
  <2> QED BY <2>2 DEF RenewTimer, TypeOK
<1>3. renewIn' \in [Client -> 0..RenewEvery] BY Bounds DEF RenewTimer, TypeOK
<1> QED BY <1>1, <1>2, <1>3 DEF RenewTimer, TypeOK

\* Types are kept when a client releases.
LEMMA FinishTypes ==
    ASSUME TypeOK, NEW c \in Client, Finish(c)
    PROVE  TypeOK'
<1>1. calls' \subseteq Call
  <2>1. handle[c] \in Handle BY DEF TypeOK
  <2>2. Sent(c, handle[c], "release") \in Call BY <2>1, NewCall
  <2>3. Abandoned(c) \subseteq Call BY AbandonedCalls DEF TypeOK
  <2> QED BY <2>2, <2>3 DEF Finish
<1> QED BY <1>1 DEF Finish, TypeOK

\* Types are kept when a store serves a call.
LEMMA ServeTypes ==
    ASSUME TypeOK, NEW m \in calls, ServeMoves(m),
           UNCHANGED <<connected, handle, renewIn, flips, faults>>
    PROVE  TypeOK'
<1>1. m \in Call BY DEF TypeOK
<1>2. lock' \in [Store -> [token : Token \cup {None}, left : (-MaxAge)..Ttl]]
  BY DEF ServeMoves, Touches
<1>3. calls' \subseteq Call
  <2>1. \A k \in {"create", "granted", "refused"} : [m EXCEPT !.kind = k] \in Call
    BY <1>1, Reply
  <2> QED BY <2>1 DEF ServeMoves, Replies, TypeOK
<1>4. missed' \in [Client -> BOOLEAN] /\ late' \in 0..LateBudget
  BY <1>1, CallFields, MissTypes DEF ServeMoves, Renews, TypeOK
<1>5. pc' \in [Client -> {"idle", "acquiring", "held", "releasing"}]
  BY <1>1, CallFields DEF ServeMoves, Frees, TypeOK
<1> QED BY <1>2, <1>3, <1>4, <1>5 DEF TypeOK

\* Types are kept when Mongo's TTL index deletes a lock.
LEMMA MongoExpireTypes ==
    ASSUME TypeOK, MongoExpire
    PROVE  TypeOK'
<1>1. lock' \in [Store -> [token : Token \cup {None}, left : (-MaxAge)..Ttl]]
  <2>1. Absent \in [token : Token \cup {None}, left : (-MaxAge)..Ttl] BY Bounds DEF Absent
  <2> HIDE DEF Absent
  <2> QED BY <2>1 DEF MongoExpire, Unlocked, TypeOK
<1> QED BY <1>1 DEF MongoExpire, TypeOK

\* A failed call leaves its caller in a phase.
LEMMA FailedTypes ==
    ASSUME TypeOK, NEW m \in Call, Failed(m)
    PROVE  /\ pc' \in [Client -> {"idle", "acquiring", "held", "releasing"}]
           /\ missed' \in [Client -> BOOLEAN] /\ late' \in 0..LateBudget
BY CallFields, MissTypes DEF Failed, TypeOK

\* Types are kept when a call fails.
LEMMA CallFailsTypes ==
    ASSUME TypeOK, CallFails
    PROVE  TypeOK'
<1>1. PICK m \in calls : Lose(m) \/ GiveUp(m) BY DEF CallFails
<1>2. m \in Call BY DEF TypeOK
<1>3. /\ pc' \in [Client -> {"idle", "acquiring", "held", "releasing"}]
      /\ missed' \in [Client -> BOOLEAN] /\ late' \in 0..LateBudget
  BY <1>1, <1>2, FailedTypes DEF Lose, GiveUp, TypeOK
<1>4. calls' \subseteq Call BY <1>1, <1>2, LeftOver DEF Lose, GiveUp, TypeOK
<1>5. faults' \in 0..FaultBudget
  BY <1>1, Bounds DEF CallFails, Lose, GiveUp, TypeOK
<1> QED BY <1>3, <1>4, <1>5 DEF CallFails, TypeOK

\* Types are kept when a client crashes.
LEMMA CrashTypes ==
    ASSUME TypeOK, NEW c \in Client, Crash(c)
    PROVE  TypeOK'
<1>1. calls' \subseteq Call BY AbandonedCalls DEF Crash, TypeOK
<1> QED BY <1>1, Bounds DEF Crash, TypeOK

\* Types are kept when a client loses or regains Redis.
LEMMA FlipTypes ==
    ASSUME TypeOK, NEW c \in Client, Flip(c)
    PROVE  TypeOK'
BY Bounds DEF Flip, TypeOK

\* A lock loses at most one unit of its lifetime per tick.
LEMMA ElapsedTypes ==
    ASSUME TypeOK, NEW s \in Store
    PROVE  /\ Elapsed(s) \in [token : Token \cup {None}, left : (-MaxAge)..Ttl]
           /\ lock[s].token # None /\ lock[s].left > 1 =>
                 Elapsed(s).token = lock[s].token /\ Elapsed(s).left >= lock[s].left - 1
<1>1. lock[s] \in [token : Token \cup {None}, left : (-MaxAge)..Ttl] BY DEF TypeOK
<1>2. [lock[s] EXCEPT !.left = @ - 1] = [token |-> lock[s].token, left |-> lock[s].left - 1]
  BY <1>1
<1>3. lock[s].token \in Token \cup {None} /\ lock[s].left \in Int
      /\ -MaxAge <= lock[s].left /\ lock[s].left <= Ttl
  BY <1>1, Bounds
<1>4. Absent \in [token : Token \cup {None}, left : (-MaxAge)..Ttl] BY Bounds DEF Absent
<1>5. lock[s].left # -MaxAge => lock[s].left - 1 \in (-MaxAge)..Ttl BY <1>3, Bounds
<1> QED BY <1>1, <1>2, <1>3, <1>4, <1>5, Bounds DEF Elapsed

\* Types are kept when time passes.
LEMMA TickTypes ==
    ASSUME TypeOK, Tick
    PROVE  TypeOK'
<1>1. lock' \in [Store -> [token : Token \cup {None}, left : (-MaxAge)..Ttl]]
  BY ElapsedTypes DEF Tick
<1>2. calls' \subseteq Call
  <2> SUFFICES ASSUME NEW n \in calls' PROVE n \in Call OBVIOUS
  <2>1. PICK m \in calls : n = [m EXCEPT !.age = IF m.age = MaxAge THEN m.age ELSE m.age + 1]
    BY DEF Tick
  <2>2. m \in Call BY DEF TypeOK
  <2>3. (IF m.age = MaxAge THEN m.age ELSE m.age + 1) \in 0..MaxAge
    BY <2>2, CallFields, Bounds
  <2> DEFINE a == IF m.age = MaxAge THEN m.age ELSE m.age + 1
  <2>4. n = [m EXCEPT !.age = a] /\ a \in 0..MaxAge BY <2>1, <2>3
  <2> HIDE DEF a
  <2>5. [m EXCEPT !.age = a] \in Call BY <2>2, <2>4, Older
  <2> QED BY <2>4, <2>5
<1>3. renewIn' \in [Client -> 0..RenewEvery]
  <2>1. renewIn' = [c \in Client |-> IF renewIn[c] = 0 THEN 0 ELSE renewIn[c] - 1] BY DEF Tick
  <2>2. \A c \in Client : renewIn[c] \in 0..RenewEvery BY DEF TypeOK
  <2> QED BY <2>1, <2>2, Bounds
<1>4. late' \in 0..LateBudget BY Bounds DEF Tick, TypeOK
<1> QED BY <1>1, <1>2, <1>3, <1>4 DEF Tick, TypeOK

-----------------------------------------------------------------------------
(* Whose calls are in flight.                                              *)

LEMMA InitCalls == Init => CallsInv
<1> SUFFICES ASSUME Init PROVE CallsInv OBVIOUS
<1>1. calls = {} BY DEF Init
<1>2. OwnToken BY DEF Init, OwnToken
<1> QED BY <1>1, <1>2 DEF CallsInv, OneAwaited

\* CallsInv is kept when a client sends an acquire.
LEMMA AcquireCalls ==
    ASSUME TypeOK, CallsInv, NEW c \in Client, Acquire(c)
    PROVE  CallsInv'
<1>1. PICK t \in {c} \X Serial, h \in Handle :
         /\ h = [store |-> IF connected[c] THEN "redis" ELSE "mongo", token |-> t]
         /\ Unused(t)
         /\ handle' = [handle EXCEPT ![c] = h]
         /\ calls' = calls \cup {Sent(c, h, "acquire")}
  BY DEF Acquire, Handle, Store, Token
<1> DEFINE r == Sent(c, h, "acquire")
<1>2. /\ r.by = c /\ r.store = h.store /\ r.token = h.token /\ r.awaited = TRUE
      /\ r.kind = "acquire"
  BY DEF Sent
<1> HIDE DEF r
<1>3. h.token = t /\ t[1] = c BY <1>1
<1>4. pc[c] = "idle" /\ pc' = [pc EXCEPT ![c] = "acquiring"] BY DEF Acquire
<1>5. \A d \in Client : d # c => pc'[d] = pc[d] /\ handle'[d] = handle[d]
  BY <1>1, <1>4 DEF TypeOK
<1>6. pc'[c] = "acquiring" /\ handle'[c] = h BY <1>1, <1>4 DEF TypeOK
<1>7. \A m \in calls : m.by \in Client /\ m.awaited \in BOOLEAN BY CallFields DEF TypeOK
<1>8. \A m \in calls : m.by = c => ~m.awaited
  BY <1>4, <1>7 DEF CallsInv, Known, Awaits
<1>9. OwnToken' BY <1>3, <1>5, <1>6 DEF CallsInv, OwnToken
<1>10. ASSUME NEW n \in calls' PROVE Known(n)'
  <2>1. CASE n = r
    BY <2>1, <1>2, <1>3, <1>6 DEF Known, Awaits, First
  <2>2. CASE n \in calls
    <3>1. Known(n) /\ n.token # t BY <2>2, <1>1 DEF CallsInv, Unused
    <3>2. CASE n.by = c BY <3>1, <3>2, <2>2, <1>3, <1>6, <1>8 DEF Known
    <3>3. CASE n.by # c
      <4>1. pc'[n.by] = pc[n.by] /\ handle'[n.by] = handle[n.by] BY <3>3, <2>2, <1>5, <1>7
      <4> QED BY <3>1, <4>1 DEF Known, Awaits
    <3> QED BY <3>2, <3>3
  <2> QED BY <2>1, <2>2, <1>1 DEF r
<1>11. OneAwaited'
  <2> SUFFICES ASSUME NEW m \in calls', NEW n \in calls', m.awaited, n.awaited, m.by = n.by,
                      pc'[m.by] # "held"
               PROVE  m = n
    BY DEF OneAwaited
  <2>1. CASE m.by = c BY <2>1, <1>1, <1>8 DEF r
  <2>2. CASE m.by # c
    <3>1. m \in calls /\ n \in calls BY <2>2, <1>1, <1>2 DEF r
    <3> QED BY <3>1, <2>2, <1>5, <1>7 DEF CallsInv, OneAwaited
  <2> QED BY <2>1, <2>2
<1> QED BY <1>9, <1>10, <1>11 DEF CallsInv

\* CallsInv is kept when a client learns of its acquire.
LEMMA AcquiredCalls ==
    ASSUME TypeOK, CallsInv, NEW c \in Client, Acquired(c)
    PROVE  CallsInv'
<1>1. PICK m \in calls :
         /\ m.by = c /\ m.kind \in {"granted", "refused"}
         /\ calls' = calls \ {m} /\ handle' = handle
         /\ pc' = [pc EXCEPT ![c] = IF m.kind = "granted" THEN "held" ELSE "idle"]
  BY DEF Acquired
<1>2. m.awaited /\ pc[c] = "acquiring" BY <1>1 DEF CallsInv, Known, Awaits
<1>3. \A d \in Client : d # c => pc'[d] = pc[d] BY <1>1 DEF TypeOK
<1>4. pc'[c] \in {"held", "idle"} BY <1>1 DEF TypeOK
<1>5. \A n \in calls : n.by \in Client /\ n.awaited \in BOOLEAN BY CallFields DEF TypeOK
<1>6. \A n \in calls' : n.by = c => ~n.awaited
  BY <1>1, <1>2 DEF CallsInv, OneAwaited
<1>7. ASSUME NEW n \in calls' PROVE Known(n)'
  <2>1. n \in calls /\ Known(n) BY <1>1 DEF CallsInv
  <2>2. CASE n.by = c
    <3>1. n.token # handle[c].token BY <2>1, <2>2, <1>2, <1>6 DEF Known
    <3> QED BY <3>1, <2>1, <2>2, <1>1, <1>6 DEF Known
  <2>3. CASE n.by # c
    <3>1. pc'[n.by] = pc[n.by] BY <2>1, <2>3, <1>3, <1>5
    <3> QED BY <3>1, <2>1, <1>1 DEF Known, Awaits
  <2> QED BY <2>2, <2>3
<1>8. OneAwaited'
  <2> SUFFICES ASSUME NEW k \in calls', NEW n \in calls', k.awaited, n.awaited, k.by = n.by,
                      pc'[k.by] # "held"
               PROVE  k = n
    BY DEF OneAwaited
  <2> QED BY <1>1, <1>3, <1>5, <1>6 DEF CallsInv, OneAwaited
<1> QED BY <1>1, <1>7, <1>8 DEF CallsInv, OwnToken

\* CallsInv is kept when the renewal timer fires.
LEMMA RenewTimerCalls ==
    ASSUME TypeOK, CallsInv, NEW c \in Client, RenewTimer(c)
    PROVE  CallsInv'
<1>1. pc[c] = "held" /\ pc' = pc /\ handle' = handle BY DEF RenewTimer
<1> DEFINE r == Sent(c, handle[c], "renew")
<1>2. calls' \subseteq calls \cup {r} BY DEF RenewTimer
<1>3. handle[c] \in Handle BY DEF TypeOK
<1>4. /\ r.by = c /\ r.store = handle[c].store /\ r.token = handle[c].token
      /\ r.awaited = TRUE /\ r.kind = "renew"
  BY DEF Sent
<1> HIDE DEF r
<1>5. Known(r) BY <1>1, <1>4 DEF CallsInv, OwnToken, Known, Awaits
<1>6. \A n \in calls' : Known(n)' BY <1>1, <1>2, <1>5 DEF CallsInv, Known, Awaits
<1>7. OneAwaited' BY <1>1, <1>2, <1>4 DEF CallsInv, OneAwaited
<1> QED BY <1>1, <1>6, <1>7 DEF CallsInv, OwnToken

\* CallsInv is kept when a client releases.
LEMMA FinishCalls ==
    ASSUME TypeOK, CallsInv, NEW c \in Client, Finish(c)
    PROVE  CallsInv'
<1>1. pc[c] = "held" /\ handle' = handle BY DEF Finish
<1> DEFINE r == Sent(c, handle[c], "release")
<1>2. \/ pc' = [pc EXCEPT ![c] = "idle"] /\ calls' = Abandoned(c)
      \/ pc' = [pc EXCEPT ![c] = "releasing"] /\ calls' = Abandoned(c) \cup {r}
  BY DEF Finish
<1>3. /\ r.by = c /\ r.store = handle[c].store /\ r.token = handle[c].token
      /\ r.awaited = TRUE /\ r.kind = "release"
  BY DEF Sent
<1> HIDE DEF r
<1>4. \A d \in Client : d # c => pc'[d] = pc[d] BY <1>2 DEF TypeOK
<1>5. pc'[c] \in {"idle", "releasing"} /\ (r \in calls' => pc'[c] = "releasing" \/ r \in Abandoned(c))
  BY <1>2 DEF TypeOK
<1>6. \A n \in calls : n.by \in Client /\ n.awaited \in BOOLEAN BY CallFields DEF TypeOK
<1>7. \A n \in Abandoned(c) :
         \/ n \in calls /\ n.by # c
         \/ \E m \in calls :
               /\ n.by = c /\ m.by = c /\ ~n.awaited /\ n.store = m.store
               /\ n.token = m.token /\ n.age = m.age /\ n.kind = m.kind
  BY AbandonedCalls DEF TypeOK
<1>8. ASSUME NEW n \in Abandoned(c) PROVE Known(n)'
  <2>1. CASE n \in calls /\ n.by # c
    <3>1. pc'[n.by] = pc[n.by] /\ Known(n) BY <2>1, <1>4, <1>6 DEF CallsInv
    <3> QED BY <3>1, <1>1 DEF Known, Awaits
  <2>2. ASSUME NEW m \in calls, n.by = c, m.by = c, ~n.awaited, n.store = m.store,
               n.token = m.token, n.kind = m.kind
        PROVE  Known(n)'
    <3>1. Known(m) BY DEF CallsInv
    <3>2. m.kind \notin {"granted", "refused"} BY <3>1, <2>2, <1>1 DEF Known, Awaits
    <3> QED BY <3>1, <3>2, <2>2, <1>5 DEF Known
  <2> QED BY <2>1, <2>2, <1>7
<1>9. ASSUME NEW n \in calls', n = r PROVE Known(n)'
  <2>1. CASE n \in Abandoned(c) BY <2>1, <1>8
  <2>2. CASE pc'[c] = "releasing"
    BY <2>2, <1>1, <1>3, <1>9 DEF CallsInv, OwnToken, Known, Awaits
  <2> QED BY <2>1, <2>2, <1>5, <1>9
<1>10. \A n \in calls' : Known(n)' BY <1>2, <1>8, <1>9
<1>11. OneAwaited'
  <2> SUFFICES ASSUME NEW k \in calls', NEW n \in calls', k.awaited, n.awaited, k.by = n.by,
                      pc'[k.by] # "held"
               PROVE  k = n
    BY DEF OneAwaited
  <2>1. CASE k.by = c
    <3>1. ASSUME NEW i \in calls', i.by = c, i.awaited PROVE i = r
      <4>1. i \notin Abandoned(c) BY <3>1, <1>7
      <4> QED BY <4>1, <1>2
    <3> QED BY <3>1, <2>1
  <2>2. CASE k.by # c
    <3>1. k \in calls /\ n \in calls BY <2>2, <1>2, <1>3, <1>7
    <3> QED BY <3>1, <2>2, <1>4, <1>6 DEF CallsInv, OneAwaited
  <2> QED BY <2>1, <2>2
<1> QED BY <1>1, <1>10, <1>11 DEF CallsInv, OwnToken

\* CallsInv is kept when a client crashes: what it sent is left over.
LEMMA CrashCalls ==
    ASSUME TypeOK, CallsInv, NEW c \in Client, Crash(c)
    PROVE  CallsInv'
<1>1. /\ handle' = handle /\ pc' = [pc EXCEPT ![c] = "idle"]
      /\ calls' = {m \in Abandoned(c) : m.awaited \/ m.kind \notin {"granted", "refused"}}
  BY DEF Crash
<1>2. \A d \in Client : d # c => pc'[d] = pc[d] BY <1>1 DEF TypeOK
<1>3. pc'[c] = "idle" BY <1>1 DEF TypeOK
<1>4. \A n \in calls : n.by \in Client /\ n.awaited \in BOOLEAN BY CallFields DEF TypeOK
<1>5. \A n \in Abandoned(c) :
         \/ n \in calls /\ n.by # c
         \/ \E m \in calls :
               /\ n.by = c /\ m.by = c /\ ~n.awaited /\ n.store = m.store
               /\ n.token = m.token /\ n.age = m.age /\ n.kind = m.kind
  BY AbandonedCalls DEF TypeOK
<1>6. ASSUME NEW n \in calls' PROVE Known(n)'
  <2>1. CASE n \in calls /\ n.by # c
    <3>1. pc'[n.by] = pc[n.by] /\ Known(n) BY <2>1, <1>2, <1>4 DEF CallsInv
    <3> QED BY <3>1, <1>1 DEF Known, Awaits
  <2>2. ASSUME NEW m \in calls, n.by = c, m.by = c, ~n.awaited, n.store = m.store,
               n.token = m.token, n.kind = m.kind
        PROVE  Known(n)'
    <3>1. Known(m) BY DEF CallsInv
    <3>2. n.kind \notin {"granted", "refused"} BY <2>2, <1>1
    <3> QED BY <3>1, <3>2, <2>2, <1>3 DEF Known
  <2> QED BY <2>1, <2>2, <1>1, <1>5
<1>7. OneAwaited'
  <2> SUFFICES ASSUME NEW k \in calls', NEW n \in calls', k.awaited, n.awaited, k.by = n.by,
                      pc'[k.by] # "held"
               PROVE  k = n
    BY DEF OneAwaited
  <2>1. k \in calls /\ n \in calls /\ k.by # c BY <1>1, <1>5
  <2> QED BY <2>1, <1>2, <1>4 DEF CallsInv, OneAwaited
<1> QED BY <1>1, <1>6, <1>7 DEF CallsInv, OwnToken

\* CallsInv is kept when a store serves a call.
LEMMA ServeCalls ==
    ASSUME TypeOK, CallsInv, NEW m \in calls, ServeMoves(m), UNCHANGED handle
    PROVE  CallsInv'
<1>1. m \in Call /\ Known(m) BY DEF TypeOK, CallsInv
<1>2. m.by \in Client /\ m.awaited \in BOOLEAN BY <1>1, CallFields
<1>3. \A n \in calls : n.by \in Client /\ n.awaited \in BOOLEAN BY CallFields DEF TypeOK
<1>4. pc' = IF m.kind = "release" /\ m.awaited THEN [pc EXCEPT ![m.by] = "idle"] ELSE pc
  BY DEF ServeMoves, Frees
<1>5. \A d \in Client : pc'[d] = pc[d] \/ (d = m.by /\ m.awaited /\ pc[d] = "releasing" /\ pc'[d] = "idle")
  BY <1>1, <1>2, <1>4 DEF TypeOK, Known, Awaits, First
<1>6. ASSUME NEW n \in calls, n # m PROVE Known(n)' /\ (n.awaited => pc'[n.by] = pc[n.by])
  <2>1. Known(n) BY DEF CallsInv
  <2>2. n.awaited => pc'[n.by] = pc[n.by] BY <1>3, <1>5, <1>6 DEF CallsInv, OneAwaited
  <2> QED BY <2>1, <2>2, <1>3, <1>5 DEF Known, Awaits
<1>7. CASE calls' = calls \ {m}
  <2>1. OneAwaited' BY <1>7, <1>6 DEF CallsInv, OneAwaited
  <2> QED BY <2>1, <1>6, <1>7 DEF CallsInv, OwnToken
<1>8. ASSUME NEW k \in {"create", "granted", "refused"}, Asks(m), k = "create" => m.store = "mongo",
             calls' = (calls \ {m}) \cup {[m EXCEPT !.kind = k]}
      PROVE  CallsInv'
  <2> DEFINE r == [m EXCEPT !.kind = k]
  <2>1. /\ r.by = m.by /\ r.store = m.store /\ r.token = m.token /\ r.awaited = m.awaited
        /\ r.kind = k
    BY <1>1, Reply
  <2>2. calls' = (calls \ {m}) \cup {r} BY <1>8
  <2> HIDE DEF r
  <2>3. m.awaited /\ pc[m.by] = "acquiring" /\ pc'[m.by] = "acquiring"
    BY <1>1, <1>2, <1>5, <1>8 DEF Asks, Known, Awaits
  <2>4. Known(r)' BY <2>1, <2>3, <1>1, <1>8 DEF Known, Awaits, First
  <2>5. OneAwaited'
    <3> SUFFICES ASSUME NEW i \in calls', NEW n \in calls', i.awaited, n.awaited, i.by = n.by,
                        pc'[i.by] # "held"
                 PROVE  i = n
      BY DEF OneAwaited
    <3>1. CASE i.by = m.by BY <3>1, <2>2, <2>3, <1>6 DEF CallsInv, OneAwaited
    <3>2. CASE i.by # m.by BY <3>2, <2>1, <2>2, <1>6 DEF CallsInv, OneAwaited
    <3> QED BY <3>1, <3>2
  <2> QED BY <2>2, <2>4, <2>5, <1>6 DEF CallsInv, OwnToken
<1> QED BY <1>7, <1>8 DEF ServeMoves, Replies

\* CallsInv is kept when a call fails.
LEMMA CallFailsCalls ==
    ASSUME TypeOK, CallsInv, CallFails
    PROVE  CallsInv'
<1>1. PICK m \in calls : Lose(m) \/ GiveUp(m) BY DEF CallFails
<1>2. handle' = handle BY DEF CallFails
<1>3. m \in Call /\ Known(m) BY DEF TypeOK, CallsInv
<1>4. m.by \in Client /\ m.awaited \in BOOLEAN BY <1>3, CallFields
<1>5. \A n \in calls : n.by \in Client /\ n.awaited \in BOOLEAN BY CallFields DEF TypeOK
<1>6. \A d \in Client :
         pc'[d] = pc[d] \/ (d = m.by /\ m.awaited /\ pc[d] # "held" /\ pc'[d] = "idle")
  BY <1>1, <1>3, <1>4 DEF Lose, GiveUp, Failed, TypeOK, Known, Awaits
<1>7. ASSUME NEW n \in calls, n # m PROVE Known(n)' /\ (n.awaited => pc'[n.by] = pc[n.by])
  <2>1. Known(n) BY DEF CallsInv
  <2>2. n.awaited => pc'[n.by] = pc[n.by] BY <1>5, <1>6, <1>7 DEF CallsInv, OneAwaited
  <2> QED BY <2>1, <2>2, <1>2, <1>5, <1>6 DEF Known, Awaits
<1>8. CASE calls' = calls \ {m}
  <2>1. OneAwaited' BY <1>8, <1>7 DEF CallsInv, OneAwaited
  <2> QED BY <2>1, <1>2, <1>7, <1>8 DEF CallsInv, OwnToken
<1>9. CASE /\ m.store = "redis" /\ m.awaited /\ m.kind \notin {"granted", "refused"}
           /\ calls' = (calls \ {m}) \cup {[m EXCEPT !.awaited = FALSE]}
  <2> DEFINE r == [m EXCEPT !.awaited = FALSE]
  <2>1. /\ r.by = m.by /\ r.store = m.store /\ r.token = m.token /\ r.awaited = FALSE
        /\ r.kind = m.kind
    BY <1>3, LeftOver
  <2>2. calls' = (calls \ {m}) \cup {r} BY <1>9
  <2> HIDE DEF r
  <2>3. pc[m.by] = "held" => m.kind = "renew" BY <1>3, <1>9 DEF Known, Awaits, First
  <2>4. pc[m.by] = "acquiring" => pc'[m.by] = "idle"
    <3>1. pc[m.by] = "acquiring" => m.kind # "renew" BY <1>3, <1>9 DEF Known, Awaits, First
    <3>2. pc[m.by] = "acquiring" => Failed(m)
      BY <1>1, <1>9 DEF Lose, GiveUp
    <3> QED BY <3>1, <3>2, <1>4 DEF Failed, TypeOK
  <2>5. Known(r)' BY <2>1, <2>3, <2>4, <1>2, <1>3, <1>4, <1>6, <1>9 DEF Known, Awaits
  <2>6. OneAwaited' BY <2>1, <2>2, <1>7 DEF CallsInv, OneAwaited
  <2> QED BY <2>2, <2>5, <2>6, <1>2, <1>7 DEF CallsInv, OwnToken
<1> QED BY <1>1, <1>8, <1>9 DEF Lose, GiveUp

\* CallsInv is kept when time passes.
LEMMA TickCalls ==
    ASSUME TypeOK, CallsInv, Tick
    PROVE  CallsInv'
<1> DEFINE Aged(m) == [m EXCEPT !.age = IF m.age = MaxAge THEN m.age ELSE m.age + 1]
<1>1. /\ calls' = {Aged(m) : m \in calls} /\ handle' = handle /\ pc' = pc
  BY DEF Tick
<1>2. ASSUME NEW m \in calls
      PROVE  /\ Aged(m).by = m.by /\ Aged(m).store = m.store /\ Aged(m).token = m.token
             /\ Aged(m).awaited = m.awaited /\ Aged(m).kind = m.kind
  BY DEF TypeOK, Call
<1> HIDE DEF Aged
<1>3. ASSUME NEW n \in calls' PROVE Known(n)'
  <2>1. PICK m \in calls : n = Aged(m) BY <1>1
  <2>2. Known(m) BY DEF CallsInv
  <2> QED BY <2>1, <2>2, <1>1, <1>2 DEF Known, Awaits
<1>4. OneAwaited'
  <2> SUFFICES ASSUME NEW k \in calls', NEW n \in calls', k.awaited, n.awaited, k.by = n.by,
                      pc'[k.by] # "held"
               PROVE  k = n
    BY DEF OneAwaited
  <2>1. PICK i \in calls : k = Aged(i) BY <1>1
  <2>2. PICK m \in calls : n = Aged(m) BY <1>1
  <2>3. i = m BY <2>1, <2>2, <1>1, <1>2 DEF CallsInv, OneAwaited
  <2> QED BY <2>1, <2>2, <2>3
<1> QED BY <1>1, <1>3, <1>4 DEF CallsInv, OwnToken

\* CallsInv speaks of clients and calls only.
LEMMA OtherCalls ==
    ASSUME CallsInv, UNCHANGED <<pc, handle, calls>>
    PROVE  CallsInv'
BY DEF CallsInv, OwnToken, OneAwaited, Known, Awaits

-----------------------------------------------------------------------------
(* How long the lock lasts.                                                *)

LEMMA LeastIs ==
    ASSUME NEW c \in Client, renewIn[c] \in Int, missed[c] \in BOOLEAN
    PROVE  /\ Least(c) \in Int
           /\ ~missed[c] /\ ~Awaiting(c) => Least(c) = Ttl - CallTimeout - RenewEvery + renewIn[c]
           /\ missed[c] /\ ~Awaiting(c) => Least(c) = Ttl - CallTimeout - 2 * RenewEvery + renewIn[c]
           /\ ~missed[c] /\ Awaiting(c) => Least(c) = Ttl - CallTimeout - 2 * RenewEvery + renewIn[c]
           /\ missed[c] /\ Awaiting(c) => Least(c) = Ttl - CallTimeout - 3 * RenewEvery + renewIn[c]
BY Bounds DEF Least

\* The lifetime a holder is sure of depends on its timer and its renewals only.
LEMMA LeastSame ==
    ASSUME NEW c \in Client, renewIn'[c] = renewIn[c], missed'[c] = missed[c],
           Awaiting(c)' <=> Awaiting(c)
    PROVE  Least(c)' = Least(c)
BY DEF Least

\* A holder's timer is set, and only his renewals are awaited.
LEMMA HolderFields ==
    ASSUME TypeOK, NEW c \in Holders
    PROVE  /\ c \in Client /\ pc[c] = "held"
           /\ renewIn[c] \in Nat /\ renewIn[c] <= RenewEvery /\ missed[c] \in BOOLEAN
           /\ handle[c].store \in Store /\ handle[c].token \in Token
           /\ handle[c].token # None
<1>1. c \in Client /\ pc[c] = "held" BY DEF Holders
<1>2. handle[c] \in Handle BY <1>1 DEF TypeOK
<1>3. renewIn[c] \in Nat /\ renewIn[c] <= RenewEvery /\ missed[c] \in BOOLEAN
  BY <1>1, Bounds DEF TypeOK
<1> QED BY <1>1, <1>2, <1>3, HandleFields, Tokens

\* While all is on time a holder's lock lasts beyond the next tick.
LEMMA LastsLongEnough ==
    ASSUME TypeOK, CallsInv, Young, InStep, NEW c \in Holders
    PROVE  /\ Least(c) \in Int /\ Least(c) >= 1
           /\ OnTime => Least(c) >= 2
<1>1. /\ c \in Client /\ pc[c] = "held" /\ renewIn[c] \in Nat /\ renewIn[c] <= RenewEvery
      /\ missed[c] \in BOOLEAN
  BY HolderFields
<1>2. CASE Awaiting(c)
  <2>1. PICK m \in calls : m.by = c /\ m.awaited BY <1>2 DEF Awaiting
  <2>2. m.kind = "renew" BY <2>1, <1>1 DEF CallsInv, Known, Awaits
  <2>3. m.age \in Nat /\ m.age <= CallTimeout /\ m.age = RenewEvery - renewIn[c]
    BY <2>1, <2>2, CallFields DEF TypeOK, Young, InStep
  <2>4. OnTime => m.age < CallTimeout BY <2>1 DEF OnTime
  <2> QED BY <2>3, <2>4, <1>1, <1>2, LeastIs, Bounds
<1>3. CASE ~Awaiting(c)
  <2>1. OnTime => renewIn[c] > 0 BY <1>1 DEF OnTime
  <2> QED BY <2>1, <1>1, <1>3, LeastIs, Bounds
<1> QED BY <1>2, <1>3

\* Nobody holds anything at the start.
LEMMA InitLease == Init => LeaseInv
BY DEF Init, LeaseInv, Young, InStep, Granted, Lasting, Holders

\* LeaseInv is kept when a client sends an acquire.
LEMMA AcquireLease ==
    ASSUME TypeOK, CallsInv, LeaseInv, NEW c \in Client, Acquire(c)
    PROVE  LeaseInv'
<1>1. PICK t \in {c} \X Serial, h \in Handle :
         /\ h = [store |-> IF connected[c] THEN "redis" ELSE "mongo", token |-> t]
         /\ handle' = [handle EXCEPT ![c] = h]
         /\ calls' = calls \cup {Sent(c, h, "acquire")}
  BY DEF Acquire, Handle, Store, Token
<1> DEFINE r == Sent(c, h, "acquire")
<1>2. calls' = calls \cup {r} /\ r.by = c /\ r.age = 0 /\ r.kind = "acquire" BY <1>1 DEF Sent
<1> HIDE DEF r
<1>3. /\ pc[c] = "idle" /\ pc' = [pc EXCEPT ![c] = "acquiring"]
      /\ UNCHANGED <<lock, renewIn, missed, late>>
  BY DEF Acquire
<1>4. Holders' = Holders /\ c \notin Holders BY <1>3 DEF Holders, TypeOK
<1> SUFFICES ASSUME late' = 0 PROVE Young' /\ InStep' /\ Granted' /\ Lasting'
  BY DEF LeaseInv
<1>5. Young /\ InStep /\ Granted /\ Lasting BY <1>3 DEF LeaseInv
<1>6. Young' BY <1>2, <1>5, Bounds DEF Young
<1>7. InStep' BY <1>2, <1>3, <1>5 DEF InStep
<1>8. Granted' BY <1>2, <1>3, <1>5 DEF Granted, Has
<1>9. ASSUME NEW d \in Holders' PROVE Has(handle[d].store, handle[d].token, Least(d))'
  <2>1. d \in Holders /\ d # c BY <1>4
  <2>2. handle'[d] = handle[d] BY <2>1, <1>1 DEF Holders, TypeOK
  <2>3. Awaiting(d)' <=> Awaiting(d) BY <2>1, <1>2 DEF Awaiting
  <2>4. Least(d)' = Least(d) BY <2>1, <2>3, <1>3, LeastSame DEF Holders
  <2>5. Has(handle[d].store, handle[d].token, Least(d)) BY <2>1, <1>5 DEF Lasting
  <2> QED BY <2>2, <2>4, <2>5, <1>3 DEF Has
<1> QED BY <1>6, <1>7, <1>8, <1>9 DEF Lasting

\* LeaseInv is kept when a client learns of its acquire.
LEMMA AcquiredLease ==
    ASSUME TypeOK, CallsInv, LeaseInv, NEW c \in Client, Acquired(c)
    PROVE  LeaseInv'
<1>1. PICK m \in calls :
         /\ m.by = c /\ m.kind \in {"granted", "refused"}
         /\ calls' = calls \ {m}
         /\ pc' = [pc EXCEPT ![c] = IF m.kind = "granted" THEN "held" ELSE "idle"]
         /\ renewIn' = [renewIn EXCEPT ![c] = RenewEvery]
         /\ missed' = [missed EXCEPT ![c] = FALSE]
         /\ UNCHANGED <<lock, handle, late>>
  BY DEF Acquired
<1>2. m.awaited /\ pc[c] = "acquiring" /\ m.token = handle[c].token /\ m.store = handle[c].store
  BY <1>1 DEF CallsInv, Known, Awaits
<1>3. \A n \in calls' : n.by = c => ~n.awaited BY <1>1, <1>2 DEF CallsInv, OneAwaited
<1>4. \A n \in calls : n.by \in Client BY CallFields DEF TypeOK
<1> SUFFICES ASSUME late' = 0 PROVE Young' /\ InStep' /\ Granted' /\ Lasting'
  BY DEF LeaseInv
<1>5. Young /\ InStep /\ Granted /\ Lasting BY <1>1 DEF LeaseInv
<1>6. Young' BY <1>1, <1>5 DEF Young
<1>7. \A d \in Client : d # c => pc'[d] = pc[d] /\ renewIn'[d] = renewIn[d] /\ missed'[d] = missed[d]
  BY <1>1 DEF TypeOK
<1>8. InStep' BY <1>1, <1>3, <1>4, <1>5, <1>7 DEF InStep
<1>9. Granted' BY <1>1, <1>5 DEF Granted, Has
<1>10. ASSUME NEW d \in Holders' PROVE Has(handle[d].store, handle[d].token, Least(d))'
  <2>0. d \in Client /\ pc'[d] = "held" BY DEF Holders
  <2>1. CASE d = c
    <3>1. m.kind = "granted" BY <2>0, <2>1, <1>1 DEF TypeOK
    <3>2. Has(m.store, m.token, Ttl - m.age) BY <3>1, <1>5 DEF Granted
    <3>3. ~Awaiting(c)' BY <1>3 DEF Awaiting
    <3>4. renewIn'[c] = RenewEvery /\ missed'[c] = FALSE BY <1>1 DEF TypeOK
    <3>5. Least(c)' = Ttl - CallTimeout - RenewEvery + RenewEvery - 0 - 0
      BY <3>3, <3>4 DEF Least
    <3>6. m.age \in Nat /\ m.age <= CallTimeout BY <1>2, <1>5, CallFields DEF Young, TypeOK
    <3>7. lock[m.store].left \in Int BY <1>2, CallFields DEF TypeOK
    <3>8. Least(c)' <= Ttl - m.age /\ Least(c)' \in Int /\ Ttl - m.age \in Int
      BY <3>5, <3>6, Bounds
    <3> QED BY <3>2, <3>7, <3>8, <2>1, <1>1, <1>2 DEF Has
  <2>2. CASE d # c
    <3>1. d \in Holders BY <2>0, <2>2, <1>7 DEF Holders
    <3>2. Awaiting(d)' <=> Awaiting(d) BY <2>2, <1>1 DEF Awaiting
    <3>3. Least(d)' = Least(d) BY <2>0, <2>2, <3>2, <1>7, LeastSame
    <3>4. Has(handle[d].store, handle[d].token, Least(d)) BY <3>1, <1>5 DEF Lasting
    <3> QED BY <3>3, <3>4, <1>1 DEF Has
  <2> QED BY <2>1, <2>2
<1> QED BY <1>6, <1>8, <1>9, <1>10 DEF Lasting

\* LeaseInv is kept when the renewal timer fires.
LEMMA RenewTimerLease ==
    ASSUME TypeOK, CallsInv, LeaseInv, NEW c \in Client, RenewTimer(c)
    PROVE  LeaseInv'
<1>1. /\ pc[c] = "held" /\ renewIn[c] = 0
      /\ renewIn' = [renewIn EXCEPT ![c] = RenewEvery]
      /\ UNCHANGED <<lock, pc, handle>>
  BY DEF RenewTimer
<1>2. c \in Holders /\ Holders' = Holders BY <1>1 DEF Holders
<1> DEFINE r == Sent(c, handle[c], "renew")
<1>3. \/ Miss(c) /\ calls' = calls
      \/ calls' = calls \cup {r} /\ UNCHANGED <<missed, late>>
  BY DEF RenewTimer
<1>4. r.by = c /\ r.age = 0 /\ r.kind = "renew" /\ r.awaited = TRUE BY DEF Sent
<1> HIDE DEF r
<1> SUFFICES ASSUME late' = 0 PROVE Young' /\ InStep' /\ Granted' /\ Lasting'
  BY DEF LeaseInv
<1>5. late = 0 BY <1>3, MissTypes DEF TypeOK
<1>6. Young /\ InStep /\ Granted /\ Lasting BY <1>5 DEF LeaseInv
<1>7. ~Awaiting(c)
  <2> SUFFICES ASSUME NEW m \in calls, m.by = c, m.awaited PROVE FALSE BY DEF Awaiting
  <2>1. m.kind = "renew" BY <1>1 DEF CallsInv, Known, Awaits
  <2>2. m.age = RenewEvery - 0 /\ m.age <= CallTimeout BY <2>1, <1>1, <1>6 DEF Young, InStep
  <2> QED BY <2>2, Bounds
<1>8. Young' BY <1>3, <1>4, <1>6, Bounds DEF Young
<1>9. \A d \in Client : d # c => renewIn'[d] = renewIn[d] /\ missed'[d] = missed[d]
  BY <1>1, <1>3 DEF Miss, TypeOK
<1>10. renewIn'[c] = RenewEvery BY <1>1 DEF TypeOK
<1>11. ASSUME NEW n \in calls', n.awaited, n.kind = "renew"
       PROVE  n.age = RenewEvery - renewIn'[n.by]
  <2>1. CASE n = r BY <2>1, <1>4, <1>10, Bounds
  <2>2. CASE n \in calls
    <3>1. n.by # c BY <2>2, <1>7, <1>11 DEF Awaiting
    <3>2. n.by \in Client BY <2>2, CallFields DEF TypeOK
    <3> QED BY <3>1, <3>2, <2>2, <1>6, <1>9, <1>11 DEF InStep
  <2> QED BY <2>1, <2>2, <1>3
<1>12. InStep' BY <1>11 DEF InStep
<1>13. Granted' BY <1>1, <1>3, <1>4, <1>6 DEF Granted, Has
<1>14. ASSUME NEW d \in Holders' PROVE Has(handle[d].store, handle[d].token, Least(d))'
  <2>1. d \in Holders /\ d \in Client BY <1>2, HolderFields
  <2>2. Has(handle[d].store, handle[d].token, Least(d)) BY <2>1, <1>6 DEF Lasting
  <2>3. CASE d # c
    <3>1. Awaiting(d)' <=> Awaiting(d) BY <2>3, <1>3, <1>4 DEF Awaiting
    <3>2. Least(d)' = Least(d) BY <2>1, <2>3, <3>1, <1>9, LeastSame
    <3> QED BY <2>2, <3>2, <1>1 DEF Has
  <2>4. CASE d = c
    <3>1. missed[c] \in BOOLEAN /\ renewIn[c] = 0 BY <1>1, <1>2, HolderFields
    <3>2. CASE Miss(c) /\ calls' = calls
      <4>1. ~missed[c] /\ missed'[c] = TRUE
        BY <3>2, MissTypes DEF Miss, TypeOK
      <4>2. ~Awaiting(c)' BY <3>2, <1>7 DEF Awaiting
      <4>3. Least(c)' = Ttl - CallTimeout - RenewEvery + RenewEvery - RenewEvery - 0
        BY <4>1, <4>2, <1>10 DEF Least
      <4>4. Least(c)' = Least(c) BY <4>1, <4>3, <3>1, <1>7, LeastIs, Bounds
      <4> QED BY <4>4, <2>2, <2>4, <1>1 DEF Has
    <3>3. CASE calls' = calls \cup {r} /\ UNCHANGED <<missed, late>>
      <4>1. Awaiting(c)' BY <3>3, <1>4 DEF Awaiting
      <4>2. Least(c)' = Ttl - CallTimeout - RenewEvery + RenewEvery
                          - (IF missed[c] THEN RenewEvery ELSE 0) - RenewEvery
        BY <4>1, <3>3, <1>10 DEF Least
      <4>3. Least(c)' = Least(c) BY <4>2, <3>1, <1>7, LeastIs, Bounds
      <4> QED BY <4>3, <2>2, <2>4, <1>1 DEF Has
    <3> QED BY <3>2, <3>3, <1>3
  <2> QED BY <2>3, <2>4
<1> QED BY <1>8, <1>12, <1>13, <1>14 DEF Lasting

\* A client that leaves, with or without a release, takes nothing from the others.
LEMMA AbandonLease ==
    ASSUME TypeOK, CallsInv, LeaseInv, NEW c \in Client,
           pc'[c] # "held", \A d \in Client : d # c => pc'[d] = pc[d],
           UNCHANGED <<lock, handle, renewIn, missed, late>>,
           \A n \in calls : n.by # c => n \in calls',
           \A n \in calls' :
               \/ n \in Abandoned(c) /\ (n.kind = "granted" => n.awaited)
               \/ n.by = c /\ n.kind = "release" /\ n.age = 0
    PROVE  LeaseInv'
<1>1. \A n \in Abandoned(c) :
         \/ n \in calls /\ n.by # c
         \/ \E m \in calls :
               /\ n.by = c /\ m.by = c /\ ~n.awaited /\ n.store = m.store
               /\ n.token = m.token /\ n.age = m.age /\ n.kind = m.kind
  BY AbandonedCalls DEF TypeOK
<1>2. \A n \in calls' : \/ n \in calls /\ n.by # c
                        \/ n.by = c /\ ~n.awaited /\ n.kind # "granted"
                        \/ n.by = c /\ n.kind = "release" /\ n.age = 0
  BY <1>1
<1> SUFFICES ASSUME late' = 0 PROVE Young' /\ InStep' /\ Granted' /\ Lasting'
  BY DEF LeaseInv
<1>3. Young /\ InStep /\ Granted /\ Lasting BY DEF LeaseInv
<1>4. Young' BY <1>2, <1>3, Bounds DEF Young
<1>5. InStep' BY <1>2, <1>3 DEF InStep
<1>6. Granted' BY <1>2, <1>3 DEF Granted, Has
<1>7. Holders' = Holders \ {c} BY DEF Holders
<1>8. ASSUME NEW d \in Holders' PROVE Has(handle[d].store, handle[d].token, Least(d))'
  <2>1. d \in Holders /\ d # c /\ d \in Client BY <1>7, HolderFields
  <2>2. Awaiting(d)' <=> Awaiting(d) BY <2>1, <1>2 DEF Awaiting
  <2>3. Least(d)' = Least(d) BY <2>1, <2>2, LeastSame
  <2>4. Has(handle[d].store, handle[d].token, Least(d)) BY <2>1, <1>3 DEF Lasting
  <2> QED BY <2>3, <2>4 DEF Has
<1> QED BY <1>4, <1>5, <1>6, <1>8 DEF Lasting

\* The calls of others are not affected by what a client abandons.
LEMMA OthersCalls ==
    ASSUME NEW c \in Client, NEW n \in calls, n.by # c
    PROVE  n \in Abandoned(c)
BY DEF Abandoned

\* LeaseInv is kept when a client releases.
LEMMA FinishLease ==
    ASSUME TypeOK, CallsInv, LeaseInv, NEW c \in Client, Finish(c)
    PROVE  LeaseInv'
<1> DEFINE r == Sent(c, handle[c], "release")
<1>1. /\ pc[c] = "held" /\ UNCHANGED <<lock, handle, renewIn, missed, late>>
      /\ \/ pc' = [pc EXCEPT ![c] = "idle"] /\ calls' = Abandoned(c)
         \/ pc' = [pc EXCEPT ![c] = "releasing"] /\ calls' = Abandoned(c) \cup {r}
  BY DEF Finish
<1>2. r.by = c /\ r.kind = "release" /\ r.age = 0 BY DEF Sent
<1> HIDE DEF r
<1>3. pc'[c] # "held" /\ \A d \in Client : d # c => pc'[d] = pc[d] BY <1>1 DEF TypeOK
<1>4. \A n \in calls : n.by # c => n \in calls' BY <1>1, OthersCalls
<1>5. ASSUME NEW n \in Abandoned(c), n.kind = "granted" PROVE n.awaited
  <2>1. \/ n \in calls /\ n.by # c
        \/ \E m \in calls : m.by = c /\ n.kind = m.kind
    BY AbandonedCalls DEF TypeOK
  <2> QED BY <2>1, <1>1, <1>5 DEF CallsInv, Known, Awaits
<1>6. \A n \in calls' : \/ n \in Abandoned(c) /\ (n.kind = "granted" => n.awaited)
                        \/ n.by = c /\ n.kind = "release" /\ n.age = 0
  BY <1>1, <1>2, <1>5
<1> QED BY <1>1, <1>3, <1>4, <1>6, AbandonLease

\* LeaseInv is kept when a client crashes.
LEMMA CrashLease ==
    ASSUME TypeOK, CallsInv, LeaseInv, NEW c \in Client, Crash(c)
    PROVE  LeaseInv'
<1>1. /\ UNCHANGED <<lock, handle, renewIn, missed, late>> /\ pc' = [pc EXCEPT ![c] = "idle"]
      /\ calls' = {m \in Abandoned(c) : m.awaited \/ m.kind \notin {"granted", "refused"}}
  BY DEF Crash
<1>2. pc'[c] # "held" /\ \A d \in Client : d # c => pc'[d] = pc[d] BY <1>1 DEF TypeOK
<1>3. \A n \in calls : n.by # c => n \in calls' BY <1>1, OthersCalls DEF CallsInv, Known
<1>4. \A n \in calls' : n \in Abandoned(c) /\ (n.kind = "granted" => n.awaited) BY <1>1
<1> QED BY <1>1, <1>2, <1>3, <1>4, AbandonLease

\* LeaseInv is kept when Mongo's TTL index deletes a lock: it was over.
LEMMA MongoExpireLease ==
    ASSUME TypeOK, CallsInv, LeaseInv, MongoExpire
    PROVE  LeaseInv'
<1>1. /\ lock["mongo"].left <= 0 /\ Unlocked("mongo")
      /\ UNCHANGED <<pc, handle, renewIn, missed, calls, late>>
  BY DEF MongoExpire
<1> SUFFICES ASSUME late' = 0 PROVE Young' /\ InStep' /\ Granted' /\ Lasting'
  BY DEF LeaseInv
<1>2. Young /\ InStep /\ Granted /\ Lasting BY <1>1 DEF LeaseInv
<1>3. \A s \in Store : lock[s].left \in Int BY DEF TypeOK
<1>4. \A s \in Store : lock[s].left >= 1 => lock'[s] = lock[s]
  BY <1>1, <1>3 DEF Unlocked, TypeOK, Store
<1>5. ASSUME NEW n \in calls', n.kind = "granted" PROVE Has(n.store, n.token, Ttl - n.age)'
  <2>1. n \in Call /\ n.awaited BY <1>1, <1>5 DEF CallsInv, Known, TypeOK
  <2>2. n.store \in Store /\ n.age \in Nat /\ n.age <= CallTimeout
    BY <2>1, <1>1, <1>2, CallFields DEF Young
  <2>3. Has(n.store, n.token, Ttl - n.age) BY <1>1, <1>2, <1>5 DEF Granted
  <2> QED BY <2>2, <2>3, <1>3, <1>4, Bounds DEF Has
<1>6. ASSUME NEW d \in Holders' PROVE Has(handle[d].store, handle[d].token, Least(d))'
  <2>1. d \in Holders BY <1>1 DEF Holders
  <2>2. handle[d].store \in Store /\ d \in Client BY <2>1, HolderFields
  <2>3. Least(d) \in Int /\ Least(d) >= 1 BY <2>1, <1>2, LastsLongEnough
  <2>4. Least(d)' = Least(d) BY <2>2, <1>1, LeastSame DEF Awaiting
  <2>5. Has(handle[d].store, handle[d].token, Least(d)) BY <2>1, <1>2 DEF Lasting
  <2> QED BY <2>2, <2>3, <2>4, <2>5, <1>1, <1>3, <1>4 DEF Has
<1> QED BY <1>1, <1>2, <1>5, <1>6 DEF Young, InStep, Granted, Lasting

\* LeaseInv is kept when time passes: a holder that is on time has renewed.
LEMMA TickLease ==
    ASSUME TypeOK, CallsInv, LeaseInv, Tick
    PROVE  LeaseInv'
<1> DEFINE Aged(m) == [m EXCEPT !.age = IF m.age = MaxAge THEN m.age ELSE m.age + 1]
<1>1. /\ calls' = {Aged(m) : m \in calls}
      /\ renewIn' = [c \in Client |-> IF renewIn[c] = 0 THEN 0 ELSE renewIn[c] - 1]
      /\ lock' = [s \in Store |-> Elapsed(s)]
      /\ late' = IF OnTime THEN late ELSE late + 1
      /\ UNCHANGED <<handle, pc, missed>>
  BY DEF Tick
<1>2. ASSUME NEW m \in calls
      PROVE  /\ Aged(m).by = m.by /\ Aged(m).store = m.store /\ Aged(m).token = m.token
             /\ Aged(m).awaited = m.awaited /\ Aged(m).kind = m.kind
             /\ Aged(m).age = IF m.age = MaxAge THEN m.age ELSE m.age + 1
  BY DEF TypeOK, Call
<1> HIDE DEF Aged
<1> SUFFICES ASSUME late' = 0 PROVE Young' /\ InStep' /\ Granted' /\ Lasting'
  BY DEF LeaseInv
<1>3. OnTime /\ late = 0 BY <1>1, Bounds DEF TypeOK
<1>4. Young /\ InStep /\ Granted /\ Lasting BY <1>3 DEF LeaseInv
<1>5. ASSUME NEW m \in calls, m.awaited
      PROVE  m.age \in Nat /\ m.age < CallTimeout /\ Aged(m).age = m.age + 1
  BY <1>2, <1>3, <1>5, CallFields, Bounds DEF OnTime, TypeOK
<1>6. Young'
  <2> SUFFICES ASSUME NEW n \in calls', n.awaited PROVE n.age <= CallTimeout BY DEF Young
  <2>1. PICK m \in calls : n = Aged(m) BY <1>1
  <2> QED BY <2>1, <1>2, <1>5, Bounds
<1>7. InStep'
  <2> SUFFICES ASSUME NEW n \in calls', n.awaited, n.kind = "renew"
               PROVE  n.age = RenewEvery - renewIn'[n.by]
    BY DEF InStep
  <2>1. PICK m \in calls : n = Aged(m) BY <1>1
  <2>2. m.awaited /\ m.kind = "renew" /\ n.by = m.by BY <2>1, <1>2
  <2>3. m.by \in Client /\ pc[m.by] = "held"
    BY <2>2, CallFields DEF TypeOK, CallsInv, Known, Awaits, First
  <2>4. renewIn[m.by] \in Nat /\ renewIn[m.by] > 0 BY <2>3, <1>3, Bounds DEF OnTime, TypeOK
  <2>5. renewIn'[m.by] = renewIn[m.by] - 1 BY <2>3, <2>4, <1>1
  <2>6. m.age = RenewEvery - renewIn[m.by] BY <2>2, <1>4 DEF InStep
  <2> QED BY <2>1, <2>2, <2>4, <2>5, <2>6, <1>5, Bounds
<1>8. \A s \in Store : lock[s].left \in Int /\ lock'[s] = Elapsed(s)
  BY <1>1 DEF TypeOK
<1>9. \A s \in Store : lock[s].token # None /\ lock[s].left > 1 =>
         lock'[s].token = lock[s].token /\ lock'[s].left >= lock[s].left - 1
  BY <1>8, ElapsedTypes
<1>10. \A s \in Store : lock'[s].left \in Int BY TickTypes DEF TypeOK
<1>11. Granted'
  <2> SUFFICES ASSUME NEW n \in calls', n.kind = "granted"
               PROVE  Has(n.store, n.token, Ttl - n.age)'
    BY DEF Granted
  <2>1. PICK m \in calls : n = Aged(m) BY <1>1
  <2>2. m.kind = "granted" /\ m.awaited BY <2>1, <1>2 DEF CallsInv, Known
  <2>3. m.store \in Store /\ m.token # None BY CallFields, Tokens DEF TypeOK
  <2>4. Has(m.store, m.token, Ttl - m.age) BY <2>2, <1>4 DEF Granted
  <2>5. lock[m.store].left > 1 BY <2>2, <2>3, <2>4, <1>5, <1>8, Bounds DEF Has
  <2>6. lock'[m.store].token = m.token /\ lock'[m.store].left >= lock[m.store].left - 1
    BY <2>3, <2>4, <2>5, <1>9 DEF Has
  <2>7. lock'[m.store].left >= Ttl - (m.age + 1)
    BY <2>2, <2>3, <2>4, <2>6, <1>5, <1>8, <1>10, Bounds DEF Has
  <2> QED BY <2>1, <2>2, <2>6, <2>7, <1>2, <1>5 DEF Has
<1>12. ASSUME NEW d \in Holders' PROVE Has(handle[d].store, handle[d].token, Least(d))'
  <2>1. d \in Holders BY <1>1 DEF Holders
  <2>2. /\ d \in Client /\ handle[d].store \in Store /\ handle[d].token # None
        /\ renewIn[d] \in Nat /\ missed[d] \in BOOLEAN /\ pc[d] = "held"
    BY <2>1, HolderFields
  <2>3. Least(d) \in Int /\ Least(d) >= 2 BY <2>1, <1>3, <1>4, LastsLongEnough
  <2>4. Has(handle[d].store, handle[d].token, Least(d)) BY <2>1, <1>4 DEF Lasting
  <2> DEFINE s == handle[d].store
  <2>5. /\ lock'[s].token = handle[d].token /\ lock'[s].left >= lock[s].left - 1
        /\ lock[s].left >= Least(d)
    BY <2>2, <2>3, <2>4, <1>8, <1>9 DEF Has
  <2>6. renewIn'[d] = renewIn[d] - 1
    BY <2>2, <1>1, <1>3 DEF OnTime
  <2>7. Awaiting(d)' <=> Awaiting(d) BY <1>1, <1>2 DEF Awaiting
  <2>8. Least(d)' = Least(d) - 1 BY <2>2, <2>6, <2>7, <1>1, Bounds DEF Least
  <2>9. lock'[s].left >= Least(d) - 1 BY <2>2, <2>3, <2>5, <1>8, <1>10
  <2> QED BY <2>5, <2>8, <2>9, <1>1 DEF Has
<1> QED BY <1>6, <1>7, <1>11, <1>12 DEF Lasting

\* A lock that has not expired is not touched by a call with another token.
LEMMA TouchedByOwner ==
    ASSUME TypeOK, NEW m \in calls, Touches(m), NEW s \in Store,
           lock[s].token # None, lock[s].left >= 1
    PROVE  \/ lock'[s] = lock[s]
           \/ /\ s = m.store /\ m.token = lock[s].token /\ m.kind = "release"
           \/ /\ s = m.store /\ m.token = lock[s].token
              /\ m.kind \in {"acquire", "create", "renew"}
              /\ lock'[s].token = m.token /\ lock'[s].left >= Ttl - m.age
              /\ s = "redis" => lock'[s].left = Ttl
<1>1. lock[s].left \in Int BY DEF TypeOK
<1> QED BY <1>1 DEF Touches

\* A client misses a renewal: it has one interval less, and waits for none.
LEMMA MissLasts ==
    ASSUME TypeOK, NEW c \in Holders, Miss(c), late' = 0, Awaiting(c), ~Awaiting(c)',
           renewIn' = renewIn
    PROVE  Least(c)' = Least(c)
<1>1. c \in Client /\ renewIn[c] \in Nat /\ missed[c] \in BOOLEAN BY HolderFields
<1>2. ~missed[c] /\ missed'[c] = TRUE BY <1>1, MissTypes DEF Miss, TypeOK
<1>3. Least(c)' = Ttl - CallTimeout - RenewEvery + renewIn[c] - RenewEvery - 0
  BY <1>2 DEF Least
<1> QED BY <1>1, <1>2, <1>3, LeastIs, Bounds

\* A renewal the client waits for is the only one.
LEMMA OneRenewal ==
    ASSUME TypeOK, CallsInv, Young, InStep, NEW m \in calls, m.awaited, m.kind = "renew",
           NEW n \in calls, n.awaited, n.by = m.by
    PROVE  n = m
<1>1. pc[m.by] = "held" BY DEF CallsInv, Known, Awaits, First
<1>2. n.kind = "renew" BY <1>1 DEF CallsInv, Known, Awaits
<1>3. n.age = m.age BY <1>2 DEF InStep
<1>4. m.token = n.token /\ m.store = n.store BY DEF CallsInv, Known
<1>5. m \in Call /\ n \in Call BY DEF TypeOK
<1>6. m.awaited = n.awaited BY <1>5, CallFields
<1> QED BY <1>2, <1>3, <1>4, <1>5, <1>6, SameCall

\* A client that was granted the lock has it, whatever is served in between.
LEMMA ServeGranted ==
    ASSUME TypeOK, CallsInv, Young, Granted, NEW m \in calls, ServeMoves(m)
    PROVE  Granted'
<1> SUFFICES ASSUME NEW n \in calls', n.kind = "granted"
             PROVE  Has(n.store, n.token, Ttl - n.age)'
  BY DEF Granted
<1>1. CASE n \in calls
  <2>1. /\ n.awaited /\ n.token = handle[n.by].token /\ pc[n.by] = "acquiring"
        /\ Has(n.store, n.token, Ttl - n.age)
    BY <1>1 DEF CallsInv, Known, Awaits, Granted
  <2>2. /\ n.store \in Store /\ n.token # None /\ n.age \in Nat /\ n.age <= CallTimeout
        /\ n.token[1] = n.by
    BY <1>1, <2>1, CallFields, Tokens DEF TypeOK, Young, CallsInv, Known
  <2>3. lock[n.store].token = n.token /\ lock[n.store].left >= 1
        /\ lock[n.store].left >= Ttl - n.age
    BY <2>1, <2>2, Bounds DEF Has, TypeOK
  <2>4. m.kind \in {"acquire", "create", "renew", "release"} => m.token # n.token
    <3>1. SUFFICES ASSUME m.token = n.token PROVE m = n BY DEF Granted
    <3>2. m.by = n.by BY <3>1, <2>2 DEF CallsInv, Known
    <3>3. m.awaited BY <3>1, <3>2, <2>1 DEF CallsInv, Known
    <3> QED BY <3>2, <3>3, <1>1, <2>1 DEF CallsInv, OneAwaited
  <2>5. lock'[n.store] = lock[n.store]
    BY <2>2, <2>3, <2>4, TouchedByOwner DEF ServeMoves
  <2> QED BY <2>3, <2>5 DEF Has
<1>2. CASE n \notin calls
  <2>1. PICK k \in {"create", "granted", "refused"} :
          /\ n = [m EXCEPT !.kind = k]
          /\ k = "granted" => /\ lock'[m.store].token = m.token
                              /\ lock'[m.store].left >= Ttl - m.age
    BY <1>2 DEF ServeMoves, Replies
  <2>2. m \in Call BY DEF TypeOK
  <2>3. n.kind = k /\ n.store = m.store /\ n.token = m.token /\ n.age = m.age
    BY <2>1, <2>2, Reply
  <2> QED BY <2>1, <2>3 DEF Has
<1> QED BY <1>1, <1>2

\* After a call was served a holder's lock is still there, and lasts as long as his
\* timer needs it to.
LEMMA ServeLasts ==
    ASSUME TypeOK, CallsInv, Young, InStep, Lasting, NEW m \in calls, ServeMoves(m),
           UNCHANGED <<handle, renewIn>>, late' = 0, NEW c \in Holders
    PROVE  Has(handle[c].store, handle[c].token, Least(c))'
<1>1. /\ c \in Client /\ pc[c] = "held" /\ renewIn[c] \in Nat /\ renewIn[c] <= RenewEvery
      /\ missed[c] \in BOOLEAN
      /\ handle[c].store \in Store /\ handle[c].token \in Token /\ handle[c].token # None
  BY HolderFields
<1> DEFINE s == handle[c].store
<1>2. Has(s, handle[c].token, Least(c)) BY DEF Lasting
<1>3. Least(c) \in Int /\ Least(c) >= 1 BY LastsLongEnough
<1>4. lock[s].left \in Int /\ lock'[s].left \in Int
  BY <1>1 DEF TypeOK, ServeMoves, Touches
<1>5. lock[s].token = handle[c].token /\ lock[s].left >= Least(c) /\ lock[s].left >= 1
  BY <1>2, <1>3, <1>4 DEF Has
<1>6. m \in Call /\ Known(m) BY DEF TypeOK, CallsInv
<1>7. m.by \in Client /\ m.age \in Nat /\ m.awaited \in BOOLEAN BY <1>6, CallFields
<1>8. m.token = handle[c].token => m.by = c /\ m.kind = "renew" /\ (s = "mongo" => m.awaited)
  BY <1>1, <1>6 DEF Known, CallsInv, OwnToken
<1>9. CASE m.awaited /\ m.kind = "renew" /\ m.by = c
  <2>1. m.age <= CallTimeout /\ m.age = RenewEvery - renewIn[c] /\ m.store = s
        /\ m.token = handle[c].token
    BY <1>6, <1>9 DEF Young, InStep, Known
  <2>2. calls' = calls \ {m} BY <1>9 DEF ServeMoves, Replies, Asks
  <2>3. Awaiting(c) BY <1>9 DEF Awaiting
  <2>4. ~Awaiting(c)' BY <2>2, <1>9, OneRenewal DEF Awaiting
  <2>5. CASE /\ missed' = [missed EXCEPT ![c] = FALSE]
             /\ lock'[s].token = m.token /\ lock'[s].left >= Ttl - m.age
    <3>1. missed'[c] = FALSE BY <2>5, <1>1 DEF TypeOK
    <3>2. Least(c)' = Ttl - CallTimeout - RenewEvery + renewIn[c] - 0 - 0
      BY <3>1, <2>4 DEF Least
    <3>3. Least(c)' <= lock'[s].left BY <3>2, <2>1, <2>5, <1>1, <1>4, <1>7, Bounds
    <3> QED BY <3>3, <2>1, <2>5 DEF Has
  <2>6. CASE Miss(c)
    <3>1. Least(c)' = Least(c) BY <2>3, <2>4, <2>6, MissLasts
    <3>2. lock'[s] = lock[s] \/ (lock'[s].token = m.token /\ lock'[s].left >= Ttl - m.age)
      BY <1>1, <1>5, <1>9, TouchedByOwner DEF ServeMoves
    <3>3. Least(c) <= Ttl - m.age BY <2>1, <2>3, <1>1, <1>7, LeastIs, Bounds
    <3>4. lock'[s].token = handle[c].token /\ lock'[s].left >= Least(c)
      BY <3>2, <3>3, <2>1, <1>3, <1>4, <1>5, <1>7, Bounds
    <3> QED BY <3>1, <3>4 DEF Has
  <2> QED BY <2>5, <2>6, <2>1, <1>9 DEF ServeMoves, Renews
<1>10. CASE ~(m.awaited /\ m.kind = "renew" /\ m.by = c)
  <2>1. m.awaited => m.by # c BY <1>1, <1>6, <1>10 DEF Known, Awaits
  <2>2. Awaiting(c)' <=> Awaiting(c)
    <3>1. \A k \in {"create", "granted", "refused"} : [m EXCEPT !.kind = k].by = m.by
      BY <1>6, Reply
    <3> QED BY <2>1, <3>1 DEF Awaiting, ServeMoves, Replies, Asks
  <2>3. missed'[c] = missed[c]
    BY <1>1, <1>7, <1>10 DEF ServeMoves, Renews, Miss, TypeOK
  <2>4. Least(c)' = Least(c) BY <1>1, <2>2, <2>3, LeastSame
  <2>5. \/ lock'[s] = lock[s]
        \/ lock'[s].token = handle[c].token /\ lock'[s].left = Ttl
    <3>1. \/ lock'[s] = lock[s]
          \/ /\ s = m.store /\ m.token = lock[s].token /\ m.kind = "release"
          \/ /\ s = m.store /\ m.token = lock[s].token
             /\ lock'[s].token = m.token /\ (s = "redis" => lock'[s].left = Ttl)
      BY <1>1, <1>5, TouchedByOwner DEF ServeMoves
    <3>2. CASE m.token = lock[s].token
      <4>1. m.by = c /\ m.kind = "renew" /\ s # "mongo" BY <3>2, <1>5, <1>8, <1>10
      <4> QED BY <4>1, <3>1, <1>1, <1>5 DEF Store
    <3> QED BY <3>1, <3>2
  <2>6. Least(c) <= Ttl BY <1>1, LeastIs, Bounds
  <2> QED BY <2>4, <2>5, <2>6, <1>3, <1>4, <1>5 DEF Has
<1> QED BY <1>9, <1>10

\* LeaseInv is kept when a store serves a call.
LEMMA ServeLease ==
    ASSUME TypeOK, CallsInv, LeaseInv, NEW m \in calls, ServeMoves(m),
           UNCHANGED <<handle, renewIn>>
    PROVE  LeaseInv'
<1>1. m \in Call /\ Known(m) BY DEF TypeOK, CallsInv
<1>2. m.by \in Client BY <1>1, CallFields
<1> SUFFICES ASSUME late' = 0 PROVE Young' /\ InStep' /\ Granted' /\ Lasting'
  BY DEF LeaseInv
<1>3. late = 0 BY <1>2, MissTypes DEF ServeMoves, Renews, TypeOK
<1>4. Young /\ InStep /\ Granted /\ Lasting BY <1>3 DEF LeaseInv
<1>5. \A n \in calls' : n \in calls \/ (n.age = m.age /\ m.awaited /\ n.kind # "renew")
  <2>1. \A k \in {"create", "granted", "refused"} :
           LET n == [m EXCEPT !.kind = k] IN n.age = m.age /\ n.kind = k
    BY <1>1, Reply
  <2> QED BY <2>1 DEF ServeMoves, Replies, Asks
<1>6. Young' BY <1>4, <1>5 DEF Young
<1>7. InStep' BY <1>4, <1>5 DEF InStep
<1>8. Granted' BY <1>4, ServeGranted
<1>9. Holders' \subseteq Holders BY <1>2 DEF ServeMoves, Frees, Holders, TypeOK
<1>10. Lasting' BY <1>4, <1>9, ServeLasts DEF Lasting
<1> QED BY <1>6, <1>7, <1>8, <1>10

\* LeaseInv is kept when a call fails.
LEMMA CallFailsLease ==
    ASSUME TypeOK, CallsInv, LeaseInv, CallFails
    PROVE  LeaseInv'
<1>1. PICK m \in calls : Lose(m) \/ GiveUp(m) BY DEF CallFails
<1>2. UNCHANGED <<lock, handle, renewIn>> BY DEF CallFails
<1>3. m \in Call /\ Known(m) BY DEF TypeOK, CallsInv
<1>4. m.by \in Client /\ m.awaited \in BOOLEAN BY <1>3, CallFields
<1>5. IF m.awaited THEN Failed(m) ELSE UNCHANGED <<pc, missed, late>>
  BY <1>1 DEF Lose, GiveUp
<1>6. \/ calls' = calls \ {m}
      \/ \E r \in Call :
            /\ calls' = (calls \ {m}) \cup {r} /\ m.awaited
            /\ r.by = m.by /\ ~r.awaited /\ r.kind = m.kind /\ m.kind # "granted"
  <2>1. LET r == [m EXCEPT !.awaited = FALSE]
        IN r \in Call /\ r.by = m.by /\ ~r.awaited /\ r.kind = m.kind
    BY <1>3, LeftOver
  <2> QED BY <1>1, <2>1 DEF Lose, GiveUp
<1>7. /\ \A n \in calls' : n \in calls \/ (n.by = m.by /\ ~n.awaited /\ n.kind # "granted" /\ m.awaited)
      /\ \A n \in calls : n = m \/ n \in calls'
      /\ m.awaited /\ m \in calls' => FALSE
  BY <1>6
<1> SUFFICES ASSUME late' = 0 PROVE Young' /\ InStep' /\ Granted' /\ Lasting'
  BY DEF LeaseInv
<1>8. late = 0 BY <1>4, <1>5, MissTypes DEF Failed, TypeOK
<1>9. Young /\ InStep /\ Granted /\ Lasting BY <1>8 DEF LeaseInv
<1>10. Young' BY <1>7, <1>9 DEF Young
<1>11. InStep' BY <1>2, <1>7, <1>9 DEF InStep
<1>12. Granted' BY <1>2, <1>7, <1>9 DEF Granted, Has
<1>13. Holders' \subseteq Holders
  BY <1>4, <1>5 DEF Failed, Holders, TypeOK
<1>14. ASSUME NEW c \in Holders' PROVE Has(handle[c].store, handle[c].token, Least(c))'
  <2>1. c \in Holders /\ c \in Client /\ pc[c] = "held" BY <1>13, HolderFields
  <2>2. Has(handle[c].store, handle[c].token, Least(c)) BY <2>1, <1>9 DEF Lasting
  <2>3. Least(c)' = Least(c)
    <3>1. CASE m.awaited /\ m.by = c
      <4>1. m.kind = "renew" BY <3>1, <2>1, <1>3 DEF Known, Awaits
      <4>2. Miss(c) BY <3>1, <4>1, <1>5 DEF Failed
      <4>3. Awaiting(c) BY <3>1 DEF Awaiting
      <4>4. ~Awaiting(c)'
        BY <3>1, <4>1, <1>7, <1>9, OneRenewal DEF Awaiting
      <4> QED BY <4>2, <4>3, <4>4, <2>1, <1>2, MissLasts
    <3>2. CASE ~(m.awaited /\ m.by = c)
      <4>1. Awaiting(c)' <=> Awaiting(c) BY <3>2, <1>7 DEF Awaiting
      <4>2. missed'[c] = missed[c]
        BY <3>2, <2>1, <1>4, <1>5 DEF Failed, Miss, TypeOK
      <4> QED BY <4>1, <4>2, <2>1, <1>2, LeastSame
    <3> QED BY <3>1, <3>2
  <2> QED BY <2>2, <2>3, <1>2 DEF Has
<1> QED BY <1>10, <1>11, <1>12, <1>14 DEF Lasting

\* LeaseInv speaks of locks, handles, timers and calls only.
LEMMA OtherLease ==
    ASSUME TypeOK, LeaseInv, UNCHANGED <<lock, pc, handle, renewIn, missed, calls, late>>
    PROVE  LeaseInv'
<1>1. Holders' = Holders BY DEF Holders
<1>2. \A c \in Holders : Least(c)' = Least(c)
  BY LeastSame DEF Awaiting, Holders
<1> QED BY <1>1, <1>2 DEF LeaseInv, Young, InStep, Granted, Lasting, Has

-----------------------------------------------------------------------------
(* Which store the clients use.                                            *)

LEMMA InitSide == Init => SideInv
<1> SUFFICES ASSUME Init PROVE SideInv OBVIOUS
<1>1. PICK up \in BOOLEAN : connected = [c \in Client |-> up] BY DEF Init
<1> QED BY <1>1 DEF Init, SideInv

\* A client goes on with the store it has, or takes the one it is connected to.
LEMMA SideMoves ==
    ASSUME TypeOK, SideInv, flips' >= flips,
           \/ flips' > flips
           \/ /\ connected' = connected
              /\ \A c \in Client :
                    \/ pc'[c] = "idle"
                    \/ pc[c] # "idle" /\ handle'[c] = handle[c]
                    \/ handle'[c].store = IF connected[c] THEN "redis" ELSE "mongo"
    PROVE  SideInv'
<1>1. flips \in Nat /\ (flips' = 0 => flips = 0 /\ ~(flips' > flips))
  BY Bounds DEF TypeOK
<1> QED BY <1>1 DEF SideInv

-----------------------------------------------------------------------------
(* The invariant.                                                          *)

LEMMA InitIInv == Init => IInv
BY InitTypes, InitCalls, InitLease, InitSide DEF IInv

\* The invariant is inductive.
LEMMA NextIInv ==
    ASSUME IInv, Next
    PROVE  IInv'
<1> USE DEF IInv
<1>1. ASSUME NEW c \in Client, Acquire(c) PROVE IInv'
  <2>1. SideInv'
    <3>1. /\ handle'[c].store = IF connected[c] THEN "redis" ELSE "mongo"
          /\ \A d \in Client : d # c => pc'[d] = pc[d] /\ handle'[d] = handle[d]
      BY <1>1 DEF Acquire, TypeOK, Handle
    <3> QED BY <3>1, <1>1, SideMoves, Bounds DEF Acquire, TypeOK
  <2> QED BY <2>1, <1>1, AcquireTypes, AcquireCalls, AcquireLease
<1>2. ASSUME NEW c \in Client, Acquired(c) PROVE IInv'
  <2>1. SideInv'
    <3>1. PICK m \in calls : m.by = c /\ m.kind \in {"granted", "refused"} /\ UNCHANGED <<handle, flips, connected>>
                 /\ pc' = [pc EXCEPT ![c] = IF m.kind = "granted" THEN "held" ELSE "idle"]
      BY <1>2 DEF Acquired
    <3>2. pc[c] = "acquiring" BY <3>1 DEF CallsInv, Known, Awaits
    <3>3. \A d \in Client : pc'[d] = "idle" \/ (pc[d] # "idle" /\ handle'[d] = handle[d])
      BY <3>1, <3>2 DEF TypeOK
    <3> QED BY <3>1, <3>3, SideMoves, Bounds DEF TypeOK
  <2> QED BY <2>1, <1>2, AcquiredTypes, AcquiredCalls, AcquiredLease
<1>3. ASSUME NEW c \in Client, RenewTimer(c) PROVE IInv'
  <2>1. SideInv' BY <1>3 DEF RenewTimer, SideInv
  <2> QED BY <2>1, <1>3, RenewTimerTypes, RenewTimerCalls, RenewTimerLease
<1>4. ASSUME NEW c \in Client, Finish(c) PROVE IInv'
  <2>1. /\ UNCHANGED <<connected, handle, flips>> /\ pc[c] = "held"
        /\ \A d \in Client : d # c => pc'[d] = pc[d]
    BY <1>4 DEF Finish, TypeOK
  <2>2. SideInv' BY <2>1, SideMoves, Bounds DEF TypeOK
  <2> QED BY <2>2, <1>4, FinishTypes, FinishCalls, FinishLease
<1>5. ASSUME NEW c \in Client, Serve(c) PROVE IInv'
  <2>1. PICK m \in calls :
          \/ RedisSet(m) \/ RedisDel(m)
          \/ MongoPurge(m) \/ MongoCreate(m) \/ MongoTouch(m) \/ MongoDelete(m)
    BY <1>5 DEF Serve
  <2>2. UNCHANGED <<connected, handle, renewIn, flips, faults>> BY <1>5 DEF Serve
  <2>3. ServeMoves(m) BY <2>1, ServeMovesOn DEF CallsInv, Known
  <2>4. \A d \in Client : pc'[d] = "idle" \/ pc'[d] = pc[d]
    BY <2>3, CallFields DEF ServeMoves, Frees, TypeOK
  <2>5. SideInv' BY <2>2, <2>4, SideMoves, Bounds DEF TypeOK
  <2> QED BY <2>2, <2>3, <2>5, ServeTypes, ServeCalls, ServeLease
<1>6. ASSUME NEW c \in Client, Crash(c) PROVE IInv'
  <2>1. UNCHANGED <<connected, handle, flips>> /\ \A d \in Client : pc'[d] = "idle" \/ pc'[d] = pc[d]
    BY <1>6 DEF Crash, TypeOK
  <2>2. SideInv' BY <2>1, SideMoves, Bounds DEF TypeOK
  <2> QED BY <2>2, <1>6, CrashTypes, CrashCalls, CrashLease
<1>7. ASSUME NEW c \in Client, Flip(c) PROVE IInv'
  <2>1. SideInv' BY <1>7, SideMoves, Bounds DEF Flip, TypeOK
  <2>2. CallsInv' /\ LeaseInv' BY <1>7, OtherCalls, OtherLease DEF Flip
  <2> QED BY <2>1, <2>2, <1>7, FlipTypes
<1>8. ASSUME MongoExpire PROVE IInv'
  <2>1. SideInv' BY <1>8 DEF MongoExpire, SideInv
  <2>2. CallsInv' BY <1>8, OtherCalls DEF MongoExpire
  <2> QED BY <2>1, <2>2, <1>8, MongoExpireTypes, MongoExpireLease
<1>9. ASSUME CallFails PROVE IInv'
  <2>1. PICK m \in calls : Lose(m) \/ GiveUp(m) BY <1>9 DEF CallFails
  <2>2. \A d \in Client : pc'[d] = "idle" \/ pc'[d] = pc[d]
    BY <2>1, CallFields DEF Lose, GiveUp, Failed, TypeOK
  <2>3. SideInv' BY <2>2, <1>9, SideMoves, Bounds DEF CallFails, TypeOK
  <2> QED BY <2>3, <1>9, CallFailsTypes, CallFailsCalls, CallFailsLease
<1>10. ASSUME Tick PROVE IInv'
  <2>1. SideInv' BY <1>10 DEF Tick, SideInv
  <2> QED BY <2>1, <1>10, TickTypes, TickCalls, TickLease
<1> QED BY <1>1, <1>2, <1>3, <1>4, <1>5, <1>6, <1>7, <1>8, <1>9, <1>10 DEF Next

\* The invariant is kept by a step that changes nothing.
LEMMA StutterIInv ==
    ASSUME IInv, UNCHANGED vars
    PROVE  IInv'
<1>1. TypeOK' /\ SideInv' BY DEF IInv, vars, TypeOK, SideInv
<1>2. CallsInv' /\ LeaseInv' BY OtherCalls, OtherLease DEF IInv, vars
<1> QED BY <1>1, <1>2 DEF IInv

\* The invariant holds at all times.
LEMMA AlwaysIInv == Spec => []IInv
BY InitIInv, NextIInv, StutterIInv, PTL DEF Spec

-----------------------------------------------------------------------------
(* The theorems.                                                           *)

LEMMA OneHolder == IInv => Exclusive
<1> SUFFICES ASSUME IInv, late = 0, NEW c \in Holders, NEW d \in Holders
             PROVE  c = d \/ (flips > 0 /\ handle[c].store # handle[d].store)
  BY DEF Exclusive
<1> USE DEF IInv
<1>1. /\ c \in Client /\ pc[c] = "held" /\ d \in Client /\ pc[d] = "held"
  BY HolderFields
<1>2. handle[c].store = handle[d].store => c = d
  <2>1. /\ lock[handle[c].store].token = handle[c].token
        /\ lock[handle[d].store].token = handle[d].token
    BY DEF LeaseInv, Lasting, Has
  <2>2. handle[c].token[1] = c /\ handle[d].token[1] = d BY <1>1 DEF CallsInv, OwnToken
  <2> QED BY <2>1, <2>2
<1>3. flips = 0 => handle[c].store = handle[d].store BY <1>1 DEF SideInv
<1>4. flips = 0 \/ flips > 0 BY Bounds DEF TypeOK
<1> QED BY <1>2, <1>3, <1>4

(***************************************************************************)
(* The types; and while renewals and calls are on time, no two processes   *)
(* hold the lock of a job at once, whatever calls and answers were lost,   *)
(* given up on, or left over from a crash.  A process that changes stores  *)
(* can lose this only towards one that uses the other store.               *)
(***************************************************************************)
THEOREM AlwaysSafelyHeld == Spec => []SafelyHeld
<1>1. IInv => SafelyHeld BY OneHolder DEF IInv, SafelyHeld
<1> QED BY <1>1, AlwaysIInv, PTL

\* A lock in time stays its holder's in every step.
LEMMA NotTakenFrom ==
    ASSUME IInv, Next, NEW c \in Client, pc[c] = "held", pc'[c] = "held",
           lock[handle[c].store].token = handle[c].token, lock[handle[c].store].left > 1
    PROVE  lock'[handle[c].store].token = handle[c].token
<1> DEFINE s == handle[c].store
<1> USE DEF IInv
<1>1. c \in Holders BY DEF Holders
<1>2. s \in Store /\ handle[c].token # None BY <1>1, HolderFields
<1>3. lock[s].left \in Int BY <1>2 DEF TypeOK
<1>4. CASE UNCHANGED lock BY <1>4
<1>5. ASSUME NEW d \in Client, Serve(d) PROVE lock'[s].token = handle[c].token
  <2>1. PICK m \in calls :
          \/ RedisSet(m) \/ RedisDel(m)
          \/ MongoPurge(m) \/ MongoCreate(m) \/ MongoTouch(m) \/ MongoDelete(m)
    BY <1>5 DEF Serve
  <2>2. ServeMoves(m) BY <2>1, ServeMovesOn DEF CallsInv, Known
  <2>3. m.token = handle[c].token => m.kind = "renew"
    BY DEF CallsInv, OwnToken, Known
  <2> QED BY <2>2, <2>3, <1>2, <1>3, TouchedByOwner DEF ServeMoves
<1>6. CASE MongoExpire
  BY <1>2, <1>3, <1>6 DEF MongoExpire, Unlocked, TypeOK, Store
<1>7. CASE Tick
  <2>1. lock'[s] = Elapsed(s) BY <1>2, <1>7 DEF Tick
  <2> QED BY <2>1, <1>2, ElapsedTypes
<1>8. CASE CallFails BY <1>8 DEF CallFails
<1>9. ASSUME NEW d \in Client,
             Acquire(d) \/ Acquired(d) \/ RenewTimer(d) \/ Finish(d) \/ Crash(d) \/ Flip(d)
      PROVE  UNCHANGED lock
  BY <1>9 DEF Acquire, Acquired, RenewTimer, Finish, Crash, Flip
<1> QED BY <1>4, <1>5, <1>6, <1>7, <1>8, <1>9 DEF Next

(***************************************************************************)
(* A lock that has not expired is never taken from a process that holds    *)
(* it, whatever the timing: late releases, renewals, inserts and cleanups  *)
(* of processes that have lapsed find a token that is not theirs.          *)
(***************************************************************************)
THEOREM NeverTakenAway == Spec => NeverTaken
<1> DEFINE Kept(c) ==
      LET s == handle[c].store IN
      /\ pc[c] = "held" /\ pc'[c] = "held"
      /\ lock[s].token = handle[c].token /\ lock[s].left > 1
      => lock'[s].token = handle[c].token
<1>1. IInv /\ [Next]_vars => [\A c \in Client : Kept(c)]_vars
  BY NotTakenFrom
<1> QED BY <1>1, AlwaysIInv, PTL DEF Spec, NeverTaken

\* A step of the protocol enters the lease when it is free, leaves it, or does not
\* change who is inside.
LEMMA StepOfLease ==
    ASSUME IInv, IInv', late' = 0, flips' = 0, Next
    PROVE  Promise!Next \/ UNCHANGED Holders
<1> USE DEF IInv
<1>1. \A c, d \in Holders' : c = d
  <2>1. Exclusive' BY OneHolder, PTL
  <2> QED BY <2>1 DEF Exclusive
<1>2. ASSUME NEW c \in Client, pc' = [pc EXCEPT ![c] = "held"], pc[c] # "held"
      PROVE  Promise!Enter(c)
  <2>1. Holders' = Holders \cup {c} /\ c \notin Holders BY <1>2 DEF Holders, TypeOK
  <2>2. Holders = {} BY <2>1, <1>1
  <2> QED BY <2>1, <2>2 DEF Promise!Enter
<1>3. ASSUME NEW c \in Client, NEW p \in {"idle", "acquiring", "releasing"},
             pc' = [pc EXCEPT ![c] = p]
      PROVE  Promise!Leave(c) \/ UNCHANGED Holders
  <2>1. Holders' = Holders \ {c} BY <1>3 DEF Holders, TypeOK
  <2> QED BY <2>1 DEF Promise!Leave
<1>4. UNCHANGED pc => UNCHANGED Holders BY DEF Holders
<1>5. ASSUME NEW c \in Client, Acquired(c) PROVE Promise!Next \/ UNCHANGED Holders
  <2>1. PICK m \in calls : /\ m.by = c /\ m.kind \in {"granted", "refused"}
                           /\ pc' = [pc EXCEPT ![c] = IF m.kind = "granted" THEN "held" ELSE "idle"]
    BY <1>5 DEF Acquired
  <2>2. pc[c] = "acquiring" BY <2>1 DEF CallsInv, Known, Awaits
  <2> QED BY <2>1, <2>2, <1>2, <1>3 DEF Promise!Next
<1>6. ASSUME NEW c \in Client, Serve(c) PROVE Promise!Next \/ UNCHANGED Holders
  <2>1. PICK m \in calls :
          \/ RedisSet(m) \/ RedisDel(m)
          \/ MongoPurge(m) \/ MongoCreate(m) \/ MongoTouch(m) \/ MongoDelete(m)
    BY <1>6 DEF Serve
  <2>2. ServeMoves(m) BY <2>1, ServeMovesOn DEF CallsInv, Known
  <2>3. m.by \in Client BY CallFields DEF TypeOK
  <2> QED BY <2>2, <2>3, <1>3, <1>4 DEF ServeMoves, Frees, Promise!Next
<1>7. ASSUME CallFails PROVE Promise!Next \/ UNCHANGED Holders
  <2>1. PICK m \in calls : Lose(m) \/ GiveUp(m) BY <1>7 DEF CallFails
  <2>2. m.by \in Client BY CallFields DEF TypeOK
  <2> QED BY <2>1, <2>2, <1>3, <1>4 DEF Lose, GiveUp, Failed, Promise!Next
<1>8. ASSUME NEW c \in Client, Acquire(c) \/ Finish(c) \/ Crash(c)
      PROVE  Promise!Next \/ UNCHANGED Holders
  <2>1. \E p \in {"idle", "acquiring", "releasing"} : pc' = [pc EXCEPT ![c] = p]
    BY <1>8 DEF Acquire, Finish, Crash
  <2> QED BY <2>1, <1>3 DEF Promise!Next
<1>9. ASSUME NEW c \in Client, RenewTimer(c) \/ Flip(c)
      PROVE  UNCHANGED Holders
  BY <1>9, <1>4 DEF RenewTimer, Flip
<1>10. CASE MongoExpire BY <1>10, <1>4 DEF MongoExpire
<1>11. CASE Tick BY <1>11, <1>4 DEF Tick
<1> QED BY <1>5, <1>6, <1>7, <1>8, <1>9, <1>10, <1>11 DEF Next

(***************************************************************************)
(* Where the timing is kept and no process loses its Redis connection, the *)
(* protocol on either store implements the lease its callers rely on: a    *)
(* process enters only while nobody is inside.                             *)
(***************************************************************************)
THEOREM LeaseImplemented ==
    ASSUME LateBudget = 0, FlipBudget = 0
    PROVE  Spec => ImplementsLease
<1>1. Init => Promise!Init BY DEF Init, Promise!Init, Holders
<1>2. TypeOK => late = 0 /\ flips = 0 BY DEF TypeOK
<1>3. IInv /\ IInv' /\ [Next]_vars => [Promise!Next]_Holders
  <2>1. CASE UNCHANGED vars BY <2>1 DEF vars, Holders
  <2>2. ASSUME IInv, IInv', Next PROVE Promise!Next \/ UNCHANGED Holders
    <3>1. late' = 0 /\ flips' = 0 BY <2>2 DEF IInv, TypeOK
    <3> QED BY <2>2, <3>1, StepOfLease
  <2> QED BY <2>1, <2>2
<1> QED BY <1>1, <1>3, AlwaysIInv, PTL DEF Spec, ImplementsLease, Promise!Spec

=============================================================================
