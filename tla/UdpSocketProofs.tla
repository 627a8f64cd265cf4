-------------------------- MODULE UdpSocketProofs ---------------------------
(***************************************************************************)
(* Proofs about UdpSocket, for any number of sockets and handles and any   *)
(* set of failing system calls.                                            *)
(***************************************************************************)
EXTENDS UdpSocket, FiniteSetTheorems, TLAPS

-----------------------------------------------------------------------------
(***************************************************************************)
(* The set of counted objects under the three things a step does to it.    *)
(***************************************************************************)
LEMMA CountedIsFinite == IsFiniteSet(Counted) /\ Cardinality(Counted) \in Nat
  <1>1. Counted \subseteq Sockets
    BY DEF Counted
  <1> QED
    BY <1>1, FS_Subset, FS_CardinalityType, UdpSocketAssumption
       DEF UdpSocketAssumption

\* An object starts to be counted: one more.
LEMMA OneMoreUser ==
  ASSUME TypeOK, NEW s \in Sockets, ~sock[s].counted,
         sock' = [sock EXCEPT ![s].counted = TRUE]
  PROVE  Cardinality(Counted') = Cardinality(Counted) + 1
  <1>1. Counted' = Counted \cup {s}
    BY DEF TypeOK, Object, Counted
  <1>2. s \notin Counted
    BY DEF Counted
  <1> QED
    BY <1>1, <1>2, CountedIsFinite, FS_AddElement

\* A counted object is freed: one less.
LEMMA OneUserLess ==
  ASSUME TypeOK, NEW s \in Sockets, sock[s].counted,
         sock' = [sock EXCEPT ![s] = Unallocated]
  PROVE  Cardinality(Counted') = Cardinality(Counted) - 1
  <1>1. Counted' = Counted \ {s}
    BY DEF TypeOK, Object, Counted, Unallocated
  <1>2. s \in Counted
    BY DEF Counted
  <1> QED
    BY <1>1, <1>2, CountedIsFinite, FS_RemoveElement

\* No object changes its mark: the same set.
LEMMA SameUsers ==
  ASSUME \A s \in Sockets : sock'[s].counted <=> sock[s].counted
  PROVE  Counted' = Counted
  BY DEF Counted

LEMMA NoUserCounted ==
  ASSUME UsersCountSockets, users = 0
  PROVE  \A s \in Sockets : ~sock[s].counted
  BY CountedIsFinite, FS_EmptySet DEF UsersCountSockets, Counted

-----------------------------------------------------------------------------
(***************************************************************************)
(* What a step leaves of the object it updates, and of the others.         *)
(***************************************************************************)
Fresh == [mem |-> "live", handle |-> INVALID_SOCKET, counted |-> FALSE, peer |-> Server]

Others(s) == \A t \in Sockets : t # s => sock'[t] = sock[t]

LEMMA SetFresh ==
  ASSUME TypeOK, NEW s \in Sockets,
         sock' = [sock EXCEPT ![s] = [Unallocated EXCEPT !.mem = "live"]]
  PROVE  sock' \in [Sockets -> Object] /\ sock'[s] = Fresh /\ Others(s)
  BY DEF TypeOK, Object, Unallocated, Fresh, Others

LEMMA SetCounted ==
  ASSUME TypeOK, NEW s \in Sockets, sock' = [sock EXCEPT ![s].counted = TRUE]
  PROVE  /\ sock' \in [Sockets -> Object] /\ Others(s)
         /\ sock'[s].mem = sock[s].mem /\ sock'[s].handle = sock[s].handle
         /\ sock'[s].counted = TRUE
  BY DEF TypeOK, Object, Others

LEMMA SetHandle ==
  ASSUME TypeOK, NEW s \in Sockets, NEW h \in Handles,
         sock' = [sock EXCEPT ![s].handle = h]
  PROVE  /\ sock' \in [Sockets -> Object] /\ Others(s)
         /\ sock'[s].mem = sock[s].mem /\ sock'[s].counted = sock[s].counted
         /\ sock'[s].handle = h
  BY DEF TypeOK, Object, Others

LEMMA SetPeer ==
  ASSUME TypeOK, NEW s \in Sockets, NEW a \in Senders \cup {Server},
         sock' = [sock EXCEPT ![s].peer = a]
  PROVE  /\ sock' \in [Sockets -> Object] /\ Others(s)
         /\ sock'[s].mem = sock[s].mem /\ sock'[s].counted = sock[s].counted
         /\ sock'[s].handle = sock[s].handle
  BY DEF TypeOK, Object, Others

LEMMA SetUnallocated ==
  ASSUME TypeOK, NEW s \in Sockets, sock' = [sock EXCEPT ![s] = Unallocated]
  PROVE  /\ sock' \in [Sockets -> Object] /\ Others(s)
         /\ sock'[s] = Unallocated
         /\ ~sock'[s].counted /\ sock'[s].handle = INVALID_SOCKET
         /\ sock'[s].mem = "free"
  BY DEF TypeOK, Object, Unallocated, Others

-----------------------------------------------------------------------------
(***************************************************************************)
(* UdpInv holds initially and every step preserves it.  Only a step of     *)
(* create or destroy moves the counter, Winsock or a handle.               *)
(***************************************************************************)
LEMMA InitInv == UdpInit => UdpInv
  <1> SUFFICES ASSUME UdpInit PROVE UdpInv
    OBVIOUS
  <1> USE UdpSocketAssumption DEF UdpSocketAssumption, UdpInit, Unallocated
  <1>1. TypeOK
    BY DEF TypeOK, Object, Steps
  <1>2. UsersCountSockets
    BY FS_EmptySet DEF UsersCountSockets, Counted
  <1>3. StartedAtMostOnce /\ CallInv /\ ObjectInv /\ CauseInv /\ OwnerInv /\ HandlesAreOwn
    BY DEF StartedAtMostOnce, CallInv, ObjectInv, CauseInv, OwnerInv, HandlesAreOwn
  <1> QED
    BY <1>1, <1>2, <1>3 DEF UdpInv

\* A create begins.
LEMMA CreateInv ==
  ASSUME UdpInv, NEW s \in Sockets, UdpSocketCreate(s)
  PROVE  UdpInv'
  <1> USE UdpSocketAssumption DEF UdpSocketAssumption
  <1>1. /\ pc = "idle" /\ sock[s].mem = "free" /\ pc' = "add_user" /\ this' = s
        /\ UNCHANGED <<users, startups, owner, held, lastError>>
        /\ sock' \in [Sockets -> Object] /\ sock'[s] = Fresh /\ Others(s)
    BY SetFresh DEF UdpSocketCreate, UdpInv
  <1>2. s \notin held /\ ~sock[s].counted /\ sock[s].handle = INVALID_SOCKET
    BY <1>1 DEF UdpInv, ObjectInv, Unallocated
  <1>3. sock'[s].mem = "live" /\ ~sock'[s].counted /\ sock'[s].handle = INVALID_SOCKET
    BY <1>1 DEF Fresh
  <1>4. TypeOK'
    BY <1>1 DEF UdpInv, TypeOK, Steps
  <1>5. UsersCountSockets'
    <2>1. \A t \in Sockets : sock'[t].counted <=> sock[t].counted
      BY <1>1, <1>2, <1>3 DEF Others, TypeOK, Object
    <2>2. Counted' = Counted
      BY <2>1, SameUsers
    <2> QED
      BY <2>2, <1>1, <1>2 DEF UdpInv, UsersCountSockets
  <1>6. CallInv' /\ CauseInv'
    BY <1>1, <1>2, <1>3 DEF UdpInv, CallInv, CauseInv, TypeOK, Live
  <1>7. ObjectInv'
    BY <1>1, <1>2, <1>3 DEF UdpInv, ObjectInv, TypeOK, Others
  <1>8. OwnerInv' /\ StartedAtMostOnce'
    BY <1>1, <1>2, <1>3 DEF UdpInv, OwnerInv, StartedAtMostOnce, TypeOK, Others
  <1>9. HandlesAreOwn'
    BY <1>1, <1>2, <1>3 DEF UdpInv, HandlesAreOwn, TypeOK, Others
  <1> QED
    BY <1>4, <1>5, <1>6, <1>7, <1>8, <1>9 DEF UdpInv

\* A datagram is received.
LEMMA ReceiveInv ==
  ASSUME UdpInv, NEW s \in held, NEW a \in Senders \cup {Server}, pc = "idle",
         UdpSocketReceive(s, a)
  PROVE  UdpInv'
  <1> USE UdpSocketAssumption DEF UdpSocketAssumption
  <1>1. s \in Sockets /\ this = NoSocket /\ TypeOK
        /\ sock[s].counted /\ sock[s].handle # INVALID_SOCKET /\ sock[s].mem = "live"
    BY DEF UdpInv, TypeOK, Object, CallInv, ObjectInv, Unallocated
  <1>2. /\ sock' = [sock EXCEPT ![s].peer = a]
        /\ UNCHANGED <<users, startups, owner, held, lastError, pc, this>>
    BY DEF UdpSocketReceive
  <1>3. /\ sock' \in [Sockets -> Object] /\ Others(s)
        /\ sock'[s].mem = sock[s].mem /\ sock'[s].counted = sock[s].counted
        /\ sock'[s].handle = sock[s].handle
    BY <1>1, <1>2, SetPeer
  <1>4. TypeOK'
    BY <1>1, <1>2, <1>3 DEF TypeOK
  <1>5. UsersCountSockets' /\ StartedAtMostOnce'
    <2>1. \A t \in Sockets : sock'[t].counted <=> sock[t].counted
      BY <1>1, <1>2, <1>3 DEF Others
    <2>2. Counted' = Counted
      BY <2>1, SameUsers
    <2> QED
      BY <2>2, <1>1, <1>2 DEF UdpInv, UsersCountSockets, StartedAtMostOnce
  <1>6. CallInv' /\ CauseInv'
    BY <1>1, <1>2 DEF UdpInv, CallInv, CauseInv
  <1>7. ObjectInv'
    BY <1>1, <1>2, <1>3 DEF UdpInv, ObjectInv, TypeOK, Others
  <1>8. OwnerInv' /\ HandlesAreOwn'
    BY <1>1, <1>2, <1>3 DEF UdpInv, OwnerInv, HandlesAreOwn, TypeOK, Others
  <1> QED
    BY <1>4, <1>5, <1>6, <1>7, <1>8 DEF UdpInv

\* Calls that at most record an error between calls.
LEMMA ErrorInv ==
  ASSUME UdpInv, pc = "idle", UNCHANGED <<users, startups, owner, sock, held, pc, this>>,
         lastError' \in {lastError, "null"} \cup SysCalls
  PROVE  UdpInv'
  BY SameUsers
  DEF UdpInv, TypeOK, UsersCountSockets, StartedAtMostOnce, CallInv, ObjectInv,
      CauseInv, OwnerInv, HandlesAreOwn, Live

LEMMA StepInv == UdpInv /\ [UdpNext]_udpVars => UdpInv'
  <1> SUFFICES ASSUME UdpInv, [UdpNext]_udpVars PROVE UdpInv'
    OBVIOUS
  <1> USE UdpSocketAssumption DEF UdpSocketAssumption
  <1>1. ASSUME NEW s \in Sockets, UdpSocketCreate(s) PROVE UdpInv'
    BY <1>1, CreateInv
  <1>2. CASE AddUser
    <2>1. this \in Sockets /\ ~sock[this].counted /\ sock[this].handle = INVALID_SOCKET
          /\ sock[this].mem = "live" /\ this \notin held /\ TypeOK
      BY <1>2 DEF AddUser, UdpInv, CallInv, ObjectInv, Live
    <2>2. /\ pc = "add_user" /\ users \in Nat /\ users' = users + 1
          /\ startups' = IF users = 0 THEN startups + 1 ELSE startups
          /\ pc' = "socket" /\ UNCHANGED <<this, owner, held, lastError>>
          /\ sock' = [sock EXCEPT ![this].counted = TRUE]
      BY <1>2, <2>1 DEF AddUser, Goto, TypeOK
    <2>3. /\ sock' \in [Sockets -> Object] /\ Others(this)
          /\ sock'[this].mem = "live" /\ sock'[this].counted
          /\ sock'[this].handle = INVALID_SOCKET
      BY <2>1, <2>2, SetCounted
    <2>4. UsersCountSockets'
      <3>1. Cardinality(Counted') = Cardinality(Counted) + 1
        BY <2>1, <2>2, OneMoreUser
      <3> QED
        BY <2>2, <3>1 DEF UdpInv, UsersCountSockets
    <2>5. TypeOK'
      BY <2>1, <2>2, <2>3 DEF TypeOK, Steps
    <2>6. CallInv' /\ CauseInv'
      BY <2>1, <2>2, <2>3 DEF UdpInv, CallInv, CauseInv, Live
    <2>7. ObjectInv'
      BY <2>1, <2>2, <2>3 DEF UdpInv, ObjectInv, TypeOK, Others
    <2>8. OwnerInv' /\ StartedAtMostOnce'
      BY <2>1, <2>2, <2>3 DEF UdpInv, OwnerInv, StartedAtMostOnce, TypeOK, Others
    <2>9. HandlesAreOwn'
      <3>1. CASE users = 0
        BY <2>1, <2>2, <2>3, <3>1, NoUserCounted DEF UdpInv, ObjectInv, HandlesAreOwn, TypeOK, Others
      <3>2. CASE users # 0
        BY <2>1, <2>2, <2>3, <3>2 DEF UdpInv, HandlesAreOwn, TypeOK, Others
      <3> QED
        BY <3>1, <3>2
    <2> QED
      BY <2>4, <2>5, <2>6, <2>7, <2>8, <2>9 DEF UdpInv
  <1>3. CASE OpenSocket
    <2>1. this \in Sockets /\ sock[this].counted /\ sock[this].handle = INVALID_SOCKET
          /\ sock[this].mem = "live" /\ this \notin held /\ TypeOK
      BY <1>3 DEF OpenSocket, UdpInv, CallInv, Live
    <2>2. /\ pc = "socket" /\ startups > 0 /\ pc' = "inet_pton"
          /\ UNCHANGED <<this, users, startups, held, lastError>>
      BY <1>3 DEF OpenSocket, Goto
    <2>3. PICK h \in Handles : /\ owner[h] = NoSocket
                               /\ owner' = [owner EXCEPT ![h] = this]
                               /\ sock' = [sock EXCEPT ![this].handle = h]
      BY <1>3 DEF OpenSocket, FreeHandles
    <2>4. /\ sock' \in [Sockets -> Object] /\ Others(this)
          /\ sock'[this].mem = "live" /\ sock'[this].counted /\ sock'[this].handle = h
      BY <2>1, <2>3, SetHandle
    <2>5. /\ owner' \in [Handles -> Sockets \cup {NoSocket}] /\ owner'[h] = this
          /\ \A k \in Handles : k # h => owner'[k] = owner[k]
      BY <2>1, <2>3 DEF TypeOK
    <2>6. TypeOK'
      BY <2>1, <2>2, <2>4, <2>5 DEF TypeOK, Steps
    <2>7. UsersCountSockets'
      <3>1. \A t \in Sockets : sock'[t].counted <=> sock[t].counted
        BY <2>1, <2>2, <2>4 DEF Others
      <3>2. Counted' = Counted
        BY <3>1, SameUsers
      <3> QED
        BY <3>2, <2>1, <2>2 DEF UdpInv, UsersCountSockets
    <2>8. CallInv' /\ CauseInv' /\ StartedAtMostOnce'
      BY <2>1, <2>2, <2>4 DEF UdpInv, CallInv, CauseInv, StartedAtMostOnce, Live
    <2>9. ObjectInv'
      BY <2>1, <2>2, <2>4 DEF UdpInv, ObjectInv, TypeOK, Others
    <2>10. OwnerInv'
      <3>1. ASSUME NEW k \in Handles, owner'[k] # NoSocket
            PROVE  startups' > 0 /\ sock'[owner'[k]].handle = k
        <4>1. CASE k = h
          BY <2>2, <2>4, <2>5, <4>1
        <4>2. CASE k # h
          <5>1. owner'[k] = owner[k] /\ owner[k] \in Sockets /\ sock[owner[k]].handle = k
            BY <2>1, <2>5, <3>1, <4>2 DEF UdpInv, OwnerInv, TypeOK
          <5>2. owner[k] # this
            BY <2>1, <5>1
          <5> QED
            BY <2>2, <2>4, <5>1, <5>2 DEF Others
        <4> QED
          BY <4>1, <4>2
      <3> QED
        BY <3>1 DEF OwnerInv
    <2>11. HandlesAreOwn'
      BY <2>1, <2>2, <2>3, <2>4, <2>5 DEF UdpInv, HandlesAreOwn, TypeOK, Object, Others
    <2> QED
      BY <2>6, <2>7, <2>8, <2>9, <2>10, <2>11 DEF UdpInv
  <1>4. CASE CloseSocket
    <2> USE <1>4 DEF CloseSocket, Goto
    <2>1. TypeOK'
      BY DEF UdpInv, TypeOK, Steps
    <2>2. UsersCountSockets' /\ StartedAtMostOnce'
      BY SameUsers DEF UdpInv, UsersCountSockets, StartedAtMostOnce
    <2>3. CallInv' /\ ObjectInv' /\ CauseInv'
      BY DEF UdpInv, CallInv, ObjectInv, CauseInv, Live
    <2>4. OwnerInv'
      BY DEF UdpInv, OwnerInv, TypeOK
    <2>5. HandlesAreOwn'
      BY DEF UdpInv, HandlesAreOwn, CallInv, TypeOK, Object, Live, Open
    <2> QED
      BY <2>1, <2>2, <2>3, <2>4, <2>5 DEF UdpInv
  <1>5. CASE RemoveUser
    <2>1. this \in Sockets /\ startups = 1 /\ sock[this].counted /\ TypeOK
      BY <1>5 DEF RemoveUser, UdpInv, CallInv, Live, StartedAtMostOnce, TypeOK
    <2>2. /\ users > 0 /\ users' = users - 1 /\ startups' = 0
          /\ owner' = [h \in Handles |-> NoSocket] /\ held' = held \ {this}
          /\ pc' = "idle" /\ this' = NoSocket /\ UNCHANGED lastError
          /\ sock' = [sock EXCEPT ![this] = Unallocated]
      BY <1>5, <2>1 DEF RemoveUser, Free, Return
    <2>3. /\ sock' \in [Sockets -> Object] /\ Others(this)
          /\ sock'[this] = Unallocated /\ ~sock'[this].counted
          /\ sock'[this].handle = INVALID_SOCKET /\ sock'[this].mem = "free"
      BY <2>1, <2>2, SetUnallocated
    <2>4. TypeOK'
      BY <2>1, <2>2, <2>3 DEF TypeOK, Steps
    <2>5. UsersCountSockets'
      <3>1. Cardinality(Counted') = Cardinality(Counted) - 1
        BY <2>1, <2>2, OneUserLess
      <3> QED
        BY <2>2, <3>1 DEF UdpInv, UsersCountSockets
    <2>6. StartedAtMostOnce' /\ OwnerInv' /\ HandlesAreOwn'
      BY <2>2 DEF StartedAtMostOnce, OwnerInv, HandlesAreOwn
    <2>7. CallInv' /\ CauseInv'
      BY <2>2 DEF CallInv, CauseInv
    <2>8. ObjectInv'
      BY <2>2, <2>3 DEF UdpInv, TypeOK, ObjectInv, Others, Unallocated
    <2> QED
      BY <2>4, <2>5, <2>6, <2>7, <2>8 DEF UdpInv
  <1>6. CASE RemoveUserSkipped
    <2>1. this \in Sockets /\ ~sock[this].counted /\ sock[this].handle = INVALID_SOCKET
          /\ TypeOK
      BY <1>6, NoUserCounted DEF RemoveUserSkipped, UdpInv, CallInv, ObjectInv, Live
    <2>2. /\ UNCHANGED <<users, startups, owner, lastError>> /\ held' = held \ {this}
          /\ pc' = "idle" /\ this' = NoSocket
          /\ sock' = [sock EXCEPT ![this] = Unallocated]
      BY <1>6 DEF RemoveUserSkipped, Free, Return
    <2>3. /\ sock' \in [Sockets -> Object] /\ Others(this)
          /\ sock'[this] = Unallocated /\ ~sock'[this].counted
          /\ sock'[this].handle = INVALID_SOCKET /\ sock'[this].mem = "free"
      BY <2>1, <2>2, SetUnallocated
    <2>4. TypeOK'
      BY <2>1, <2>2, <2>3 DEF TypeOK, Steps
    <2>5. UsersCountSockets'
      <3>1. \A t \in Sockets : sock'[t].counted <=> sock[t].counted
        BY <2>1, <2>2, <2>3 DEF TypeOK, Object, Others
      <3>2. Counted' = Counted
        BY <3>1, SameUsers
      <3> QED
        BY <3>2, <2>1, <2>2 DEF UdpInv, UsersCountSockets
    <2>6. StartedAtMostOnce' /\ CallInv' /\ CauseInv'
      BY <2>2 DEF UdpInv, StartedAtMostOnce, CallInv, CauseInv
    <2>7. ObjectInv'
      BY <2>2, <2>3 DEF UdpInv, TypeOK, ObjectInv, Others, Unallocated
    <2>8. OwnerInv' /\ HandlesAreOwn'
      BY <2>1, <2>2, <2>3 DEF UdpInv, TypeOK, OwnerInv, HandlesAreOwn, Others
    <2> QED
      BY <2>4, <2>5, <2>6, <2>7, <2>8 DEF UdpInv
  <1>7. CASE ParseAddress
    <2> USE <1>7 DEF ParseAddress, Return
    <2>1. TypeOK' /\ UsersCountSockets' /\ StartedAtMostOnce'
      BY SameUsers DEF UdpInv, TypeOK, Steps, UsersCountSockets, StartedAtMostOnce, CallInv, Live
    <2>2. CallInv' /\ ObjectInv' /\ CauseInv' /\ OwnerInv' /\ HandlesAreOwn'
      BY DEF UdpInv, CallInv, ObjectInv, CauseInv, OwnerInv, HandlesAreOwn, TypeOK, Live
    <2> QED
      BY <2>1, <2>2 DEF UdpInv
  \* The steps that only record an error and choose where to go on.
  <1>8. CASE AddUserFails \/ OpenSocketFails \/ ParseAddressFails
    <2> USE <1>8 DEF AddUserFails, OpenSocketFails, ParseAddressFails, Goto, Fail
    <2>1. TypeOK' /\ UsersCountSockets' /\ StartedAtMostOnce'
      BY SameUsers DEF UdpInv, TypeOK, Steps, SysCalls, UsersCountSockets, StartedAtMostOnce
    <2>2. CallInv' /\ ObjectInv' /\ CauseInv' /\ OwnerInv' /\ HandlesAreOwn'
      BY DEF UdpInv, CallInv, ObjectInv, CauseInv, OwnerInv, HandlesAreOwn, TypeOK, Live
    <2> QED
      BY <2>1, <2>2 DEF UdpInv
  <1>9. CASE CloseSocketFails
    <2> USE <1>9 DEF CloseSocketFails, Return, Fail
    <2>1. TypeOK' /\ UsersCountSockets' /\ StartedAtMostOnce'
      BY SameUsers DEF UdpInv, TypeOK, Steps, SysCalls, UsersCountSockets, StartedAtMostOnce
    <2>2. CallInv' /\ ObjectInv' /\ CauseInv' /\ OwnerInv' /\ HandlesAreOwn'
      BY DEF UdpInv, CallInv, ObjectInv, CauseInv, OwnerInv, HandlesAreOwn, TypeOK, Live
    <2> QED
      BY <2>1, <2>2 DEF UdpInv
  <1>10. CASE RemoveUserFails
    <2> USE <1>10 DEF RemoveUserFails, Return, Fail
    <2>1. TypeOK' /\ UsersCountSockets' /\ StartedAtMostOnce'
      BY SameUsers DEF UdpInv, TypeOK, Steps, SysCalls, UsersCountSockets, StartedAtMostOnce
    <2>2. CallInv' /\ ObjectInv' /\ CauseInv' /\ OwnerInv' /\ HandlesAreOwn'
      BY DEF UdpInv, CallInv, ObjectInv, CauseInv, OwnerInv, HandlesAreOwn, TypeOK, Live
    <2> QED
      BY <2>1, <2>2 DEF UdpInv
  <1>11. ASSUME NEW s \in held, UdpSocketDestroy(s) PROVE UdpInv'
    <2> USE <1>11 DEF UdpSocketDestroy
    <2>1. TypeOK' /\ UsersCountSockets' /\ StartedAtMostOnce'
      BY SameUsers DEF UdpInv, TypeOK, Steps, UsersCountSockets, StartedAtMostOnce
    <2>2. CallInv' /\ ObjectInv' /\ CauseInv' /\ OwnerInv' /\ HandlesAreOwn'
      BY DEF UdpInv, CallInv, ObjectInv, CauseInv, OwnerInv, HandlesAreOwn, TypeOK, Object, Live, Unallocated
    <2> QED
      BY <2>1, <2>2 DEF UdpInv
  <1>12. ASSUME NEW s \in held, NEW a \in Senders, pc = "idle", UdpSocketReceive(s, a)
         PROVE  UdpInv'
    BY <1>12, ReceiveInv
  <1>13. ASSUME pc = "idle", UNCHANGED <<users, startups, owner, sock, held, pc, this>>,
                lastError' \in {lastError} \cup SysCalls
         PROVE  UdpInv'
    BY <1>13, ErrorInv
  <1>14. CASE UNCHANGED udpVars
    BY <1>14, SameUsers
    DEF udpVars, UdpInv, TypeOK, UsersCountSockets, StartedAtMostOnce, CallInv, ObjectInv,
        CauseInv, OwnerInv, HandlesAreOwn, Live
  <1>15. CASE UdpCall
    <2>1. CASE UdpSocketCreateNoMemory
      BY <2>1, <1>13 DEF UdpSocketCreateNoMemory, Fail, SysCalls
    <2>2. ASSUME NEW s, NEW n, UdpSocketSend(s, n) PROVE UdpInv'
      BY <2>2, <1>14 DEF UdpSocketSend
    <2>3. ASSUME NEW s, NEW n, pc = "idle", UdpSocketSendFails(s, n) \/ UdpSocketReceiveFails(s)
          PROVE  UdpInv'
      BY <2>3, <1>13 DEF UdpSocketSendFails, UdpSocketReceiveFails, Fail, SysCalls
    <2> QED
      BY <1>15, <1>1, <1>11, <1>12, <2>1, <2>2, <2>3 DEF UdpCall
  <1>16. CASE UdpStep
    BY <1>16, <1>2, <1>3, <1>4, <1>5, <1>6, <1>7, <1>8, <1>9, <1>10 DEF UdpStep
  <1> QED
    BY <1>14, <1>15, <1>16 DEF UdpNext

\* Every reachable state satisfies the inductive invariant.
THEOREM Invariance == UdpSpec => []UdpInv
  BY InitInv, StepInv, PTL DEF UdpSpec

-----------------------------------------------------------------------------
\* What a step of udp_socket_create or udp_socket_destroy does, as far as the
\* clients above it can see: nothing to any object but its own, and that one
\* changes hands only when the call returns.
LEMMA UdpStepEffect ==
  ASSUME UdpInv, UdpStep
  PROVE  /\ UdpInv' /\ pc # "idle" /\ this \in Sockets
         /\ pc' # "idle" => this' = this /\ held' = held
         /\ held' \cup {this} = held \cup {this}
         /\ \A s \in Sockets : sock'[s].peer \in {sock[s].peer, Server}
  <1> USE UdpSocketAssumption DEF UdpSocketAssumption
  <1>1. UdpInv'
    BY StepInv DEF UdpNext
  <1>2. pc # "idle"
    BY DEF UdpStep, AddUser, AddUserFails, OpenSocket, OpenSocketFails, ParseAddress,
           ParseAddressFails, CloseSocket, CloseSocketFails, RemoveUser, RemoveUserSkipped,
           RemoveUserFails
  <1>3. TypeOK /\ this \in Sockets
    BY <1>2 DEF UdpInv, CallInv, Live
  <1>4. /\ pc' # "idle" => this' = this /\ held' = held
        /\ held' \cup {this} = held \cup {this}
    BY <1>3
    DEF UdpStep, AddUser, AddUserFails, OpenSocket, OpenSocketFails, ParseAddress,
        ParseAddressFails, CloseSocket, CloseSocketFails, RemoveUser, RemoveUserSkipped,
        RemoveUserFails, Goto, Return, Free, TypeOK
  <1>5. \A s \in Sockets : sock'[s].peer \in {sock[s].peer, Server}
    <2>1. CASE UNCHANGED sock
      BY <2>1
    <2>2. CASE AddUser
      BY <1>3, <2>2 DEF AddUser, TypeOK, Object
    <2>3. CASE OpenSocket
      BY <1>3, <2>3 DEF OpenSocket, TypeOK, Object
    <2>4. CASE RemoveUser \/ RemoveUserSkipped
      BY <1>3, <2>4 DEF RemoveUser, RemoveUserSkipped, Free, TypeOK, Object, Unallocated
    <2> QED
      BY <2>1, <2>2, <2>3, <2>4
      DEF UdpStep, AddUserFails, OpenSocketFails, ParseAddress, ParseAddressFails, CloseSocket,
          CloseSocketFails, RemoveUserFails
  <1> QED
    BY <1>1, <1>2, <1>3, <1>4, <1>5

-----------------------------------------------------------------------------
(***************************************************************************)
(* The properties, as theorems of the specification.                       *)
(***************************************************************************)
\* Every variable of udp_socket.c and wsa_client.c keeps its type.
THEOREM TypeCorrectness == UdpSpec => []TypeOK
  BY Invariance, PTL DEF UdpInv

\* The counter of wsa_client.c is the number of objects that will remove a
\* user, whatever fails in udp_socket_create and udp_socket_destroy.
THEOREM CounterIsExact == UdpSpec => []UsersCountSockets
  BY Invariance, PTL DEF UdpInv

\* WSAStartup is not repeated while Winsock is up, and Winsock is down when
\* wsa_client.c counts no user.
THEOREM StartedOnce == UdpSpec => []StartedAtMostOnce
  BY Invariance, PTL DEF UdpInv

\* While Winsock is up, no udp_socket_t sends, receives or closes through a
\* handle of another, provided WSACleanup does not fail on its own account.
THEOREM NoSharedHandle == UdpSpec => []HandlesAreOwn
  BY Invariance, PTL DEF UdpInv

\* What any program that uses the sockets does to them, whatever it asks of
\* sendto and recvfrom.
UdpUse ==
    \/ UdpStep
    \/ \E s \in Sockets : UdpSocketCreate(s)
    \/ \E s \in held : UdpSocketDestroy(s)
    \/ \E s \in held, a \in Senders \cup {Server} : UdpSocketReceive(s, a)
    \/ UNCHANGED <<users, startups, owner, sock, held, pc, this>>

LEMMA NextIsUse == [UdpNext]_udpVars => UdpUse
  <1>1. ASSUME NEW s, NEW n, \/ UdpSocketCreateNoMemory \/ UdpSocketSend(s, n)
                             \/ UdpSocketSendFails(s, n) \/ UdpSocketReceiveFails(s)
        PROVE  UNCHANGED <<users, startups, owner, sock, held, pc, this>>
    BY <1>1 DEF UdpSocketCreateNoMemory, UdpSocketSend, UdpSocketSendFails,
                UdpSocketReceiveFails, udpVars
  <1>2. UdpCall => UdpUse
    BY <1>1 DEF UdpCall, UdpUse
  <1> QED
    BY <1>2 DEF UdpNext, UdpUse, udpVars

LEMMA WedgeStep == UdpInv /\ UdpUse /\ Wedged => Wedged'
  <1> SUFFICES ASSUME UdpInv, UdpUse, Wedged PROVE Wedged'
    OBVIOUS
  <1>1. users \in Nat /\ users > 0 /\ startups = 0
    BY DEF UdpInv, TypeOK, Wedged
  <1>2. CASE UdpStep
    BY <1>1, <1>2
    DEF UdpStep, Wedged, AddUser, AddUserFails, OpenSocket, OpenSocketFails,
        ParseAddress, ParseAddressFails, CloseSocket, CloseSocketFails,
        RemoveUser, RemoveUserSkipped, RemoveUserFails
  <1> QED
    BY <1>1, <1>2 DEF UdpUse, Wedged, UdpSocketCreate, UdpSocketDestroy, UdpSocketReceive

\* Once a clean-up has left users behind, no step of the library starts
\* Winsock again.
THEOREM NoWayBack == UdpSpec => WedgeIsForever
  <1>1. UdpInv /\ [UdpNext]_udpVars => [Wedged => Wedged']_udpVars
    BY WedgeStep, NextIsUse
  <1> QED
    BY <1>1, Invariance, PTL DEF UdpSpec, WedgeIsForever

\* A create that fails and cleans up reports what made it fail.
THEOREM CauseIsKept == UdpSpec => FailedCreateReportsItsCause
  <1> DEFINE Reports == /\ pc = "remove_user"
                        /\ this \notin held
                        /\ sock'[this].mem = "free"
                        => /\ ~sock[this].counted => lastError' = "WSAStartup"
                           /\ sock[this].counted /\ sock[this].handle = INVALID_SOCKET
                              => lastError' = "socket"
  <1>1. UdpInv /\ [UdpNext]_udpVars => [Reports]_udpVars
    <2> SUFFICES ASSUME UdpInv, UdpNext, pc = "remove_user", this \notin held,
                        sock'[this].mem = "free"
                 PROVE  /\ ~sock[this].counted => lastError' = "WSAStartup"
                        /\ sock[this].counted /\ sock[this].handle = INVALID_SOCKET
                           => lastError' = "socket"
      OBVIOUS
    <2>1. sock[this].mem = "live"
      BY DEF UdpInv, CallInv, Live
    <2>2. CASE RemoveUser \/ RemoveUserSkipped
      BY <2>2 DEF RemoveUser, RemoveUserSkipped, UdpInv, CauseInv
    <2>3. CASE RemoveUserFails
      BY <2>1, <2>3 DEF RemoveUserFails
    <2>4. UdpNext => RemoveUser \/ RemoveUserSkipped \/ RemoveUserFails
      BY DEF UdpNext, UdpStep, UdpCall, AddUser, AddUserFails, OpenSocket, OpenSocketFails,
             ParseAddress, ParseAddressFails, CloseSocket, CloseSocketFails, UdpSocketCreate,
             UdpSocketCreateNoMemory, UdpSocketDestroy
    <2> QED
      BY <2>2, <2>3, <2>4
  <1> QED
    BY <1>1, Invariance, PTL DEF UdpSpec, FailedCreateReportsItsCause

-----------------------------------------------------------------------------
(***************************************************************************)
(* No object is lost while a failing create can clean up and Winsock is up *)
(* under its users.  The inductive part: an object nobody holds is the one *)
(* the call in progress runs on, and a create closes a handle it opened    *)
(* only where inet_pton failed.                                            *)
(***************************************************************************)
NoneLost ==
    /\ \A s \in Live \ held : s = this
    /\ pc = "close" /\ this \notin held /\ sock[this].handle # INVALID_SOCKET
       => Open(sock[this].handle) /\ "inet_pton" \in MayFail

LeakInv == CleansUp => Wedged \/ NoneLost

LEMMA LeakStep == UdpInv /\ LeakInv /\ UdpUse => LeakInv'
  <1> SUFFICES ASSUME UdpInv, UdpUse, ~Wedged, CleansUp, NoneLost
               PROVE  Wedged' \/ NoneLost'
    BY WedgeStep DEF LeakInv
  <1> USE UdpSocketAssumption DEF UdpSocketAssumption
  <1>1. TypeOK /\ held \subseteq Live /\ (pc # "idle" => this \in Sockets)
    BY DEF UdpInv, TypeOK, CallInv, ObjectInv, Object, Unallocated, Live
  <1>2. ASSUME NEW s \in Sockets, UdpSocketCreate(s) PROVE NoneLost'
    <2>1. Others(s) /\ this' = s /\ held' = held /\ pc = "idle" /\ pc' = "add_user"
      BY <1>1, <1>2, SetFresh DEF UdpSocketCreate
    <2>2. Live = held
      BY <1>1, <2>1 DEF UdpInv, CallInv, Live, NoneLost
    <2> QED
      BY <2>1, <2>2 DEF Others, Live, NoneLost
  <1>3. CASE AddUser
    <2>1. Others(this) /\ sock'[this].mem = sock[this].mem /\ UNCHANGED <<held, this>>
          /\ pc' = "socket"
      BY <1>1, <1>3, SetCounted DEF AddUser, Goto
    <2> QED
      BY <2>1 DEF Others, Live, NoneLost
  <1>4. CASE OpenSocket
    <2>1. Others(this) /\ sock'[this].mem = sock[this].mem /\ UNCHANGED <<held, this>>
          /\ pc' = "inet_pton"
      BY <1>1, <1>4, SetHandle DEF OpenSocket, Goto, FreeHandles
    <2> QED
      BY <2>1 DEF Others, Live, NoneLost
  <1>5. CASE RemoveUser \/ RemoveUserSkipped
    <2>1. Others(this) /\ sock'[this].mem = "free" /\ held' = held \ {this} /\ pc' = "idle"
      BY <1>1, <1>5, SetUnallocated DEF RemoveUser, RemoveUserSkipped, Free, Return
    <2> QED
      BY <2>1 DEF Others, Live, NoneLost
  \* inet_pton and closesocket do not both fail: the object is its caller's.
  <1>6. CASE CloseSocketFails
    <2>1. /\ pc = "close" /\ sock[this].handle # INVALID_SOCKET
          /\ ~Open(sock[this].handle) \/ "closesocket" \in MayFail
          /\ UNCHANGED <<sock, held>> /\ pc' = "idle"
      BY <1>6 DEF CloseSocketFails, Return
    <2>2. this \in held
      BY <2>1 DEF NoneLost, CleansUp
    <2> QED
      BY <2>1, <2>2 DEF NoneLost, Live
  <1>7. CASE RemoveUserFails
    BY <1>1, <1>7 DEF RemoveUserFails, Wedged, TypeOK, CleansUp
  <1>8. CASE ParseAddress
    BY <1>8 DEF ParseAddress, Return, Live, NoneLost
  <1>9. CASE AddUserFails \/ OpenSocketFails
    <2>1. sock[this].handle = INVALID_SOCKET /\ UNCHANGED <<sock, held, this>>
      BY <1>1, <1>9 DEF AddUserFails, OpenSocketFails, Goto, UdpInv, CallInv, ObjectInv
    <2> QED
      BY <2>1 DEF NoneLost, Live
  <1>10. CASE ParseAddressFails
    <2>1. /\ pc = "inet_pton" /\ "inet_pton" \in MayFail
          /\ UNCHANGED <<users, startups, owner, sock, held, this>>
      BY <1>10 DEF ParseAddressFails, Goto
    <2>2. /\ this \in Sockets /\ sock[this].counted
          /\ sock[this].handle \in Handles
      BY <1>1, <2>1 DEF UdpInv, CallInv, TypeOK, Object
    <2>3. startups > 0
      BY <1>1, <2>2, NoUserCounted DEF UdpInv, TypeOK, Wedged
    <2>4. owner[sock[this].handle] = this
      BY <2>1, <2>2, <2>3 DEF UdpInv, HandlesAreOwn, CleansUp
    <2>5. Open(sock[this].handle)
      BY <2>2, <2>3, <2>4 DEF Open, FreeHandles
    <2> QED
      BY <2>1, <2>5 DEF NoneLost, Live, Open, FreeHandles
  <1>11. CASE CloseSocket
    BY <1>11 DEF CloseSocket, Goto, Live, NoneLost
  <1>12. ASSUME NEW s \in held, UdpSocketDestroy(s) PROVE NoneLost'
    <2>1. pc = "idle" /\ UNCHANGED <<sock, held>> /\ this' \in held
      BY <1>12 DEF UdpSocketDestroy
    <2> QED
      BY <1>1, <2>1 DEF UdpInv, CallInv, Live, NoneLost
  <1>13. ASSUME NEW s \in held, NEW a \in Senders \cup {Server}, UdpSocketReceive(s, a)
         PROVE  NoneLost'
    <2>1. /\ Others(s) /\ sock'[s].mem = sock[s].mem /\ sock'[s].handle = sock[s].handle
          /\ UNCHANGED <<startups, owner, held, pc, this>>
      BY <1>1, <1>13, SetPeer DEF UdpSocketReceive, TypeOK
    <2>2. Live' = Live
      BY <2>1 DEF Others, Live
    <2>3. pc # "idle" => sock'[this].handle = sock[this].handle
      BY <1>1, <2>1 DEF Others
    <2> QED
      BY <2>1, <2>2, <2>3 DEF NoneLost, Open, FreeHandles
  <1>14. CASE UNCHANGED <<users, startups, owner, sock, held, pc, this>>
    BY <1>14 DEF Live, NoneLost, Open, FreeHandles
  <1>15. CASE UdpStep
    BY <1>15, <1>3, <1>4, <1>5, <1>6, <1>7, <1>8, <1>9, <1>10, <1>11 DEF UdpStep
  <1> QED
    BY <1>2, <1>12, <1>13, <1>14, <1>15 DEF UdpUse

LEMMA LeakInitInv == UdpInit => LeakInv
  BY DEF UdpInit, LeakInv, NoneLost, Live, Unallocated

LEMMA LeakFree == UdpInv /\ LeakInv => NoLeakUnlessWedged
  <1> SUFFICES ASSUME UdpInv, pc = "idle", \A s \in Live \ held : s = this PROVE Live = held
    BY DEF LeakInv, NoneLost, NoLeakUnlessWedged
  <1> QED
    BY UdpSocketAssumption
    DEF UdpInv, TypeOK, CallInv, ObjectInv, Object, Unallocated, Live, UdpSocketAssumption

\* Where a failing create can clean up, an object is left behind only where
\* Winsock went down under its users.
THEOREM LeaksOnlyWhenWedged == UdpSpec => []NoLeakUnlessWedged
  BY LeakInitInv, LeakStep, LeakFree, NextIsUse, Invariance, PTL DEF UdpSpec

-----------------------------------------------------------------------------
(***************************************************************************)
(* wsa_client.c implements SharedWinsock, for any number of sockets.       *)
(***************************************************************************)
\* Only add_user and remove_user move the abstract state, as Acquire and Release.
LEMMA SharedStep == UdpInv /\ [UdpNext]_udpVars => [Winsock!Next]_(Winsock!winsockVars)
  <1> SUFFICES ASSUME UdpInv, UdpUse PROVE [Winsock!Next]_(Winsock!winsockVars)
    BY NextIsUse
  <1> USE UdpSocketAssumption DEF UdpSocketAssumption
  <1>1. TypeOK /\ held \subseteq Live /\ (pc # "idle" => this \in Sockets)
    BY DEF UdpInv, TypeOK, CallInv, ObjectInv, Object, Unallocated, Live
  <1>2. CASE AddUser
    <2>1. this \in Sockets /\ this \notin Counted /\ users \in Nat /\ startups \in Nat
      BY <1>1, <1>2 DEF AddUser, UdpInv, CallInv, Counted, TypeOK
    <2>2. Counted' = Counted \cup {this}
      BY <1>1, <1>2, <2>1, SetCounted DEF AddUser, Counted, Others
    <2>3. users = 0 <=> Counted = {}
      BY CountedIsFinite, FS_EmptySet DEF UdpInv, UsersCountSockets
    <2>4. startups' > 0 <=> startups > 0 \/ Counted = {}
      BY <1>2, <2>1, <2>3 DEF AddUser
    <2> QED
      BY <2>1, <2>2, <2>4 DEF Winsock!Next, Winsock!Acquire
  <1>3. CASE RemoveUser
    <2>1. /\ this \in Sockets /\ this \in Counted /\ startups = 1 /\ startups' = 0
      BY <1>1, <1>3 DEF RemoveUser, UdpInv, StartedAtMostOnce, Counted, TypeOK
    <2>2. Counted' = Counted \ {this}
      BY <1>1, <1>3, <2>1, SetUnallocated DEF RemoveUser, Free, Counted, Others
    <2> QED
      BY <2>1, <2>2 DEF Winsock!Next, Winsock!Release
  <1>4. ASSUME startups' = startups, \A s \in Sockets : sock'[s].counted = sock[s].counted
        PROVE  [Winsock!Next]_(Winsock!winsockVars)
    BY <1>4, SameUsers DEF Winsock!winsockVars
  <1>5. CASE RemoveUserSkipped
    <2>1. this \in Sockets /\ ~sock[this].counted /\ startups' = startups
      BY <1>1, <1>5, NoUserCounted DEF RemoveUserSkipped, UdpInv
    <2>2. Others(this) /\ sock'[this].counted = FALSE
      BY <1>1, <1>5, <2>1, SetUnallocated DEF RemoveUserSkipped, Free, Unallocated
    <2>3. sock[this].counted = FALSE
      BY <1>1, <2>1 DEF TypeOK, Object
    <2> QED
      BY <1>4, <2>1, <2>2, <2>3 DEF Others
  <1>6. CASE OpenSocket
    <2>1. this \in Sockets /\ startups' = startups
      BY <1>1, <1>6 DEF OpenSocket
    <2>2. Others(this) /\ sock'[this].counted = sock[this].counted
      BY <1>1, <1>6, <2>1, SetHandle DEF OpenSocket, FreeHandles
    <2> QED
      BY <1>4, <2>1, <2>2 DEF Others
  <1>7. ASSUME NEW s \in Sockets, UdpSocketCreate(s)
        PROVE  [Winsock!Next]_(Winsock!winsockVars)
    <2>1. Others(s) /\ sock'[s] = Fresh /\ sock[s].mem = "free" /\ startups' = startups
      BY <1>1, <1>7, SetFresh DEF UdpSocketCreate
    <2>2. sock[s] = Unallocated
      BY <2>1 DEF UdpInv, ObjectInv
    <2>3. sock'[s].counted = sock[s].counted
      BY <2>1, <2>2 DEF Unallocated, Fresh
    <2> QED
      BY <1>4, <2>1, <2>3 DEF Others
  <1>8. ASSUME NEW s \in held, NEW a \in Senders \cup {Server}, UdpSocketReceive(s, a)
        PROVE  [Winsock!Next]_(Winsock!winsockVars)
    <2>1. Others(s) /\ sock'[s].counted = sock[s].counted /\ startups' = startups
      BY <1>1, <1>8, SetPeer DEF UdpSocketReceive, TypeOK
    <2> QED
      BY <1>4, <2>1 DEF Others
  <1>9. CASE UNCHANGED <<sock, startups>>
    BY <1>4, <1>9
  <1>10. CASE UdpStep
    <2>1. CASE \/ AddUserFails \/ OpenSocketFails \/ ParseAddress \/ ParseAddressFails
               \/ CloseSocket \/ CloseSocketFails \/ RemoveUserFails
      BY <1>9, <2>1
      DEF AddUserFails, OpenSocketFails, ParseAddress, ParseAddressFails, CloseSocket,
          CloseSocketFails, RemoveUserFails
    <2> QED
      BY <1>10, <1>2, <1>3, <1>5, <1>6, <2>1 DEF UdpStep
  <1>11. ASSUME NEW s \in held, UdpSocketDestroy(s) PROVE UNCHANGED <<sock, startups>>
    BY <1>11 DEF UdpSocketDestroy
  <1> QED
    BY <1>7, <1>8, <1>9, <1>10, <1>11 DEF UdpUse

\* Users of Winsock come and go as SharedWinsock says, however many there are,
\* whatever fails and whatever has been left behind.
THEOREM SharedRefinement == UdpSpec => WinsockIsShared
  <1>1. UdpInit => Winsock!Init
    BY DEF UdpInit, Counted, Unallocated, Winsock!Init
  <1> QED
    BY <1>1, SharedStep, Invariance, PTL DEF UdpSpec, WinsockIsShared, Winsock!Spec
=============================================================================
