----------------------------- MODULE UdpSocket ------------------------------
(***************************************************************************)
(* udp_socket.c and wsa_client.c: the life of the udp_socket_t objects of  *)
(* one process and the counter that decides when Winsock is started and    *)
(* cleaned up.                                                             *)
(*                                                                         *)
(* The library is single-threaded: one call runs at a time.  pc says which *)
(* step of udp_socket_create or udp_socket_destroy runs next, and `this'   *)
(* is the object it runs on.  udp_socket_create calls udp_socket_destroy   *)
(* on each of its error paths; a call is a create as long as the caller    *)
(* does not hold `this'.                                                   *)
(*                                                                         *)
(* Winsock and the operating system are external: startups and owner are   *)
(* their state, and the calls in MayFail may fail although Winsock is up   *)
(* and their arguments are valid.  An error code is abstracted to the name *)
(* of the call that failed.                                                *)
(***************************************************************************)
EXTENDS Integers, FiniteSets

CONSTANTS
    Sockets,         \* the addresses malloc may return for a udp_socket_t
    NoSocket,        \* the null pointer
    Handles,         \* the SOCKET values socket() may return
    INVALID_SOCKET,
    Server,          \* the address the application connects to
    Senders,         \* the addresses datagrams may come from
    MayFail,         \* the system calls that may fail on their own account
    MaxHeld,         \* how many udp_socket_t the application keeps at a time
    IntRange,        \* how many values an int32_t has
    MaxDatagram,     \* the longest datagram sendto takes
    SendSizes        \* the sizes the application sends

SysCalls == {"malloc", "WSAStartup", "WSACleanup", "socket", "closesocket",
             "inet_pton", "sendto", "recvfrom"}

ASSUME UdpSocketAssumption ==
    /\ IsFiniteSet(Sockets)
    /\ NoSocket \notin Sockets
    /\ INVALID_SOCKET \notin Handles
    /\ MayFail \subseteq SysCalls
    /\ MaxHeld \in Nat
    /\ IntRange \in Nat \ {0}
    /\ MaxDatagram \in Nat
    /\ 2 * MaxDatagram < IntRange
    /\ SendSizes \subseteq Nat

VARIABLES
    users,      \* wsa_client_users_counter
    startups,   \* Winsock: WSAStartup calls not yet matched by a WSACleanup
    owner,      \* Winsock: the object each open handle was opened for
    sock,       \* the udp_socket_t objects
    held,       \* the objects whose pointer the caller of the library holds
    lastError,  \* udp_socket_last_error
    pc,         \* the step of udp_socket_create / _destroy that runs next
    this        \* the object that step runs on

udpVars == <<users, startups, owner, sock, held, lastError, pc, this>>

Steps == {"idle", "add_user", "socket", "inet_pton", "close", "remove_user"}

Object == [mem     : {"free", "live"},
           handle  : Handles \cup {INVALID_SOCKET},  \* _socket
           counted : BOOLEAN,                        \* _wsa_initialized
           peer    : Senders \cup {Server}]          \* _address

Unallocated ==
    [mem |-> "free", handle |-> INVALID_SOCKET, counted |-> FALSE, peer |-> Server]

Live    == {s \in Sockets : sock[s].mem = "live"}
Counted == {s \in Sockets : sock[s].counted}

FreeHandles == {h \in Handles : owner[h] = NoSocket}

\* What sendto, recvfrom and closesocket require of the handle they are given.
Open(h) == startups > 0 /\ h \in Handles \ FreeHandles

-----------------------------------------------------------------------------
UdpInit ==
    /\ users = 0
    /\ startups = 0
    /\ owner = [h \in Handles |-> NoSocket]
    /\ sock = [s \in Sockets |-> Unallocated]
    /\ held = {}
    /\ lastError = "none"
    /\ pc = "idle"
    /\ this = NoSocket

Goto(step) == pc' = step /\ UNCHANGED this

Return == pc' = "idle" /\ this' = NoSocket

Fail(call) == lastError' = call

(***************************************************************************)
(* udp_socket_create                                                       *)
(***************************************************************************)
UdpSocketCreate(s) ==
    /\ pc = "idle"
    /\ sock[s].mem = "free"
    /\ sock' = [sock EXCEPT ![s] = [Unallocated EXCEPT !.mem = "live"]]
    /\ pc' = "add_user"
    /\ this' = s
    /\ UNCHANGED <<users, startups, owner, held, lastError>>

UdpSocketCreateNoMemory ==
    /\ pc = "idle"
    /\ "malloc" \in MayFail
    /\ Fail("malloc")
    /\ UNCHANGED <<users, startups, owner, sock, held, pc, this>>

\* Mutants of AddUser: the mark is not set; Winsock is started for each user;
\* Winsock is started when it is down instead of for the first user.
AddUserUnmarked ==
    /\ pc = "add_user"
    /\ startups' = IF users = 0 THEN startups + 1 ELSE startups
    /\ users' = users + 1
    /\ Goto("socket")
    /\ UNCHANGED <<owner, sock, held, lastError>>

AddUserStarts(when) ==
    /\ pc = "add_user"
    /\ startups' = IF when THEN startups + 1 ELSE startups
    /\ users' = users + 1
    /\ sock' = [sock EXCEPT ![this].counted = TRUE]
    /\ Goto("socket")
    /\ UNCHANGED <<owner, held, lastError>>

AddUserAlwaysStarts == AddUserStarts(TRUE)
AddUserRestarts     == AddUserStarts(startups = 0)

\* wsa_client_add_user: the first user starts Winsock.
AddUser ==
    /\ pc = "add_user"
    /\ users >= 0
    /\ startups' = IF users = 0 THEN startups + 1 ELSE startups
    /\ users' = users + 1
    /\ sock' = [sock EXCEPT ![this].counted = TRUE]
    /\ Goto("socket")
    /\ UNCHANGED <<owner, held, lastError>>

AddUserFails ==
    /\ pc = "add_user"
    /\ users < 0 \/ (users = 0 /\ "WSAStartup" \in MayFail)
    /\ Fail("WSAStartup")
    /\ Goto("close")
    /\ UNCHANGED <<users, startups, owner, sock, held>>

OpenSocket ==
    /\ pc = "socket"
    /\ startups > 0
    /\ \E h \in FreeHandles :
        /\ owner' = [owner EXCEPT ![h] = this]
        /\ sock' = [sock EXCEPT ![this].handle = h]
    /\ Goto("inet_pton")
    /\ UNCHANGED <<users, startups, held, lastError>>

\* Mutant: the error is read only after the clean-up.
OpenSocketFailsSilently ==
    /\ pc = "socket"
    /\ startups = 0 \/ FreeHandles = {} \/ "socket" \in MayFail
    /\ Goto("close")
    /\ UNCHANGED <<users, startups, owner, sock, held, lastError>>

OpenSocketFails ==
    /\ pc = "socket"
    /\ startups = 0 \/ FreeHandles = {} \/ "socket" \in MayFail
    /\ Fail("socket")
    /\ Goto("close")
    /\ UNCHANGED <<users, startups, owner, sock, held>>

ParseAddress ==
    /\ pc = "inet_pton"
    /\ held' = held \cup {this}
    /\ Return
    /\ UNCHANGED <<users, startups, owner, sock, lastError>>

\* Mutant: the object is not destroyed.
ParseAddressFailsEarly ==
    /\ pc = "inet_pton"
    /\ "inet_pton" \in MayFail
    /\ Fail("inet_pton")
    /\ Return
    /\ UNCHANGED <<users, startups, owner, sock, held>>

\* inet_pton returns 0 for a malformed address and promises no error code: what
\* WSAGetLastError then returns is whatever an earlier call left there.
ParseAddressFails ==
    /\ pc = "inet_pton"
    /\ "inet_pton" \in MayFail
    /\ lastError' \in (SysCalls \ {"malloc"}) \cup {"none"}
    /\ Goto("close")
    /\ UNCHANGED <<users, startups, owner, sock, held>>

(***************************************************************************)
(* udp_socket_destroy.  A failing step returns and leaves the object as it *)
(* is: to the caller that holds it, or, under udp_socket_create, to nobody.*)
(***************************************************************************)
UdpSocketDestroy(s) ==
    /\ pc = "idle"
    /\ s \in held
    /\ pc' = "close"
    /\ this' = s
    /\ UNCHANGED <<users, startups, owner, sock, held, lastError>>

\* closesocket closes whatever the handle names now; _socket keeps its value.
CloseSocket ==
    /\ pc = "close"
    /\ \/ /\ sock[this].handle = INVALID_SOCKET
          /\ UNCHANGED owner
       \/ /\ Open(sock[this].handle)
          /\ owner' = [owner EXCEPT ![sock[this].handle] = NoSocket]
    /\ Goto("remove_user")
    /\ UNCHANGED <<users, startups, sock, held, lastError>>

CloseSocketFails ==
    /\ pc = "close"
    /\ sock[this].handle # INVALID_SOCKET
    /\ ~Open(sock[this].handle) \/ "closesocket" \in MayFail
    /\ Fail("closesocket")
    /\ Return
    /\ UNCHANGED <<users, startups, owner, sock, held>>

Free ==
    /\ sock' = [sock EXCEPT ![this] = Unallocated]
    /\ held' = held \ {this}
    /\ Return

\* Mutant: the counter goes down without a look at the mark or at Winsock.
RemoveUserUnchecked ==
    /\ pc = "remove_user"
    /\ users' = users - 1
    /\ Free
    /\ UNCHANGED <<startups, owner, lastError>>

\* wsa_client_remove_user: every user cleans Winsock up, and the clean-up that
\* matches the last WSAStartup closes every socket of the process.
RemoveUser ==
    /\ pc = "remove_user"
    /\ sock[this].counted
    /\ users > 0
    /\ startups > 0
    /\ startups' = startups - 1
    /\ owner' = IF startups = 1 THEN [h \in Handles |-> NoSocket] ELSE owner
    /\ users' = users - 1
    /\ Free
    /\ UNCHANGED lastError

RemoveUserSkipped ==
    /\ pc = "remove_user"
    /\ ~sock[this].counted \/ users = 0
    /\ Free
    /\ UNCHANGED <<users, startups, owner, lastError>>

RemoveUserFails ==
    /\ pc = "remove_user"
    /\ sock[this].counted
    /\ users < 0 \/ (users > 0 /\ (startups = 0 \/ "WSACleanup" \in MayFail))
    /\ Fail("WSACleanup")
    /\ Return
    /\ UNCHANGED <<users, startups, owner, sock, held>>

(***************************************************************************)
(* udp_socket_send and udp_socket_receive, on a socket the caller holds.   *)
(* recvfrom stores the sender's address in _address, where the next sendto *)
(* will read its destination.                                              *)
(***************************************************************************)
\* (int32_t)size: what sendto is told of a size_t.
AsInt(size) ==
    LET n == size % IntRange IN IF 2 * n < IntRange THEN n ELSE n - IntRange

\* A datagram of AsInt(size) bytes leaves, the first ones of the `size' given.
UdpSocketSend(s, size) ==
    /\ Open(sock[s].handle)
    /\ AsInt(size) \in 0..MaxDatagram
    /\ UNCHANGED udpVars

UdpSocketSendFails(s, size) ==
    /\ \/ ~Open(sock[s].handle)
       \/ AsInt(size) \notin 0..MaxDatagram
       \/ "sendto" \in MayFail
    /\ Fail("sendto")
    /\ UNCHANGED <<users, startups, owner, sock, held, pc, this>>

\* A null socket: only a client that could not create its socket sends on one.
UdpSocketSendNull ==
    /\ Fail("null")
    /\ UNCHANGED <<users, startups, owner, sock, held, pc, this>>

UdpSocketReceive(s, sender) ==
    /\ Open(sock[s].handle)
    /\ sock' = [sock EXCEPT ![s].peer = sender]
    /\ UNCHANGED <<users, startups, owner, held, lastError, pc, this>>

UdpSocketReceiveFails(s) ==
    /\ ~Open(sock[s].handle) \/ "recvfrom" \in MayFail
    /\ Fail("recvfrom")
    /\ UNCHANGED <<users, startups, owner, sock, held, pc, this>>

-----------------------------------------------------------------------------
\* The steps of a create or destroy in progress: the library runs them.
UdpStep ==
    \/ AddUser \/ AddUserFails
    \/ OpenSocket \/ OpenSocketFails
    \/ ParseAddress \/ ParseAddressFails
    \/ CloseSocket \/ CloseSocketFails
    \/ RemoveUser \/ RemoveUserSkipped \/ RemoveUserFails

\* The application: it keeps at most MaxHeld sockets, and may call destroy
\* again on a socket whose destroy failed.
UdpCall ==
    \/ Cardinality(held) < MaxHeld /\ \E s \in Sockets : UdpSocketCreate(s)
    \/ UdpSocketCreateNoMemory
    \/ \E s \in held : UdpSocketDestroy(s)
    \/ \E s \in held, n \in SendSizes : pc = "idle" /\ UdpSocketSend(s, n)
    \/ \E s \in held, n \in SendSizes : pc = "idle" /\ UdpSocketSendFails(s, n)
    \/ \E s \in held, a \in Senders : pc = "idle" /\ UdpSocketReceive(s, a)
    \/ \E s \in held : pc = "idle" /\ UdpSocketReceiveFails(s)

UdpNext == UdpStep \/ UdpCall

UdpSpec == UdpInit /\ [][UdpNext]_udpVars

-----------------------------------------------------------------------------
(***************************************************************************)
(* Type invariant: every variable has its type.                            *)
(***************************************************************************)
TypeOK ==
    /\ users \in Nat
    /\ startups \in Nat
    /\ owner \in [Handles -> Sockets \cup {NoSocket}]
    /\ sock \in [Sockets -> Object]
    /\ held \subseteq Sockets
    /\ lastError \in SysCalls \cup {"none", "null"}
    /\ pc \in Steps
    /\ this \in Sockets \cup {NoSocket}

(***************************************************************************)
(* wsa_client_users_counter is the number of objects that will remove a    *)
(* user when they are destroyed, over every failing path of create and     *)
(* destroy: no object is counted twice, or forgotten while still counted.  *)
(***************************************************************************)
UsersCountSockets == users = Cardinality(Counted)

(***************************************************************************)
(* WSAStartup is never called while an earlier one is unmatched, and       *)
(* Winsock is cleaned up when the counter is back at zero.                 *)
(***************************************************************************)
StartedAtMostOnce ==
    /\ startups <= 1
    /\ users = 0 => startups = 0

(***************************************************************************)
(* While Winsock is up, the handle in a udp_socket_t is open and was       *)
(* opened for that udp_socket_t, so udp_socket_send, _receive and _destroy *)
(* never act on a socket of another object.  This needs WSACleanup not to  *)
(* fail on its own account: udp_socket_destroy keeps a closed handle in    *)
(* _socket when the clean-up after it fails, and a later socket() may      *)
(* reuse its value.                                                        *)
(***************************************************************************)
HandlesAreOwn ==
    "WSACleanup" \notin MayFail =>
        \A s \in Sockets :
            /\ startups > 0
            /\ sock[s].handle # INVALID_SOCKET
            /\ ~(pc = "remove_user" /\ this = s)
            => owner[sock[s].handle] = s

(***************************************************************************)
(* Where the calls that clean up after a failing udp_socket_create do not  *)
(* fail with it, an object that its caller does not hold is left allocated *)
(* only when Winsock went down under its remaining users.                  *)
(***************************************************************************)
Wedged == users > 0 /\ startups = 0

CleansUp ==
    /\ "WSACleanup" \notin MayFail
    /\ ~({"inet_pton", "closesocket"} \subseteq MayFail)

NoLeakUnlessWedged ==
    pc = "idle" /\ CleansUp => Live = held \/ Wedged

(***************************************************************************)
(* wsa_client_remove_user cleans Winsock up for every user, and only the   *)
(* first user starts it: once users remain after a clean-up, no sequence   *)
(* of creates and destroys brings Winsock back.                            *)
(***************************************************************************)
WedgeIsForever == [][Wedged => Wedged']_udpVars

(***************************************************************************)
(* A failing udp_socket_create that cleans up behind itself leaves the     *)
(* error of the call that made it fail, not one of the clean-up.  (An      *)
(* address inet_pton rejects has no error code to keep.)                   *)
(***************************************************************************)
FailedCreateReportsItsCause ==
    [][/\ pc = "remove_user"
       /\ this \notin held
       /\ sock'[this].mem = "free"
       => /\ ~sock[this].counted => lastError' = "WSAStartup"
          /\ sock[this].counted /\ sock[this].handle = INVALID_SOCKET
             => lastError' = "socket"]_udpVars

-----------------------------------------------------------------------------
(***************************************************************************)
(* The inductive invariant: the properties above, and what makes them      *)
(* inductive, part by part.                                                *)
(***************************************************************************)
\* The object a call runs on, and how far that call has brought it.
CallInv ==
    /\ pc = "idle" <=> this = NoSocket
    /\ pc # "idle" => this \in Live
    /\ pc \in {"add_user", "socket", "inet_pton"} => this \notin held
    /\ pc = "add_user" => ~sock[this].counted
    /\ pc \in {"socket", "inet_pton"} => sock[this].counted
    /\ pc = "socket" => sock[this].handle = INVALID_SOCKET
    /\ pc = "inet_pton" => sock[this].handle # INVALID_SOCKET

\* What an object is outside its calls.
ObjectInv ==
    /\ \A s \in Sockets : sock[s].mem = "free" => sock[s] = Unallocated
    /\ \A s \in Sockets : ~sock[s].counted => sock[s].handle = INVALID_SOCKET
    /\ \A s \in held : sock[s].counted /\ sock[s].handle # INVALID_SOCKET

\* Which error a create on its way out has recorded.
CauseInv ==
    pc \in {"close", "remove_user"} /\ this \notin held =>
        /\ ~sock[this].counted => lastError = "WSAStartup"
        /\ sock[this].counted /\ sock[this].handle = INVALID_SOCKET
           => lastError = "socket"

\* An open handle belongs to the object that remembers it, under Winsock.
OwnerInv ==
    \A h \in Handles : owner[h] # NoSocket =>
        startups > 0 /\ sock[owner[h]].handle = h

UdpInv ==
    /\ TypeOK
    /\ UsersCountSockets
    /\ StartedAtMostOnce
    /\ CallInv
    /\ ObjectInv
    /\ CauseInv
    /\ OwnerInv
    /\ HandlesAreOwn

-----------------------------------------------------------------------------
(***************************************************************************)
(* Whatever fails in udp_socket_create and udp_socket_destroy, and whatever*)
(* they leave behind, the objects that are counted have Winsock the way    *)
(* SharedWinsock describes it: no failing path starts it, takes it down,   *)
(* brings it back, or adds or removes a user besides.                      *)
(***************************************************************************)
Winsock == INSTANCE SharedWinsock WITH
               Users <- Sockets, holders <- Counted, up <- startups > 0

WinsockIsShared == Winsock!Spec
=============================================================================
