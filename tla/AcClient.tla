------------------------------ MODULE AcClient ------------------------------
(***************************************************************************)
(* ac/client.c: the Assetto Corsa clients of one process, over UdpSocket.  *)
(*                                                                         *)
(* The library is single-threaded and its calls block: `call' is the       *)
(* ac_client_* call in progress and how far it has come, and while it runs *)
(* a socket call (pc # "idle") only that socket call moves.  The           *)
(* application makes any sequence of calls on the clients it has been      *)
(* given.                                                                  *)
(*                                                                         *)
(* The game is external.  told[c] is what it has heard from client c since *)
(* the last dismiss that reached it, and it answers nobody else.  A request*)
(* reaches it when it is sent or, with Lossy, never; datagrams to a client *)
(* may be lost (never put in inbox), reordered (inbox is a set), or come   *)
(* from another sender.                                                    *)
(***************************************************************************)
EXTENDS UdpSocket

CONSTANTS
    Clients,      \* the addresses malloc may return for an ac_client_t
    NoClient,
    MaxClients,   \* how many clients the application keeps at a time
    MaxInbox,     \* datagrams the operating system queues on a socket
    Lossy         \* whether a request may be lost on its way to the game

ASSUME AcClientAssumption ==
    /\ NoClient \notin Clients
    /\ MaxClients \in Nat
    /\ MaxInbox \in Nat
    /\ Lossy \in BOOLEAN

VARIABLES
    client,       \* the ac_client_t objects
    app,          \* the clients the application holds a pointer to
    call,         \* the ac_client_* call in progress
    acLastError,  \* ac_last_error
    told,         \* game: the operations it has heard from each client
    inbox,        \* network: the datagrams waiting on each client's socket
    unheard       \* history: clients whose session the game keeps though they
                  \* sent it a dismiss

acVars == <<client, app, call, acLastError, told, inbox, unheard>>
allVars == <<udpVars, acVars>>

RequestSize == 12   \* sizeof(ac_request_t)

Operations == {"HANDSHAKE", "SUBSCRIBE_UPDATE", "SUBSCRIBE_SPOT", "DISMISS"}
EventTypes == {"HANDSHAKE", "CAR_INFO", "LAP_INFO"}
Statuses   == {"ALLOCATION_FAILED", "HANDSHAKE_NOT_PERFORMED", "RECEIVED_INVALID_DATA"}

\* What a datagram's size says it is; every other size is invalid data.
Datagrams == [from : Senders \cup {Server}, kind : EventTypes \cup {"OTHER"}]

ClientObject == [mem    : {"free", "live"},
                 socket : Sockets \cup {NoSocket},   \* _udp_socket
                 flag   : BOOLEAN]                   \* _handshake_performed

UnallocatedClient == [mem |-> "free", socket |-> NoSocket, flag |-> FALSE]

NoCall == [op |-> "none", client |-> NoClient, socket |-> NoSocket]

LiveClients == {c \in Clients : client[c].mem = "live"}

AcInit ==
    /\ UdpInit
    /\ client = [c \in Clients |-> UnallocatedClient]
    /\ app = {}
    /\ call = NoCall
    /\ acLastError = "none"
    /\ told = [c \in Clients |-> {}]
    /\ inbox = [c \in Clients |-> {}]
    /\ unheard = {}

\* The application calls between calls, on a client it holds.
AtCall(c) == call = NoCall /\ c \in app

\* The call in progress is at step op, and no socket call is running under it.
At(op) == call.op = op /\ pc = "idle"

Continue(op) == call' = [call EXCEPT !.op = op]
AcReturn     == call' = NoCall

-----------------------------------------------------------------------------
(***************************************************************************)
(* ac_client_create.  malloc does not initialise _handshake_performed.  To *)
(* the game every client is a new one, with a port of its own.             *)
(***************************************************************************)
AcClientCreate(c) ==
    /\ call = NoCall
    /\ client[c].mem = "free"
    /\ \E garbage \in BOOLEAN :
        client' = [client EXCEPT ![c] = [mem |-> "live", socket |-> NoSocket, flag |-> garbage]]
    /\ \/ \E s \in Sockets :
            /\ UdpSocketCreate(s)
            /\ call' = [op |-> "create", client |-> c, socket |-> s]
       \/ /\ UdpSocketCreateNoMemory
          /\ call' = [op |-> "create", client |-> c, socket |-> NoSocket]
    /\ told' = [told EXCEPT ![c] = {}]
    /\ unheard' = unheard \ {c}
    /\ UNCHANGED <<app, acLastError, inbox>>

AcClientCreateNoMemory ==
    /\ call = NoCall
    /\ "malloc" \in MayFail
    /\ acLastError' = "ALLOCATION_FAILED"
    /\ UNCHANGED <<udpVars, client, app, call, told, inbox, unheard>>

\* udp_socket_create has returned call.socket.
CreateReturns ==
    /\ At("create")
    /\ call.socket \in held
    /\ client' = [client EXCEPT ![call.client].socket = call.socket]
    /\ app' = app \cup {call.client}
    /\ AcReturn
    /\ UNCHANGED <<udpVars, acLastError, told, inbox, unheard>>

\* Mutant: the client is not destroyed.
CreateFailsEarly ==
    /\ At("create")
    /\ call.socket \notin held
    /\ acLastError' = lastError
    /\ AcReturn
    /\ UNCHANGED <<udpVars, client, app, told, inbox, unheard>>

\* udp_socket_create has returned NULL: the client is destroyed.
CreateFails ==
    /\ At("create")
    /\ call.socket \notin held
    /\ acLastError' = lastError
    /\ Continue("destroy")
    /\ UNCHANGED <<udpVars, client, app, told, inbox, unheard>>

(***************************************************************************)
(* ac_client_send.  The operation goes to the address the socket heard     *)
(* from last; the flag follows handshake and dismiss once they are sent,   *)
(* whether the game hears them or not.                                     *)
(***************************************************************************)
SendAllowed(c, op) == client[c].flag \/ op = "HANDSHAKE"

\* UDP (external): what is sent reaches the game, or nobody who minds.
Delivered(c, op) ==
    /\ sock[client[c].socket].peer = Server
    /\ told' = [told EXCEPT ![c] = IF op = "DISMISS" THEN {} ELSE @ \cup {op}]
    /\ unheard' = unheard \ {c}

Undelivered(c, op) ==
    /\ Lossy \/ sock[client[c].socket].peer # Server
    /\ unheard' = IF op = "DISMISS" /\ told[c] # {} THEN unheard \cup {c}
                  ELSE unheard \ {c}
    /\ UNCHANGED told

Sends(c, op) ==
    /\ SendAllowed(c, op)
    /\ client[c].socket # NoSocket
    /\ UdpSocketSend(client[c].socket, RequestSize)
    /\ client' = [client EXCEPT ![c].flag = op # "DISMISS"]
    /\ Delivered(c, op) \/ Undelivered(c, op)
    /\ UNCHANGED acLastError

SendFails(c, op) ==
    /\ SendAllowed(c, op)
    /\ \/ client[c].socket # NoSocket /\ UdpSocketSendFails(client[c].socket, RequestSize)
       \/ client[c].socket = NoSocket /\ UdpSocketSendNull
    /\ acLastError' = lastError'
    /\ UNCHANGED <<client, told, unheard>>

\* ac_client_handshake, _subscribe_update, _subscribe_spot and _dismiss.
AcClientSend(c, op) ==
    /\ AtCall(c)
    /\ Sends(c, op) \/ SendFails(c, op)
    /\ UNCHANGED <<app, call, inbox>>

AcClientSendRefused(c, op) ==
    /\ AtCall(c)
    /\ ~SendAllowed(c, op)
    /\ acLastError' = "HANDSHAKE_NOT_PERFORMED"
    /\ UNCHANGED <<udpVars, client, app, call, told, inbox, unheard>>

-----------------------------------------------------------------------------
(***************************************************************************)
(* ac_client_destroy, called by the application or by ac_client_create.    *)
(* A failing step returns and leaves the client as it is.                  *)
(***************************************************************************)
AcClientDestroy(c) ==
    /\ AtCall(c)
    /\ call' = [op |-> "destroy", client |-> c, socket |-> client[c].socket]
    /\ UNCHANGED <<udpVars, client, app, acLastError, told, inbox, unheard>>

DestroyDismisses ==
    /\ At("destroy")
    /\ client[call.client].flag
    /\ \/ Sends(call.client, "DISMISS") /\ Continue("close")
       \/ SendFails(call.client, "DISMISS") /\ AcReturn
    /\ UNCHANGED <<app, inbox>>

\* Mutant: the game is never dismissed.
DestroyNeverDismisses ==
    /\ At("destroy")
    /\ Continue("close")
    /\ UNCHANGED <<udpVars, client, app, acLastError, told, inbox, unheard>>

DestroySkipsDismiss ==
    /\ At("destroy")
    /\ ~client[call.client].flag
    /\ Continue("close")
    /\ UNCHANGED <<udpVars, client, app, acLastError, told, inbox, unheard>>

DestroyClosesSocket ==
    /\ At("close")
    /\ client[call.client].socket # NoSocket
    /\ UdpSocketDestroy(client[call.client].socket)
    /\ Continue("closing")
    /\ UNCHANGED <<client, app, acLastError, told, inbox, unheard>>

DestroyFails ==
    /\ At("closing")
    /\ client[call.client].socket \in held
    /\ acLastError' = lastError
    /\ AcReturn
    /\ UNCHANGED <<udpVars, client, app, told, inbox, unheard>>

\* Mutant: the client is freed whatever became of its socket.
DestroyFreesUnchecked ==
    /\ At("closing")
    /\ client' = [client EXCEPT ![call.client] = UnallocatedClient]
    /\ app' = app \ {call.client}
    /\ inbox' = [inbox EXCEPT ![call.client] = {}]
    /\ AcReturn
    /\ UNCHANGED <<udpVars, acLastError, told, unheard>>

\* The socket is gone, with what waited on it, or there never was one.
DestroyFrees ==
    /\ \/ At("closing") /\ client[call.client].socket \notin held
       \/ At("close") /\ client[call.client].socket = NoSocket
    /\ client' = [client EXCEPT ![call.client] = UnallocatedClient]
    /\ app' = app \ {call.client}
    /\ inbox' = [inbox EXCEPT ![call.client] = {}]
    /\ AcReturn
    /\ UNCHANGED <<udpVars, acLastError, told, unheard>>

-----------------------------------------------------------------------------
(***************************************************************************)
(* ac_client_receive: blocks in recvfrom until a datagram is there.        *)
(***************************************************************************)
AcClientReceive(c) ==
    /\ AtCall(c)
    /\ client[c].flag
    /\ call' = [op |-> "receive", client |-> c, socket |-> client[c].socket]
    /\ UNCHANGED <<udpVars, client, app, acLastError, told, inbox, unheard>>

AcClientReceiveRefused(c) ==
    /\ AtCall(c)
    /\ ~client[c].flag
    /\ acLastError' = "HANDSHAKE_NOT_PERFORMED"
    /\ UNCHANGED <<udpVars, client, app, call, told, inbox, unheard>>

\* Mutant: the event type is stored as the status.
SetResponseAsStatus(kind) == acLastError' = kind

\* The datagram becomes an event of the application, by its size.
SetResponse(kind) ==
    \/ kind # "OTHER" /\ UNCHANGED acLastError
    \/ kind # "OTHER" /\ "malloc" \in MayFail /\ acLastError' = "ALLOCATION_FAILED"
    \/ kind = "OTHER" /\ acLastError' = "RECEIVED_INVALID_DATA"

ReceiveReturns ==
    /\ At("receive")
    /\ \E d \in inbox[call.client] :
        /\ UdpSocketReceive(call.socket, d.from)
        /\ inbox' = [inbox EXCEPT ![call.client] = @ \ {d}]
        /\ SetResponse(d.kind)
    /\ AcReturn
    /\ UNCHANGED <<client, app, told, unheard>>

\* Mutant: a failing recvfrom is tried again.
ReceiveRetries ==
    /\ At("receive")
    /\ UdpSocketReceiveFails(call.socket)
    /\ acLastError' = lastError'
    /\ UNCHANGED <<client, app, call, told, inbox, unheard>>

ReceiveFails ==
    /\ At("receive")
    /\ UdpSocketReceiveFails(call.socket)
    /\ acLastError' = lastError'
    /\ AcReturn
    /\ UNCHANGED <<client, app, told, inbox, unheard>>

-----------------------------------------------------------------------------
(***************************************************************************)
(* The network (external): a datagram arrives on an open socket.           *)
(***************************************************************************)
Arrives(c, d) ==
    /\ client[c].socket \in held
    /\ Open(sock[client[c].socket].handle)
    /\ Cardinality(inbox[c]) < MaxInbox
    /\ inbox' = [inbox EXCEPT ![c] = @ \cup {d}]
    /\ UNCHANGED <<udpVars, client, app, call, acLastError, told, unheard>>

GameAnswers(c) ==
    /\ "HANDSHAKE" \in told[c]
    /\ Arrives(c, [from |-> Server, kind |-> "HANDSHAKE"])

GameUpdates(c) ==
    /\ "HANDSHAKE" \in told[c]
    /\ \/ /\ "SUBSCRIBE_UPDATE" \in told[c]
          /\ Arrives(c, [from |-> Server, kind |-> "CAR_INFO"])
       \/ /\ "SUBSCRIBE_SPOT" \in told[c]
          /\ Arrives(c, [from |-> Server, kind |-> "LAP_INFO"])

StrangerSends(c) ==
    \E a \in Senders \ {Server}, k \in {"CAR_INFO", "OTHER"} :
        Arrives(c, [from |-> a, kind |-> k])

-----------------------------------------------------------------------------
\* What the library does on its own to finish the call in progress.
AcStep ==
    \/ UdpStep /\ UNCHANGED acVars
    \/ CreateReturns \/ CreateFails
    \/ DestroyDismisses \/ DestroySkipsDismiss
    \/ DestroyClosesSocket \/ DestroyFails \/ DestroyFrees
    \/ ReceiveReturns \/ ReceiveFails

AcCall ==
    \/ Cardinality(app) < MaxClients /\ \E c \in Clients : AcClientCreate(c)
    \/ AcClientCreateNoMemory
    \/ \E c \in app, op \in Operations : AcClientSend(c, op) \/ AcClientSendRefused(c, op)
    \/ \E c \in app : AcClientDestroy(c)
    \/ \E c \in app : AcClientReceive(c) \/ AcClientReceiveRefused(c)

AcNetwork == \E c \in Clients : GameAnswers(c) \/ GameUpdates(c) \/ StrangerSends(c)

AcNext == AcStep \/ AcCall \/ AcNetwork

AcSpec == AcInit /\ [][AcNext]_allVars

\* The library runs the call in progress, and the game keeps sending what it
\* was asked to: it does so at every physics step.
AcFairSpec ==
    /\ AcSpec
    /\ WF_allVars(AcStep)
    /\ \A c \in Clients : WF_allVars(GameUpdates(c))

-----------------------------------------------------------------------------
(***************************************************************************)
(* Type invariant: every variable has its type.                            *)
(***************************************************************************)
AcTypeOK ==
    /\ TypeOK
    /\ client \in [Clients -> ClientObject]
    /\ app \subseteq Clients
    /\ call \in [op     : {"none", "create", "destroy", "close", "closing", "receive"},
                 client : Clients \cup {NoClient},
                 socket : Sockets \cup {NoSocket}]
    /\ acLastError \in Statuses \cup SysCalls \cup {"none", "null"}
    /\ told \in [Clients -> SUBSET Operations]
    /\ inbox \in [Clients -> SUBSET Datagrams]
    /\ unheard \subseteq Clients

(***************************************************************************)
(* A session that is open at the game is on record in the flag of a client *)
(* that is still there to dismiss it, whichever of the calls before it     *)
(* failed or got lost; unless the client did send its dismiss, and that    *)
(* one went to a stranger or was lost.                                     *)
(***************************************************************************)
SessionIsRemembered ==
    \A c \in Clients : told[c] # {} =>
        (client[c].mem = "live" /\ client[c].flag) \/ c \in unheard

(***************************************************************************)
(* Between calls the sockets in existence under a caller are exactly those *)
(* of the clients the application holds, one each: none is lost by a       *)
(* failing create or destroy, none is freed under its client, none shared. *)
(* Of the udp_socket_t that no caller was given none is left allocated,    *)
(* where a failing create can clean up and Winsock is up under its users.  *)
(***************************************************************************)
ClientsOwnTheirSockets ==
    call = NoCall =>
        /\ held = {client[c].socket : c \in app}
        /\ \A c, d \in app : client[c].socket = client[d].socket => c = d
        /\ CleansUp => Live = held \/ Wedged

(***************************************************************************)
(* The only client that is lost is one whose creation failed while its     *)
(* memory happened to say that a handshake had been performed: destroying  *)
(* it then sends on the null socket, fails, and leaves it allocated.       *)
(***************************************************************************)
LostOnlyByGarbageFlag ==
    call = NoCall =>
        \A c \in LiveClients \ app : client[c].flag /\ client[c].socket = NoSocket

(***************************************************************************)
(* Every call returns; a receive does when the game has been asked for     *)
(* updates, or the socket has been closed under it.                        *)
(***************************************************************************)
Subscribed(c) ==
    /\ "HANDSHAKE" \in told[c]
    /\ told[c] \cap {"SUBSCRIBE_UPDATE", "SUBSCRIBE_SPOT"} # {}

CallsReturn ==
    \/ call.op \in {"create", "destroy", "close", "closing"}
    \/ call.op = "receive" /\ (Subscribed(call.client) \/ Wedged)
    ~> call = NoCall

-----------------------------------------------------------------------------
(***************************************************************************)
(* What the sources say of the clients, and the code does not do.          *)
(***************************************************************************)
\* examples/ac.c destroys its two clients in turn and exits if either destroy
\* reports an error.  Without a failing system call neither should.
DestroyDoesNotFail ==
    [][call.op \in {"destroy", "close", "closing"} /\ call' = NoCall
       => client'[call.client].mem = "free"]_allVars

\* AC_STATUS_HANDSHAKE_NOT_PERFORMED: the game is asked for nothing before a
\* handshake.
HandshakeComesFirst ==
    \A c \in Clients : told[c] # {} => "HANDSHAKE" \in told[c]
=============================================================================
