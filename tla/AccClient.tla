----------------------------- MODULE AccClient ------------------------------
(***************************************************************************)
(* acc/client.c: the clients of one process for Assetto Corsa              *)
(* Competizione, over UdpSocket, AccWriter and AccReader.                  *)
(*                                                                         *)
(* The library is single-threaded and its calls block: `call' is the       *)
(* acc_client_* call in progress and how far it has come, and while it     *)
(* runs a socket call (pc # "idle") or parses (receiving = "parse") only   *)
(* that moves.  The application makes any sequence of calls on the clients *)
(* it has been given, and holds one response at a time.                    *)
(*                                                                         *)
(* The game is external: it sends to the clients that have registered.     *)
(* Datagrams may be lost (one waits on a socket, others are dropped) or    *)
(* come from another sender; their contents are those AccReader chooses.   *)
(***************************************************************************)
EXTENDS UdpSocket, AccWriter, AccReader

CONSTANTS
    Clients,      \* the addresses malloc may return for an acc_client_t
    NoClient,
    MaxClients,   \* how many clients the application keeps at a time
    Requests,     \* the requests it makes
    NoRequest,
    NoSender

ASSUME AccClientAssumption ==
    /\ NoClient \notin Clients
    /\ Requests \subseteq Request
    /\ NoRequest \notin Requests
    /\ NoSender \notin Senders \cup {Server}
    /\ MaxClients \in Nat
    /\ MaxDatagram < U16
    /\ NoMemory = ("malloc" \in MayFail)

VARIABLES
    client,       \* the acc_client_t objects
    app,          \* the clients the application holds a pointer to
    call,         \* the acc_client_* call in progress
    buffer,       \* acc_client_send's buffer: how many of its bytes are used
    wire,         \* what sendto was given, and whether it took the whole
    registered,   \* game: the clients it sends to
    inbox         \* network: whose datagram, if any, waits on each client's socket

accVars == <<client, app, call, buffer, wire, registered, inbox>>
accAllVars == <<udpVars, readerVars, accVars>>

ClientObject == [mem : {"free", "live"}, socket : Sockets \cup {NoSocket}]

UnallocatedClient == [mem |-> "free", socket |-> NoSocket]

NoBuffer == [total |-> 0, used |-> 0]
NoWire   == [fields |-> <<>>, whole |-> FALSE]
NoCall   == [op |-> "none", client |-> NoClient, socket |-> NoSocket, request |-> NoRequest]

LiveClients == {c \in Clients : client[c].mem = "live"}

AccInit ==
    /\ UdpInit
    /\ ReaderInit
    /\ client = [c \in Clients |-> UnallocatedClient]
    /\ app = {}
    /\ call = NoCall
    /\ buffer = NoBuffer
    /\ wire = NoWire
    /\ registered = {}
    /\ inbox = [c \in Clients |-> NoSender]

\* The application calls between calls, on a client it holds.
AtCall(c) == call = NoCall /\ c \in app

\* The call in progress is at step op, and no socket call is running under it.
AtStep(op) == call.op = op /\ pc = "idle"

Begin(op, c, r) ==
    call' = [op |-> op, client |-> c, socket |-> client[c].socket, request |-> r]

Continue(op) == call' = [call EXCEPT !.op = op]
AccReturn    == call' = NoCall

\* What a step leaves alone when only the client's memory is at stake.
NoTraffic  == UNCHANGED <<buffer, wire, registered, inbox>>
NoResponse == UNCHANGED <<response, parse>>

-----------------------------------------------------------------------------
(***************************************************************************)
(* acc_client_create.                                                      *)
(***************************************************************************)
AccClientCreate(c) ==
    /\ call = NoCall
    /\ client[c].mem = "free"
    /\ client' = [client EXCEPT ![c] = [mem |-> "live", socket |-> NoSocket]]
    /\ \E s \in Sockets :
        /\ UdpSocketCreate(s)
        /\ call' = [NoCall EXCEPT !.op = "create", !.client = c, !.socket = s]
    /\ UNCHANGED <<app, readerVars>> /\ NoTraffic

\* malloc fails for the client, or for its socket, which frees the client.
AccClientCreateNoMemory ==
    /\ call = NoCall
    /\ \/ /\ "malloc" \in MayFail
          /\ AccFail("MEMORY_ALLOCATION_ERROR")
          /\ UNCHANGED udpVars
       \/ /\ UdpSocketCreateNoMemory
          /\ AccFail(lastError')
    /\ UNCHANGED <<client, app, call>> /\ NoTraffic /\ NoResponse

CreateReturns ==
    /\ AtStep("create")
    /\ call.socket \in held
    /\ client' = [client EXCEPT ![call.client].socket = call.socket]
    /\ app' = app \cup {call.client}
    /\ AccReturn
    /\ UNCHANGED <<udpVars, readerVars>> /\ NoTraffic

\* Mutant: the client is not destroyed.
CreateFailsEarly ==
    /\ AtStep("create")
    /\ call.socket \notin held
    /\ AccFail(lastError)
    /\ AccReturn
    /\ UNCHANGED <<udpVars, client, app>> /\ NoTraffic /\ NoResponse

\* udp_socket_create has returned NULL: acc_client_destroy frees the client.
CreateFails ==
    /\ AtStep("create")
    /\ call.socket \notin held
    /\ AccFail(lastError)
    /\ client' = [client EXCEPT ![call.client] = UnallocatedClient]
    /\ AccReturn
    /\ UNCHANGED <<udpVars, app>> /\ NoTraffic /\ NoResponse

(***************************************************************************)
(* acc_client_destroy.  A failing udp_socket_destroy leaves the client.    *)
(***************************************************************************)
AccClientDestroy(c) ==
    /\ AtCall(c)
    /\ UdpSocketDestroy(client[c].socket)
    /\ Begin("destroy", c, NoRequest)
    /\ UNCHANGED <<client, app, readerVars>> /\ NoTraffic

DestroyFails ==
    /\ AtStep("destroy")
    /\ call.socket \in held
    /\ AccFail(lastError)
    /\ AccReturn
    /\ UNCHANGED <<udpVars, client, app>> /\ NoTraffic /\ NoResponse

\* To the game a client created later is another one, with a port of its own.
DestroyFrees ==
    /\ AtStep("destroy")
    /\ call.socket \notin held
    /\ client' = [client EXCEPT ![call.client] = UnallocatedClient]
    /\ app' = app \ {call.client}
    /\ registered' = registered \ {call.client}
    /\ inbox' = [inbox EXCEPT ![call.client] = NoSender]
    /\ AccReturn
    /\ UNCHANGED <<udpVars, readerVars, buffer, wire>>

-----------------------------------------------------------------------------
(***************************************************************************)
(* acc_client_send.  A null client is refused; a client in the             *)
(* application's hands always has a socket.                                *)
(***************************************************************************)
AccNullClient ==
    /\ call = NoCall
    /\ AccFail("CLIENT_NOT_INITIALIZED")
    /\ UNCHANGED <<udpVars, accVars>> /\ NoResponse

\* The switch over the types has no case for a manual replay highlight.
AccClientSendUnknown(c) ==
    /\ AtCall(c)
    /\ AccFail("INVALID_OUTBOUND_MESSAGE_TYPE")
    /\ UNCHANGED <<udpVars, accVars>> /\ NoResponse

\* The buffer is allocated and written.
AccClientSend(c, r) ==
    /\ AtCall(c)
    /\ LET passes == WriteRequest(r) IN
        buffer' = [total |-> passes.total, used |-> passes.written.offset]
    /\ Begin("send", c, r)
    /\ UNCHANGED <<udpVars, client, app, readerVars, wire, registered, inbox>>

AccClientSendNoMemory(c) ==
    /\ AtCall(c)
    /\ "malloc" \in MayFail
    /\ AccFail("MEMORY_ALLOCATION_ERROR")
    /\ UNCHANGED <<udpVars, accVars>> /\ NoResponse

Mismatch == buffer.total # buffer.used

\* What the game makes of a request (external): it takes notice of it or not,
\* for the datagram may be lost, and one that was cut may not make sense to it.
Heard(c, r) ==
    \/ UNCHANGED registered
    \/ r.type = "REGISTER_COMMAND_APPLICATION"   /\ registered' = registered \cup {c}
    \/ r.type = "UNREGISTER_COMMAND_APPLICATION" /\ registered' = registered \ {c}

\* The datagram goes to the address the socket heard from last.  sendto is told
\* of AsInt(total) bytes, and its count is compared with total: it is less when
\* the size was cut, or when sendto takes fewer.
Sends ==
    /\ AtStep("send") /\ ~Mismatch
    /\ UdpSocketSend(call.socket, buffer.total)
    /\ \E whole \in BOOLEAN :
        /\ IF whole THEN AsInt(buffer.total) = buffer.total
                    ELSE "sendto" \in MayFail \/ AsInt(buffer.total) # buffer.total
        /\ wire' = [fields |-> WriteRequest(call.request).written.fields, whole |-> whole]
    /\ IF sock[call.socket].peer = Server THEN Heard(call.client, call.request)
                                          ELSE UNCHANGED registered
    /\ Continue("sent")
    /\ UNCHANGED <<client, app, readerVars, buffer, inbox>>

\* free(buffer) and return.
EndSend == buffer' = NoBuffer /\ wire' = NoWire /\ AccReturn

SendReturns ==
    /\ AtStep("sent")
    /\ IF wire.whole THEN UNCHANGED accLastError
                     ELSE AccFail("UNEXPECTED_AMOUNT_OF_BYTES_SENT")
    /\ EndSend
    /\ UNCHANGED <<udpVars, client, app, registered, inbox>> /\ NoResponse

SendFails ==
    /\ AtStep("send")
    /\ IF Mismatch
       THEN UNCHANGED udpVars /\ AccFail("BUFFER_SIZE_MISMATCH")
       ELSE UdpSocketSendFails(call.socket, buffer.total) /\ AccFail(lastError')
    /\ EndSend
    /\ UNCHANGED <<client, app, registered, inbox>> /\ NoResponse

-----------------------------------------------------------------------------
(***************************************************************************)
(* acc_client_receive: blocks in recvfrom until a datagram is there, and   *)
(* parses it.                                                              *)
(***************************************************************************)
AccClientReceive(c) ==
    /\ AtCall(c) /\ ~ready
    /\ Begin("receive", c, NoRequest)
    /\ UNCHANGED <<udpVars, client, app, readerVars>> /\ NoTraffic

ReceiveReturns ==
    /\ AtStep("receive")
    /\ inbox[call.client] # NoSender
    /\ UdpSocketReceive(call.socket, inbox[call.client])
    /\ inbox' = [inbox EXCEPT ![call.client] = NoSender]
    /\ \/ (\E n \in Received, t \in Types : Receive(n, t)) /\ Continue("parse")
       \/ (\E t \in Types : ReceiveNoMemory(t)) /\ AccReturn
       \/ ReceiveUnknown /\ AccReturn
    /\ UNCHANGED <<client, app, buffer, wire, registered>>

ReceiveFails ==
    /\ AtStep("receive")
    /\ UdpSocketReceiveFails(call.socket)
    /\ AccFail(lastError')
    /\ AccReturn
    /\ UNCHANGED <<client, app>> /\ NoTraffic /\ NoResponse

ReceiveParses ==
    /\ AtStep("parse")
    /\ ParseStep
    /\ IF receiving' = "parse" THEN UNCHANGED call ELSE AccReturn
    /\ UNCHANGED <<udpVars, client, app>> /\ NoTraffic

FreesResponse ==
    /\ call = NoCall
    /\ AccServerResponseFree
    /\ UNCHANGED <<udpVars, accVars>>

-----------------------------------------------------------------------------
(***************************************************************************)
(* The network (external): a datagram arrives on an open socket.           *)
(***************************************************************************)
Arrives(c, from) ==
    /\ client[c].socket \in held
    /\ Open(sock[client[c].socket].handle)
    /\ inbox[c] = NoSender
    /\ inbox' = [inbox EXCEPT ![c] = from]
    /\ UNCHANGED <<udpVars, readerVars, client, app, call, buffer, wire, registered>>

GameSends(c) == c \in registered /\ Arrives(c, Server)

StrangerSends(c) == \E a \in Senders \ {Server} : Arrives(c, a)

-----------------------------------------------------------------------------
\* What the library does on its own to finish the call in progress.
AccStep ==
    \/ UdpStep /\ UNCHANGED <<readerVars, accVars>>
    \/ CreateReturns \/ CreateFails
    \/ DestroyFails \/ DestroyFrees
    \/ Sends \/ SendReturns \/ SendFails
    \/ ReceiveReturns \/ ReceiveFails \/ ReceiveParses

AccCall ==
    \/ Cardinality(app) < MaxClients /\ \E c \in Clients : AccClientCreate(c)
    \/ AccClientCreateNoMemory
    \/ AccNullClient
    \/ \E c \in app, r \in Requests : AccClientSend(c, r)
    \/ \E c \in app : AccClientSendUnknown(c) \/ AccClientSendNoMemory(c)
    \/ \E c \in app : AccClientDestroy(c) \/ AccClientReceive(c)
    \/ FreesResponse

AccNetwork == \E c \in Clients : GameSends(c) \/ StrangerSends(c)

\* A process that has crashed takes no step.
AccNext == receiving # "crashed" /\ (AccStep \/ AccCall \/ AccNetwork)

AccSpec == AccInit /\ [][AccNext]_accAllVars

-----------------------------------------------------------------------------
\* acc_client_send's buffer, and the datagram it makes of it.
SendTypeOK ==
    /\ buffer \in [total : Nat, used : Nat]
    /\ wire.fields = <<>> \/ wire.fields = WriteRequest(call.request).written.fields
    /\ wire.whole \in BOOLEAN

CallTypeOK ==
    /\ TypeOK
    /\ client \in [Clients -> ClientObject]
    /\ app \subseteq Clients
    /\ call \in [op      : {"none", "create", "destroy", "send", "sent", "receive", "parse"},
                 client  : Clients \cup {NoClient},
                 socket  : Sockets \cup {NoSocket},
                 request : Requests \cup {NoRequest}]
    /\ accLastError \in SysCalls \cup
           {"none", "MEMORY_ALLOCATION_ERROR", "CLIENT_NOT_INITIALIZED",
            "INVALID_OUTBOUND_MESSAGE_TYPE", "INVALID_INBOUND_MESSAGE_TYPE",
            "UNEXPECTED_AMOUNT_OF_BYTES_SENT", "BUFFER_SIZE_MISMATCH",
            "INBOUND_BUFFER_TOO_SMALL"}
    /\ registered \subseteq Clients
    /\ inbox \in [Clients -> Senders \cup {Server, NoSender}]

(***************************************************************************)
(* Type invariant of the client's and the socket's variables; AccReader    *)
(* has its own.                                                            *)
(***************************************************************************)
AccTypeOK == CallTypeOK /\ SendTypeOK

(***************************************************************************)
(* The pass of acc_write_* that adds up sizes and the pass that writes     *)
(* agree on every request: no write runs over the end of the buffer (the   *)
(* comparison at the end would come too late) and none is refused as a     *)
(* mismatch.                                                               *)
(***************************************************************************)
BufferIsFilled == ~Mismatch

(***************************************************************************)
(* A request that the application is told was sent left as a datagram that *)
(* its reader takes for that request: each string whole and in its place,  *)
(* behind a length that 16 bits hold, the car index and the cameras where  *)
(* the flags say they are, and nothing left over.  This rests on the count *)
(* that sendto returns: a size that (int32_t) cuts leaves as a shorter     *)
(* datagram, and the comparison with total must tell.                      *)
(***************************************************************************)
SentIsUnderstood ==
    call.op = "sent" /\ wire.whole => Understood(call.request, wire.fields)

(***************************************************************************)
(* Between calls every client in memory is one the application holds,      *)
(* their sockets are those in existence under a caller, one each, and no   *)
(* buffer of acc_client_send is left, whatever create, destroy or send has *)
(* failed.  Nor is a udp_socket_t in memory that nobody holds, unless a    *)
(* create's clean-up fails: by a call of its own that fails (CleansUp      *)
(* excludes it), or because Winsock was cleaned up under other users.      *)
(***************************************************************************)
NothingIsLost ==
    call = NoCall =>
        /\ LiveClients = app
        /\ held = {client[c].socket : c \in app}
        /\ \A c, d \in app : client[c].socket = client[d].socket => c = d
        /\ buffer = NoBuffer
        /\ CleansUp => Live = held \/ Wedged
=============================================================================
