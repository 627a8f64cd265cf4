-------------------------- MODULE AccClientProofs ---------------------------
(***************************************************************************)
(* Proofs about AccClient, for any number of clients and sockets, any      *)
(* requests, datagrams and senders, and any set of failing system calls.   *)
(* What udp_socket.c, the writer and the parse guarantee is taken from     *)
(* UdpSocketProofs, AccWriterProofs, AccReaderProofs and                   *)
(* AccResponseProofs.                                                      *)
(***************************************************************************)
EXTENDS AccClient, UdpSocketProofs, AccWriterProofs, AccResponseProofs

USE AccClientAssumption, UdpSocketAssumption DEF AccClientAssumption, UdpSocketAssumption

-----------------------------------------------------------------------------
(***************************************************************************)
(* The inductive invariant.                                                *)
(***************************************************************************)
AppSockets == {client[c].socket : c \in app}

\* A socket each for the clients in the application's hands; the only other
\* client in memory is the one that acc_client_create is making.
AppInv ==
    /\ \A c \in app : client[c].mem = "live" /\ client[c].socket \in Sockets
    /\ \A c, d \in app : client[c].socket = client[d].socket => c = d
    /\ \A c \in Clients \ app :
        client[c].mem = "live" => call.op = "create" /\ c = call.client

\* Whom the call in progress is about, and which socket it is about to make or
\* to destroy.
CallsInv ==
    /\ call.op = "none" => call = NoCall
    /\ pc # "idle" => call.op \in {"create", "destroy"} /\ this = call.socket
    /\ call.op \notin {"create", "destroy"} => held = AppSockets
    /\ call.op = "create" =>
        /\ call.client \in LiveClients \ app
        /\ call.socket \in Sockets \ AppSockets
        /\ held \cup {call.socket} = AppSockets \cup {call.socket}
    /\ call.op = "destroy" => held \cup {call.socket} = AppSockets
    /\ call.op \in {"destroy", "send", "sent", "receive", "parse"} =>
        call.client \in app /\ call.socket = client[call.client].socket
    /\ call.op \notin {"send", "sent"} => buffer = NoBuffer

\* No client of acc/client.c sends on a null socket.
ErrorsInv == lastError # "null"

AccInv == UdpInv /\ CallTypeOK /\ AppInv /\ CallsInv /\ ErrorsInv /\ ParseInv

AccErrors == SysCalls \cup
    {"none", "MEMORY_ALLOCATION_ERROR", "CLIENT_NOT_INITIALIZED",
     "INVALID_OUTBOUND_MESSAGE_TYPE", "INVALID_INBOUND_MESSAGE_TYPE",
     "UNEXPECTED_AMOUNT_OF_BYTES_SENT", "BUFFER_SIZE_MISMATCH", "INBOUND_BUFFER_TOO_SMALL"}

LEMMA AccInitInv == AccInit => AccInv
  <1> SUFFICES ASSUME AccInit PROVE AccInv
    OBVIOUS
  <1>1. UdpInv /\ ParseInv
    BY InitInv, ParseInitInv DEF AccInit
  <1>2. held = {} /\ pc = "idle" /\ lastError = "none" /\ accLastError = "none"
    BY DEF AccInit, UdpInit, ReaderInit
  <1>3. CallTypeOK
    BY <1>1, <1>2 DEF AccInit, CallTypeOK, UdpInv, UnallocatedClient, ClientObject, NoCall
  <1>4. AppInv /\ CallsInv /\ ErrorsInv
    BY <1>2
    DEF AccInit, AppInv, CallsInv, ErrorsInv, AppSockets, LiveClients, UnallocatedClient,
        NoCall
  <1> QED
    BY <1>1, <1>3, <1>4 DEF AccInv

-----------------------------------------------------------------------------
(***************************************************************************)
(* Steps that leave the clients alone.                                     *)
(***************************************************************************)
LEMMA AppFacts ==
  ASSUME AccInv
  PROVE  /\ AppSockets \subseteq Sockets /\ app \subseteq Clients
         /\ \A c \in app : client[c].socket \in AppSockets
         /\ lastError \in AccErrors /\ accLastError \in AccErrors
  BY DEF AccInv, CallTypeOK, AppInv, AppSockets, ErrorsInv, UdpInv, TypeOK, AccErrors

LEMMA ParseKept == ASSUME ParseInv, UNCHANGED <<response, parse>> PROVE ParseInv'
  BY DEF ParseInv, response, parse

LEMMA ReaderKept ==
  ASSUME ParseInv, UNCHANGED readerVars
  PROVE  ParseInv' /\ accLastError' = accLastError
  BY ReaderParseInv DEF readerVars

LEMMA SocketsKept ==
  ASSUME UdpInv, UNCHANGED udpVars
  PROVE  /\ UdpInv' /\ sock' = sock /\ held' = held /\ pc' = pc /\ this' = this
         /\ lastError' = lastError
  BY StepInv DEF udpVars

\* A socket call that only reports an error.
LEMMA SocketError ==
  ASSUME UdpInv, pc = "idle", UNCHANGED <<users, startups, owner, sock, held, pc, this>>,
         lastError' \in SysCalls
  PROVE  UdpInv' /\ ErrorsInv' /\ lastError' \in AccErrors
  BY ErrorInv DEF ErrorsInv, SysCalls, AccErrors

LEMMA ClientsKept ==
  ASSUME AccInv, client' = client, app' = app, call' = call
  PROVE  AppInv' /\ AppSockets' = AppSockets /\ LiveClients' = LiveClients
  BY DEF AccInv, AppInv, AppSockets, LiveClients

\* A call that returns at once, with an error or without.
LEMMA ReturnsAtOnce ==
  ASSUME AccInv, UNCHANGED accVars, UNCHANGED udpVars, UNCHANGED <<response, parse>>,
         accLastError' \in AccErrors
  PROVE  AccInv'
  <1>1. /\ UdpInv' /\ held' = held /\ pc' = pc /\ this' = this /\ lastError' = lastError
    BY SocketsKept DEF AccInv
  <1>2. ParseInv'
    BY ParseKept DEF AccInv
  <1>3. AppInv' /\ AppSockets' = AppSockets /\ LiveClients' = LiveClients
    BY ClientsKept DEF accVars
  <1>4. CallTypeOK'
    BY <1>1 DEF AccInv, CallTypeOK, UdpInv, accVars, AccErrors
  <1>5. CallsInv' /\ ErrorsInv'
    BY <1>1, <1>3 DEF AccInv, CallsInv, ErrorsInv, accVars
  <1> QED
    BY <1>1, <1>2, <1>3, <1>4, <1>5 DEF AccInv

LEMMA UdpStepError == ASSUME UdpStep, ErrorsInv PROVE ErrorsInv'
  BY DEF UdpStep, ErrorsInv, AddUser, AddUserFails, OpenSocket, OpenSocketFails, ParseAddress,
         ParseAddressFails, CloseSocket, CloseSocketFails, RemoveUser, RemoveUserSkipped,
         RemoveUserFails, Fail, SysCalls

LEMMA SocketStep ==
  ASSUME AccInv, UdpStep, UNCHANGED <<readerVars, accVars>>
  PROVE  AccInv'
  <1> USE DEF accVars
  <1>1. /\ UdpInv' /\ pc # "idle" /\ this \in Sockets
        /\ pc' # "idle" => this' = this /\ held' = held
        /\ held' \cup {this} = held \cup {this}
    BY UdpStepEffect DEF AccInv
  <1>2. AppInv' /\ AppSockets' = AppSockets /\ LiveClients' = LiveClients
    BY ClientsKept
  <1>3. ParseInv' /\ accLastError' = accLastError
    BY ReaderKept DEF AccInv
  <1>4. CallTypeOK'
    BY <1>1, <1>3 DEF AccInv, CallTypeOK, UdpInv
  <1>5. this = call.socket /\ call.op \in {"create", "destroy"}
    BY <1>1 DEF AccInv, CallsInv
  <1>6. CallsInv'
    <2>1. CASE call.op = "create"
      BY <1>1, <1>2, <1>5, <2>1 DEF AccInv, CallsInv
    <2>2. CASE call.op = "destroy"
      <3>1. held \cup {this} = AppSockets
        BY <1>5, <2>2 DEF AccInv, CallsInv
      <3> QED
        BY <1>1, <1>2, <1>5, <2>2, <3>1 DEF AccInv, CallsInv
    <2> QED
      BY <1>5, <2>1, <2>2
  <1>7. ErrorsInv'
    BY UdpStepError DEF AccInv
  <1> QED
    BY <1>1, <1>2, <1>3, <1>4, <1>6, <1>7 DEF AccInv

-----------------------------------------------------------------------------
(***************************************************************************)
(* acc_client_create and acc_client_destroy.                               *)
(***************************************************************************)
\* An error in acc_last_error, and otherwise nothing of the response moves.
LEMMA FailKept ==
  ASSUME AccInv, NEW e \in AccErrors, AccFail(e), NoResponse
  PROVE  ParseInv' /\ accLastError' \in AccErrors
  BY ParseKept DEF AccFail, NoResponse, AccInv, response, parse

LEMMA CreateStep == ASSUME AccInv, NEW c \in Clients, AccClientCreate(c) PROVE AccInv'
  <1>1. PICK s \in Sockets :
          /\ UdpSocketCreate(s)
          /\ call' = [NoCall EXCEPT !.op = "create", !.client = c, !.socket = s]
    BY DEF AccClientCreate
  <1>2. /\ call = NoCall /\ client[c].mem = "free" /\ app' = app
        /\ client' = [client EXCEPT ![c] = [mem |-> "live", socket |-> NoSocket]]
        /\ buffer' = buffer /\ registered' = registered /\ inbox' = inbox
        /\ UNCHANGED readerVars
    BY DEF AccClientCreate, NoTraffic
  <1>3. /\ call'.op = "create" /\ call'.client = c /\ call'.socket = s
        /\ call' \in [op : {"create"}, client : Clients, socket : Sockets,
                      request : {NoRequest}]
    BY <1>1 DEF NoCall
  <1>4. c \notin app /\ held = AppSockets /\ buffer = NoBuffer
    BY <1>2 DEF AccInv, AppInv, CallsInv, NoCall
  <1>5. /\ UdpInv' /\ sock[s].mem = "free" /\ held' = held /\ this' = s
        /\ lastError' = lastError
    BY <1>1, CreateInv DEF UdpSocketCreate, AccInv
  <1>6. s \notin held
    BY <1>5 DEF AccInv, UdpInv, ObjectInv, Unallocated
  <1>7. /\ client' \in [Clients -> ClientObject]
        /\ client'[c] = [mem |-> "live", socket |-> NoSocket]
        /\ \A d \in Clients \ {c} : client'[d] = client[d]
    BY <1>2 DEF AccInv, CallTypeOK, ClientObject
  <1>8. AppInv' /\ AppSockets' = AppSockets /\ c \in LiveClients'
    <2>1. \A d \in Clients \ app : client[d].mem # "live"
      BY <1>2 DEF AccInv, AppInv, NoCall
    <2> QED
      BY <1>2, <1>3, <1>4, <1>7, <2>1 DEF AccInv, CallTypeOK, AppInv, AppSockets, LiveClients
  <1>9. ParseInv' /\ accLastError' = accLastError
    BY <1>2, ReaderKept DEF AccInv
  <1>10. CallTypeOK'
    BY <1>2, <1>3, <1>5, <1>7, <1>9 DEF AccInv, CallTypeOK, UdpInv
  <1>11. CallsInv' /\ ErrorsInv'
    BY <1>2, <1>3, <1>4, <1>5, <1>6, <1>8 DEF AccInv, CallsInv, ErrorsInv
  <1> QED
    BY <1>5, <1>8, <1>9, <1>10, <1>11 DEF AccInv

LEMMA CreateNoMemoryStep == ASSUME AccInv, AccClientCreateNoMemory PROVE AccInv'
  <1>1. /\ call = NoCall /\ client' = client /\ app' = app /\ call' = call
        /\ buffer' = buffer /\ wire' = wire /\ registered' = registered /\ inbox' = inbox
        /\ UNCHANGED <<response, parse>>
    BY DEF AccClientCreateNoMemory, NoTraffic, NoResponse
  <1>2. CASE AccFail("MEMORY_ALLOCATION_ERROR") /\ UNCHANGED udpVars
    BY <1>1, <1>2, ReturnsAtOnce DEF accVars, AccErrors, AccFail
  <1>3. CASE UdpSocketCreateNoMemory /\ AccFail(lastError')
    <2>1. /\ pc = "idle" /\ UNCHANGED <<users, startups, owner, sock, held, pc, this>>
          /\ lastError' = "malloc" /\ accLastError' = "malloc"
      BY <1>3 DEF UdpSocketCreateNoMemory, Fail, AccFail
    <2>2. UdpInv' /\ ErrorsInv'
      BY <2>1, SocketError DEF AccInv, SysCalls
    <2>3. AppInv' /\ AppSockets' = AppSockets /\ LiveClients' = LiveClients
      BY <1>1, ClientsKept
    <2>4. CallTypeOK' /\ CallsInv' /\ ParseInv'
      BY <1>1, <2>1, <2>2, <2>3, ParseKept
      DEF AccInv, CallTypeOK, UdpInv, CallsInv, SysCalls
    <2> QED
      BY <2>2, <2>3, <2>4 DEF AccInv
  <1> QED
    BY <1>2, <1>3 DEF AccClientCreateNoMemory

LEMMA CreateReturnsStep == ASSUME AccInv, CreateReturns PROVE AccInv'
  <1> DEFINE c == call.client
  <1>1. /\ call.op = "create" /\ pc = "idle" /\ c \in LiveClients \ app /\ c \in Clients
        /\ call.socket \in Sockets \ AppSockets
        /\ held = AppSockets \cup {call.socket} /\ buffer = NoBuffer
    BY DEF CreateReturns, AtStep, AccInv, CallsInv, LiveClients
  <1>2. /\ client' = [client EXCEPT ![c].socket = call.socket]
        /\ app' = app \cup {c} /\ call' = NoCall /\ UNCHANGED udpVars /\ UNCHANGED readerVars
        /\ buffer' = buffer /\ registered' = registered /\ inbox' = inbox
    BY DEF CreateReturns, AccReturn, NoTraffic
  <1>3. /\ UdpInv' /\ held' = held /\ pc' = pc /\ lastError' = lastError
    BY <1>2, SocketsKept DEF AccInv
  <1>4. ParseInv' /\ accLastError' = accLastError
    BY <1>2, ReaderKept DEF AccInv
  <1>5. /\ client' \in [Clients -> ClientObject]
        /\ client'[c].socket = call.socket /\ client'[c].mem = client[c].mem
        /\ \A d \in Clients \ {c} : client'[d] = client[d]
    BY <1>1, <1>2 DEF AccInv, CallTypeOK, ClientObject
  <1>6. CallTypeOK'
    BY <1>1, <1>2, <1>3, <1>4, <1>5 DEF AccInv, CallTypeOK, UdpInv, NoCall
  <1>7. AppInv'
    <2>1. \A d \in app : client[d].socket # call.socket
      BY <1>1, AppFacts
    <2> QED
      BY <1>1, <1>2, <1>5, <2>1 DEF AccInv, CallTypeOK, AppInv, LiveClients
  <1>8. held' = AppSockets'
    <2>1. AppSockets' = AppSockets \cup {call.socket}
      BY <1>1, <1>2, <1>5 DEF AppSockets, AccInv, CallTypeOK
    <2> QED
      BY <1>1, <1>3, <2>1
  <1>9. CallsInv' /\ ErrorsInv'
    BY <1>1, <1>2, <1>3, <1>8 DEF AccInv, CallsInv, ErrorsInv, NoCall
  <1> QED
    BY <1>3, <1>4, <1>6, <1>7, <1>9 DEF AccInv

LEMMA SameWithout ==
  ASSUME NEW S, NEW T, NEW x, x \notin S, x \notin T, S \cup {x} = T \cup {x}
  PROVE  S = T
  OBVIOUS

\* A client is freed: the one whose creation has failed, or the one whose
\* socket is gone.
LEMMA ClientFreed ==
  ASSUME AccInv, NEW c \in Clients,
         client' = [client EXCEPT ![c] = UnallocatedClient],
         app' = app \ {c}, call' = NoCall, call.op \in {"create", "destroy"},
         call.client = c, pc = "idle", call.socket \notin held
  PROVE  /\ AppInv' /\ client' \in [Clients -> ClientObject]
         /\ held = AppSockets' /\ buffer = NoBuffer
  <1>1. /\ client' \in [Clients -> ClientObject] /\ client'[c].mem = "free"
        /\ \A d \in Clients \ {c} : client'[d] = client[d]
    BY DEF AccInv, CallTypeOK, ClientObject, UnallocatedClient
  <1>2. AppInv'
    BY <1>1 DEF AccInv, CallTypeOK, AppInv
  <1>3. AppSockets' = {client[d].socket : d \in app \ {c}}
    BY <1>1 DEF AppSockets, AccInv, CallTypeOK
  <1>4. CASE call.op = "create"
    <2>1. c \notin app /\ held \cup {call.socket} = AppSockets \cup {call.socket}
          /\ call.socket \notin AppSockets /\ call.socket \notin held
      BY <1>4 DEF AccInv, CallsInv
    <2>2. held = AppSockets
      BY <2>1, SameWithout
    <2> QED
      BY <1>1, <1>2, <1>3, <1>4, <2>1, <2>2 DEF AppSockets, AccInv, CallsInv
  <1>5. CASE call.op = "destroy"
    <2>1. /\ c \in app /\ call.socket = client[c].socket
          /\ held \cup {call.socket} = AppSockets
          /\ \A d \in app : client[d].socket = client[c].socket => d = c
      BY <1>5 DEF AccInv, CallsInv, AppInv
    <2>2. held = AppSockets \ {client[c].socket}
      BY <2>1
    <2>3. AppSockets \ {client[c].socket} = {client[d].socket : d \in app \ {c}}
      BY <2>1 DEF AppSockets
    <2> QED
      BY <1>1, <1>2, <1>3, <1>5, <2>2, <2>3 DEF AccInv, CallsInv
  <1> QED
    BY <1>4, <1>5

LEMMA CreateFailsStep == ASSUME AccInv, CreateFails PROVE AccInv'
  <1> DEFINE c == call.client
  <1>1. /\ call.op = "create" /\ pc = "idle" /\ c \in Clients /\ c \notin app
        /\ call.socket \notin held
    BY DEF CreateFails, AtStep, AccInv, CallsInv, LiveClients
  <1>2. /\ client' = [client EXCEPT ![c] = UnallocatedClient] /\ app' = app \ {c}
        /\ call' = NoCall /\ UNCHANGED udpVars
        /\ buffer' = buffer /\ registered' = registered /\ inbox' = inbox
    BY <1>1 DEF CreateFails, AccReturn, NoTraffic
  <1>3. AppInv' /\ client' \in [Clients -> ClientObject] /\ held = AppSockets'
        /\ buffer = NoBuffer
    <2> HIDE DEF c
    <2>1. call.client = c
      BY DEF c
    <2> QED
      BY <1>1, <1>2, <2>1, ClientFreed
  <1>4. ParseInv' /\ accLastError' \in AccErrors
    BY FailKept, AppFacts DEF CreateFails
  <1>5. /\ UdpInv' /\ held' = held /\ pc' = pc /\ lastError' = lastError
    BY <1>2, SocketsKept DEF AccInv
  <1>6. CallTypeOK'
    BY <1>1, <1>2, <1>3, <1>4, <1>5 DEF AccInv, CallTypeOK, UdpInv, NoCall, AccErrors
  <1>7. CallsInv' /\ ErrorsInv'
    BY <1>1, <1>2, <1>3, <1>5 DEF AccInv, CallsInv, ErrorsInv, NoCall
  <1> QED
    BY <1>3, <1>4, <1>5, <1>6, <1>7 DEF AccInv

\* A call in progress begins: on a client the application holds.
LEMMA BegunCall ==
  ASSUME AccInv, NEW c \in app, NEW op \in {"destroy", "send", "receive"},
         NEW r \in Requests \cup {NoRequest}, AtCall(c), Begin(op, c, r)
  PROVE  /\ call = NoCall /\ held = AppSockets /\ c \in Clients
         /\ client[c].socket \in held /\ client[c].mem = "live"
         /\ call'.op = op /\ call'.client = c /\ call'.socket = client[c].socket
         /\ call' \in [op : {op}, client : Clients, socket : Sockets,
                       request : Requests \cup {NoRequest}]
         /\ \A d \in Clients \ app : client[d].mem # "live"
         /\ buffer = NoBuffer
  <1>1. /\ call = NoCall /\ held = AppSockets /\ c \in Clients /\ client[c].mem = "live"
        /\ client[c].socket \in Sockets /\ buffer = NoBuffer
        /\ \A d \in Clients \ app : client[d].mem # "live"
    BY DEF AtCall, AccInv, CallTypeOK, AppInv, CallsInv, NoCall
  <1> QED
    BY <1>1, AppFacts DEF Begin

LEMMA DestroyStep == ASSUME AccInv, NEW c \in app, AccClientDestroy(c) PROVE AccInv'
  <1>1. /\ AtCall(c) /\ Begin("destroy", c, NoRequest) /\ UdpSocketDestroy(client[c].socket)
        /\ client' = client /\ app' = app /\ UNCHANGED readerVars
        /\ buffer' = buffer /\ registered' = registered /\ inbox' = inbox
    BY DEF AccClientDestroy, NoTraffic
  <1>2. /\ call = NoCall /\ held = AppSockets /\ c \in Clients
        /\ client[c].socket \in held /\ client[c].mem = "live"
        /\ call'.op = "destroy" /\ call'.client = c /\ call'.socket = client[c].socket
        /\ call' \in [op : {"destroy"}, client : Clients, socket : Sockets,
                      request : Requests \cup {NoRequest}]
        /\ \A d \in Clients \ app : client[d].mem # "live"
        /\ buffer = NoBuffer
    BY <1>1, BegunCall
  <1>3. UdpInv'
    BY <1>1, <1>2, StepInv DEF UdpNext, UdpCall, AccInv
  <1>4. held' = held /\ this' = client[c].socket /\ lastError' = lastError
    BY <1>1 DEF UdpSocketDestroy
  <1>5. AppInv' /\ AppSockets' = AppSockets
    BY <1>1, <1>2 DEF AccInv, AppInv, AppSockets
  <1>6. ParseInv' /\ accLastError' = accLastError
    BY <1>1, ReaderKept DEF AccInv
  <1>7. CallTypeOK'
    BY <1>1, <1>2, <1>3, <1>6 DEF AccInv, CallTypeOK, UdpInv
  <1>8. CallsInv' /\ ErrorsInv'
    BY <1>1, <1>2, <1>4, <1>5 DEF AccInv, CallsInv, ErrorsInv
  <1> QED
    BY <1>3, <1>5, <1>6, <1>7, <1>8 DEF AccInv

LEMMA DestroyFailsStep == ASSUME AccInv, DestroyFails PROVE AccInv'
  <1>1. /\ call.op = "destroy" /\ pc = "idle" /\ call.socket \in held
        /\ held \cup {call.socket} = AppSockets /\ buffer = NoBuffer
    BY DEF DestroyFails, AtStep, AccInv, CallsInv
  <1>2. /\ client' = client /\ app' = app /\ call' = NoCall /\ UNCHANGED udpVars
        /\ buffer' = buffer /\ registered' = registered /\ inbox' = inbox
    BY DEF DestroyFails, AccReturn, NoTraffic
  <1>3. ParseInv' /\ accLastError' \in AccErrors
    BY FailKept, AppFacts DEF DestroyFails
  <1>4. /\ UdpInv' /\ held' = held /\ pc' = pc /\ lastError' = lastError
    BY <1>2, SocketsKept DEF AccInv
  <1>5. AppInv' /\ AppSockets' = AppSockets
    BY <1>1, <1>2 DEF AccInv, AppInv, AppSockets
  <1>6. CallTypeOK'
    BY <1>2, <1>3, <1>4 DEF AccInv, CallTypeOK, UdpInv, NoCall, AccErrors
  <1>7. held = AppSockets
    BY <1>1
  <1>8. CallsInv' /\ ErrorsInv'
    BY <1>1, <1>2, <1>4, <1>5, <1>7 DEF AccInv, CallsInv, ErrorsInv, NoCall
  <1> QED
    BY <1>3, <1>4, <1>5, <1>6, <1>8 DEF AccInv

LEMMA DestroyFreesStep == ASSUME AccInv, DestroyFrees PROVE AccInv'
  <1> DEFINE c == call.client
  <1>1. /\ call.op = "destroy" /\ pc = "idle" /\ c \in Clients /\ call.socket \notin held
    BY DEF DestroyFrees, AtStep, AccInv, CallsInv, CallTypeOK
  <1>2. /\ client' = [client EXCEPT ![c] = UnallocatedClient] /\ app' = app \ {c}
        /\ call' = NoCall /\ UNCHANGED udpVars /\ UNCHANGED readerVars
        /\ buffer' = buffer /\ registered' = registered \ {c}
        /\ inbox' = [inbox EXCEPT ![c] = NoSender]
    BY DEF DestroyFrees, AccReturn
  <1>3. AppInv' /\ client' \in [Clients -> ClientObject] /\ held = AppSockets'
        /\ buffer = NoBuffer
    <2> HIDE DEF c
    <2>1. call.client = c
      BY DEF c
    <2> QED
      BY <1>1, <1>2, <2>1, ClientFreed
  <1>4. ParseInv' /\ accLastError' = accLastError
    BY <1>2, ReaderKept DEF AccInv
  <1>5. /\ UdpInv' /\ held' = held /\ pc' = pc /\ lastError' = lastError
    BY <1>2, SocketsKept DEF AccInv
  <1>6. CallTypeOK'
    BY <1>1, <1>2, <1>3, <1>4, <1>5 DEF AccInv, CallTypeOK, UdpInv, NoCall
  <1>7. CallsInv' /\ ErrorsInv'
    BY <1>1, <1>2, <1>3, <1>5 DEF AccInv, CallsInv, ErrorsInv, NoCall
  <1> QED
    BY <1>3, <1>4, <1>5, <1>6, <1>7 DEF AccInv

-----------------------------------------------------------------------------
(***************************************************************************)
(* acc_client_send, acc_client_receive, and the network: the clients and   *)
(* their sockets stay.                                                     *)
(***************************************************************************)
\* The steps of a call on a client that neither make nor destroy one.
InCall == {"send", "sent", "receive", "parse"}

LEMMA ClientsStay ==
  ASSUME AccInv, call.op \in InCall \cup {"none"}, client' = client, app' = app,
         call' = NoCall \/ (/\ call' = [call EXCEPT !.op = call'.op] /\ call.op \in InCall
                            /\ call'.op \in InCall),
         UdpInv', ErrorsInv', ParseInv', held' = held, pc' = "idle",
         accLastError' \in AccErrors,
         registered' \subseteq Clients, inbox' \in [Clients -> Senders \cup {Server, NoSender}],
         call'.op \notin {"send", "sent"} => buffer' = NoBuffer
  PROVE  AccInv'
  <1>1. held = AppSockets
    BY DEF AccInv, CallsInv, InCall
  <1>2. AppSockets' = AppSockets /\ AppInv'
    BY DEF AccInv, AppInv, AppSockets, InCall
  <1>3. CASE call' = NoCall
    <2>1. CallTypeOK'
      BY <1>3 DEF AccInv, CallTypeOK, UdpInv, NoCall, AccErrors
    <2>2. CallsInv'
      BY <1>1, <1>2, <1>3 DEF CallsInv, NoCall
    <2> QED
      BY <1>2, <2>1, <2>2 DEF AccInv
  <1>4. CASE /\ call' = [call EXCEPT !.op = call'.op] /\ call.op \in InCall
             /\ call'.op \in InCall
    <2>1. /\ call'.client = call.client /\ call'.socket = call.socket
          /\ call' \in [op : InCall, client : Clients \cup {NoClient},
                        socket : Sockets \cup {NoSocket},
                        request : Requests \cup {NoRequest}]
      BY <1>4 DEF AccInv, CallTypeOK
    <2>2. CallTypeOK'
      BY <2>1 DEF AccInv, CallTypeOK, UdpInv, AccErrors, InCall
    <2>3. call.client \in app /\ call.socket = client[call.client].socket
      BY <1>4 DEF AccInv, CallsInv, InCall
    <2>4. CallsInv'
      BY <1>1, <1>2, <1>4, <2>1, <2>3 DEF CallsInv, InCall
    <2> QED
      BY <1>2, <2>2, <2>4 DEF AccInv
  <1> QED
    BY <1>3, <1>4

LEMMA BeginStep ==
  ASSUME AccInv, NEW c \in app, NEW op \in {"send", "receive"},
         NEW r \in Requests \cup {NoRequest}, AtCall(c), Begin(op, c, r),
         UNCHANGED <<udpVars, readerVars>>, client' = client, app' = app,
         registered' = registered, inbox' = inbox, op = "receive" => buffer' = buffer
  PROVE  AccInv'
  <1>1. /\ call = NoCall /\ held = AppSockets /\ c \in Clients
        /\ call'.op = op /\ call'.client = c /\ call'.socket = client[c].socket
        /\ call' \in [op : {op}, client : Clients, socket : Sockets,
                      request : Requests \cup {NoRequest}]
        /\ \A d \in Clients \ app : client[d].mem # "live"
        /\ buffer = NoBuffer
    BY BegunCall
  <1>2. /\ UdpInv' /\ held' = held /\ pc' = pc /\ lastError' = lastError
    BY SocketsKept DEF AccInv
  <1>3. ParseInv' /\ accLastError' = accLastError
    BY ReaderKept DEF AccInv
  <1>4. AppInv' /\ AppSockets' = AppSockets
    BY <1>1 DEF AccInv, AppInv, AppSockets
  <1>5. CallTypeOK'
    BY <1>1, <1>2, <1>3 DEF AccInv, CallTypeOK, UdpInv
  <1>6. CallsInv' /\ ErrorsInv'
    BY <1>1, <1>2, <1>4 DEF AccInv, CallsInv, ErrorsInv, NoCall, AtCall
  <1> QED
    BY <1>2, <1>3, <1>4, <1>5, <1>6 DEF AccInv

\* What CallTypeOK says of the game and the network.
LEMMA TrafficFacts ==
  ASSUME AccInv
  PROVE  /\ registered \subseteq Clients
         /\ inbox \in [Clients -> Senders \cup {Server, NoSender}]
  BY DEF AccInv, CallTypeOK

\* Of a call in progress: its client is in the application's hands, and its
\* socket is that client's.
LEMMA InCallFacts ==
  ASSUME AccInv, call.op \in InCall
  PROVE  /\ call.client \in app /\ call.client \in Clients /\ call.socket \in held
  BY AppFacts DEF AccInv, CallsInv, InCall

LEMMA SendsStep == ASSUME AccInv, Sends PROVE AccInv'
  <1>1. /\ call.op = "send" /\ pc = "idle" /\ client' = client /\ app' = app
        /\ call' = [call EXCEPT !.op = "sent"] /\ UNCHANGED readerVars /\ inbox' = inbox
        /\ UNCHANGED udpVars
        /\ registered' = registered \/ Heard(call.client, call.request)
    BY DEF Sends, AtStep, Continue, UdpSocketSend
  <1>2. call'.op = "sent"
    BY <1>1 DEF AccInv, CallTypeOK
  <1>3. /\ UdpInv' /\ held' = held /\ pc' = pc /\ ErrorsInv'
    BY <1>1, SocketsKept DEF AccInv, ErrorsInv
  <1>4. ParseInv' /\ accLastError' \in AccErrors
    BY <1>1, ReaderKept, AppFacts DEF AccInv
  <1>5. registered' \subseteq Clients
    BY <1>1, TrafficFacts, InCallFacts DEF Heard, InCall
  <1> QED
    BY <1>1, <1>2, <1>3, <1>4, <1>5, TrafficFacts, ClientsStay DEF InCall

LEMMA SendReturnsStep == ASSUME AccInv, SendReturns PROVE AccInv'
  <1>1. /\ call.op = "sent" /\ pc = "idle" /\ client' = client /\ app' = app
        /\ call' = NoCall /\ buffer' = NoBuffer /\ inbox' = inbox /\ registered' = registered
        /\ UNCHANGED udpVars /\ UNCHANGED <<response, parse>>
        /\ accLastError' \in {accLastError, "UNEXPECTED_AMOUNT_OF_BYTES_SENT"}
    BY DEF SendReturns, AtStep, EndSend, AccReturn, NoResponse, AccFail
  <1>2. /\ UdpInv' /\ held' = held /\ pc' = pc /\ ErrorsInv'
    BY <1>1, SocketsKept DEF AccInv, ErrorsInv
  <1>3. ParseInv' /\ accLastError' \in AccErrors
    BY <1>1, ParseKept, AppFacts DEF AccInv, AccErrors
  <1> QED
    BY <1>1, <1>2, <1>3, TrafficFacts, ClientsStay DEF InCall

LEMMA SendFailsStep == ASSUME AccInv, SendFails PROVE AccInv'
  <1>1. /\ call.op = "send" /\ pc = "idle" /\ client' = client /\ app' = app
        /\ call' = NoCall /\ buffer' = NoBuffer /\ inbox' = inbox /\ registered' = registered
        /\ UNCHANGED <<response, parse>>
    BY DEF SendFails, AtStep, EndSend, AccReturn, NoResponse
  <1>2. ParseInv'
    BY <1>1, ParseKept DEF AccInv
  <1>3. /\ UdpInv' /\ held' = held /\ pc' = pc /\ ErrorsInv' /\ accLastError' \in AccErrors
    <2>1. CASE UNCHANGED udpVars /\ AccFail("BUFFER_SIZE_MISMATCH")
      BY <2>1, SocketsKept DEF AccInv, ErrorsInv, AccFail, AccErrors
    <2>2. CASE /\ UNCHANGED <<users, startups, owner, sock, held, pc, this>>
               /\ lastError' = "sendto" /\ accLastError' = lastError'
      BY <1>1, <2>2, SocketError DEF AccInv, SysCalls
    <2> QED
      BY <2>1, <2>2 DEF SendFails, UdpSocketSendFails, Fail, AccFail
  <1> QED
    BY <1>1, <1>2, <1>3, TrafficFacts, ClientsStay DEF InCall

LEMMA ReceiveReturnsStep == ASSUME AccInv, ReceiveReturns PROVE AccInv'
  <1> DEFINE c == call.client
             s == call.socket
  <1>1. /\ call.op = "receive" /\ pc = "idle" /\ client' = client /\ app' = app
        /\ registered' = registered /\ buffer' = buffer /\ buffer = NoBuffer
        /\ inbox' = [inbox EXCEPT ![c] = NoSender] /\ inbox[c] # NoSender
        /\ UdpSocketReceive(s, inbox[c])
    BY DEF ReceiveReturns, AtStep, AccInv, CallsInv
  <1>2. c \in Clients /\ s \in held
    BY <1>1, InCallFacts DEF InCall
  <1>3. /\ inbox[c] \in Senders \cup {Server}
        /\ inbox' \in [Clients -> Senders \cup {Server, NoSender}]
    BY <1>1, <1>2, TrafficFacts
  <1>4. UdpInv'
    <2> HIDE DEF c, s
    <2> QED
      BY <1>1, <1>2, <1>3, ReceiveInv DEF AccInv
  <1>5. held' = held /\ pc' = pc /\ ErrorsInv'
    BY <1>1 DEF UdpSocketReceive, AccInv, ErrorsInv
  <1>6. CASE (\E n \in Received, t \in Types : Receive(n, t)) /\ Continue("parse")
    <2>1. ParseInv' /\ accLastError' \in AccErrors
      BY <1>6, ReceiveParseInv, AppFacts DEF Receive, AccInv
    <2>2. call' = [call EXCEPT !.op = "parse"] /\ call'.op = "parse"
      BY <1>6 DEF Continue, AccInv, CallTypeOK
    <2> QED
      BY <1>1, <1>3, <1>4, <1>5, <2>1, <2>2, TrafficFacts, ClientsStay DEF InCall
  <1>7. CASE ((\E t \in Types : ReceiveNoMemory(t)) \/ ReceiveUnknown) /\ AccReturn
    <2>1. ParseInv'
      BY <1>7, ReceiveNothingInv DEF AccInv
    <2>2. accLastError' \in AccErrors
      BY <1>7 DEF ReceiveNoMemory, ReceiveUnknown, AccFail, AccErrors
    <2>3. call' = NoCall
      BY <1>7 DEF AccReturn
    <2> QED
      BY <1>1, <1>3, <1>4, <1>5, <2>1, <2>2, <2>3, TrafficFacts, ClientsStay DEF InCall
  <1> QED
    BY <1>6, <1>7 DEF ReceiveReturns

LEMMA ReceiveFailsStep == ASSUME AccInv, ReceiveFails PROVE AccInv'
  <1>1. /\ call.op = "receive" /\ pc = "idle" /\ client' = client /\ app' = app
        /\ call' = NoCall /\ buffer' = buffer /\ buffer = NoBuffer
        /\ inbox' = inbox /\ registered' = registered
        /\ UNCHANGED <<response, parse>>
        /\ UNCHANGED <<users, startups, owner, sock, held, pc, this>>
        /\ lastError' = "recvfrom" /\ accLastError' = lastError'
    BY DEF ReceiveFails, AtStep, AccReturn, NoResponse, NoTraffic, UdpSocketReceiveFails, Fail,
           AccFail, AccInv, CallsInv
  <1>2. ParseInv'
    BY <1>1, ParseKept DEF AccInv
  <1>3. UdpInv' /\ ErrorsInv' /\ accLastError' \in AccErrors
    BY <1>1, SocketError DEF AccInv, SysCalls
  <1> QED
    BY <1>1, <1>2, <1>3, TrafficFacts, ClientsStay DEF InCall

LEMMA ParseStepError ==
  ASSUME ParseStep
  PROVE  accLastError' \in {accLastError, "INBOUND_BUFFER_TOO_SMALL"}
  BY DEF ParseStep, ParseItem, ParseCrashes, ParseReturns, ParseRejects, AccFail

LEMMA ReceiveParsesStep == ASSUME AccInv, ReceiveParses PROVE AccInv'
  <1>1. /\ call.op = "parse" /\ pc = "idle" /\ client' = client /\ app' = app
        /\ call' \in {call, NoCall} /\ buffer' = buffer /\ buffer = NoBuffer
        /\ inbox' = inbox /\ registered' = registered /\ UNCHANGED udpVars /\ ParseStep
    BY DEF ReceiveParses, AtStep, AccReturn, NoTraffic, AccInv, CallsInv
  <1>2. /\ UdpInv' /\ held' = held /\ pc' = pc /\ ErrorsInv'
    BY <1>1, SocketsKept DEF AccInv, ErrorsInv
  <1>3. ParseInv' /\ accLastError' \in AccErrors
    BY <1>1, ParseStepInv, ParseStepError, AppFacts DEF AccInv, AccErrors
  <1>4. call = [call EXCEPT !.op = "parse"]
    BY <1>1 DEF AccInv, CallTypeOK
  <1> QED
    BY <1>1, <1>2, <1>3, <1>4, TrafficFacts, ClientsStay DEF InCall

LEMMA FreesResponseStep == ASSUME AccInv, FreesResponse PROVE AccInv'
  <1>1. /\ call = NoCall /\ UNCHANGED udpVars /\ UNCHANGED accVars
        /\ accLastError' = accLastError /\ AccServerResponseFree
    BY DEF FreesResponse, AccServerResponseFree
  <1>2. ParseInv' /\ accLastError' \in AccErrors
    BY <1>1, FreeParseInv, AppFacts DEF AccInv
  <1>3. /\ UdpInv' /\ held' = held /\ pc' = pc /\ ErrorsInv'
    BY <1>1, SocketsKept DEF AccInv, ErrorsInv
  <1>4. pc = "idle" /\ buffer = NoBuffer
    BY <1>1 DEF AccInv, CallsInv, NoCall
  <1> QED
    BY <1>1, <1>2, <1>3, <1>4, TrafficFacts, ClientsStay DEF accVars, NoCall

LEMMA ArrivesStep ==
  ASSUME AccInv, NEW c \in Clients, NEW from \in Senders \cup {Server}, Arrives(c, from)
  PROVE  AccInv'
  <1>1. /\ inbox' = [inbox EXCEPT ![c] = from] /\ UNCHANGED udpVars /\ UNCHANGED readerVars
        /\ client' = client /\ app' = app /\ call' = call /\ buffer' = buffer
        /\ registered' = registered
    BY DEF Arrives
  <1>2. inbox' \in [Clients -> Senders \cup {Server, NoSender}]
    BY <1>1, TrafficFacts
  <1>3. /\ UdpInv' /\ held' = held /\ pc' = pc /\ this' = this /\ lastError' = lastError
    BY <1>1, SocketsKept DEF AccInv
  <1>4. ParseInv' /\ accLastError' = accLastError
    BY <1>1, ReaderKept DEF AccInv
  <1>5. AppInv' /\ AppSockets' = AppSockets /\ LiveClients' = LiveClients
    BY <1>1, ClientsKept
  <1>6. CallTypeOK'
    BY <1>1, <1>2, <1>3, <1>4 DEF AccInv, CallTypeOK, UdpInv
  <1>7. CallsInv' /\ ErrorsInv'
    BY <1>1, <1>3, <1>5 DEF AccInv, CallsInv, ErrorsInv
  <1> QED
    BY <1>3, <1>4, <1>5, <1>6, <1>7 DEF AccInv

LEMMA AccStepInv == AccInv /\ [AccNext]_accAllVars => AccInv'
  <1> SUFFICES ASSUME AccInv, [AccNext]_accAllVars PROVE AccInv'
    OBVIOUS
  <1>1. CASE AccStep
    BY <1>1, SocketStep, CreateReturnsStep, CreateFailsStep, DestroyFailsStep,
       DestroyFreesStep, SendsStep, SendReturnsStep, SendFailsStep, ReceiveReturnsStep,
       ReceiveFailsStep, ReceiveParsesStep
    DEF AccStep
  <1>2. CASE AccCall
    <2>1. CASE AccNullClient
      BY <2>1, ReturnsAtOnce DEF AccNullClient, NoResponse, AccFail, AccErrors
    <2>2. ASSUME NEW c \in app, NEW r \in Requests, AccClientSend(c, r) PROVE AccInv'
      BY <2>2, BeginStep DEF AccClientSend
    <2>3. ASSUME NEW c \in app, AccClientSendUnknown(c) PROVE AccInv'
      BY <2>3, ReturnsAtOnce DEF AccClientSendUnknown, NoResponse, AccFail, AccErrors
    <2>4. ASSUME NEW c \in app, AccClientSendNoMemory(c) PROVE AccInv'
      BY <2>4, ReturnsAtOnce DEF AccClientSendNoMemory, NoResponse, AccFail, AccErrors
    <2>5. ASSUME NEW c \in app, AccClientReceive(c) PROVE AccInv'
      BY <2>5, BeginStep DEF AccClientReceive, NoTraffic
    <2> QED
      BY <1>2, <2>1, <2>2, <2>3, <2>4, <2>5, CreateStep, CreateNoMemoryStep, DestroyStep,
         FreesResponseStep
      DEF AccCall
  <1>3. CASE AccNetwork
    BY <1>3, ArrivesStep DEF AccNetwork, GameSends, StrangerSends
  <1>4. CASE UNCHANGED accAllVars
    BY <1>4, ReturnsAtOnce, AppFacts DEF accAllVars, readerVars
  <1> QED
    BY <1>1, <1>2, <1>3, <1>4 DEF AccNext

-----------------------------------------------------------------------------
(***************************************************************************)
(* What acc_client_send does with its buffer: from the write to the free   *)
(* it holds the request of the call, and what leaves are its fields, all   *)
(* of them only when they fit a datagram.                                  *)
(***************************************************************************)
Sending == {"send", "sent"}

SendInv ==
    /\ call.op \in Sending =>
        LET passes == WriteRequest(call.request) IN
        /\ call.request \in Requests
        /\ buffer = [total |-> passes.total, used |-> passes.written.offset]
    /\ call.op # "sent" => wire = NoWire
    /\ call.op = "sent" =>
        /\ wire.fields = WriteRequest(call.request).written.fields
        /\ wire.whole \in BOOLEAN
        /\ wire.whole => WriteRequest(call.request).total \in 0..MaxDatagram

LEMMA NotSending ==
  ASSUME SendInv, call.op # "sent", call'.op \notin Sending, wire' = wire
  PROVE  SendInv'
  BY DEF SendInv, Sending

LEMMA SendKept == ASSUME SendInv, UNCHANGED <<call, buffer, wire>> PROVE SendInv'
  BY DEF SendInv

LEMMA ReturnedSends ==
  ASSUME SendInv, call' = NoCall, wire' = NoWire \/ (call.op # "sent" /\ wire' = wire)
  PROVE  SendInv'
  BY DEF SendInv, NoCall, Sending

LEMMA StepSendInv ==
  ASSUME AccInv, SendInv, [AccNext]_accAllVars
  PROVE  SendInv'
  <1> USE SendKept DEF accVars, NoTraffic
  <1>1. ASSUME NEW c \in app, NEW r \in Requests, AccClientSend(c, r) PROVE SendInv'
    <2>1. /\ call' = [op |-> "send", client |-> c, socket |-> client[c].socket, request |-> r]
          /\ buffer' = [total |-> WriteRequest(r).total, used |-> WriteRequest(r).written.offset]
          /\ call.op # "sent" /\ wire' = wire
      BY <1>1 DEF AccClientSend, Begin, AtCall, NoCall
    <2>2. call'.op = "send" /\ call'.request = r
      BY <2>1
    <2> QED
      BY <2>1, <2>2 DEF SendInv
  <1>2. CASE Sends
    <2> DEFINE d == WriteRequest(call.request)
    <2>1. call.op = "send" /\ buffer' = buffer /\ AsInt(buffer.total) \in 0..MaxDatagram
      BY <1>2 DEF Sends, AtStep, UdpSocketSend
    <2>2. call'.op = "sent" /\ call'.request = call.request
      BY <1>2 DEF Sends, Continue, AccInv, CallTypeOK
    <2>3. PICK whole \in BOOLEAN :
            /\ whole => AsInt(buffer.total) = buffer.total
            /\ wire' = [fields |-> d.written.fields, whole |-> whole]
      BY <1>2 DEF Sends
    <2>4. buffer.total = d.total
      BY <2>1 DEF SendInv, Sending
    <2>5. whole => d.total \in 0..MaxDatagram
      BY <2>1, <2>3, <2>4
    <2> HIDE DEF d
    <2>6. wire'.fields = d.written.fields /\ wire'.whole = whole
      BY <2>3
    <2> QED
      BY <2>1, <2>2, <2>5, <2>6 DEF SendInv, Sending, d
  <1>3. ASSUME NEW c \in Clients, AccClientCreate(c) PROVE SendInv'
    BY <1>3, NotSending DEF AccClientCreate, NoCall, Sending
  <1>4. ASSUME NEW c \in app, AccClientDestroy(c) \/ AccClientReceive(c) PROVE SendInv'
    BY <1>4, NotSending DEF AccClientDestroy, AccClientReceive, Begin, Sending, AtCall, NoCall
  <1>5. CASE CreateReturns \/ CreateFails \/ DestroyFails \/ DestroyFrees
    BY <1>5, ReturnedSends
    DEF CreateReturns, CreateFails, DestroyFails, DestroyFrees, AccReturn, AtStep
  <1>6. CASE SendReturns \/ SendFails
    BY <1>6, ReturnedSends DEF SendReturns, SendFails, EndSend, AccReturn
  <1>7. CASE ReceiveReturns \/ ReceiveFails \/ ReceiveParses
    <2>1. call.op \notin Sending /\ wire' = wire
      BY <1>7 DEF ReceiveReturns, ReceiveFails, ReceiveParses, AtStep, Sending
    <2>2. call' = NoCall \/ call' = call \/ call' = [call EXCEPT !.op = "parse"]
      BY <1>7 DEF ReceiveReturns, ReceiveFails, ReceiveParses, AccReturn, Continue
    <2>3. call'.op \notin Sending
      BY <2>1, <2>2 DEF AccInv, CallTypeOK, NoCall, Sending
    <2> QED
      BY <2>1, <2>3, NotSending DEF Sending
  <1>8. CASE (UdpStep /\ UNCHANGED <<readerVars, accVars>>) \/ AccNetwork
    BY <1>8 DEF AccNetwork, GameSends, StrangerSends, Arrives
  <1>9. CASE AccClientCreateNoMemory \/ AccNullClient \/ FreesResponse
    BY <1>9 DEF AccClientCreateNoMemory, AccNullClient, FreesResponse
  <1>10. ASSUME NEW c \in app, AccClientSendUnknown(c) \/ AccClientSendNoMemory(c)
         PROVE  SendInv'
    BY <1>10 DEF AccClientSendUnknown, AccClientSendNoMemory
  <1>11. CASE UNCHANGED accAllVars
    BY <1>11 DEF accAllVars
  <1> QED
    BY <1>1, <1>2, <1>3, <1>4, <1>5, <1>6, <1>7, <1>8, <1>9, <1>10, <1>11
    DEF AccNext, AccStep, AccCall

\* The two passes of the request that is being sent agree.
LEMMA SendingAgrees ==
  ASSUME SendInv, call.op \in Sending
  PROVE  buffer.total \in Nat /\ buffer.total = buffer.used /\ call.request \in Request
  <1> DEFINE r == call.request
  <1>1. /\ r \in Request
        /\ buffer = [total |-> WriteRequest(r).total, used |-> WriteRequest(r).written.offset]
    BY DEF SendInv
  <1> HIDE DEF r
  <1>2. WriteRequest(r).total \in Nat /\ WriteRequest(r).total = WriteRequest(r).written.offset
    BY <1>1, PassesAgree, TotalIsNat, Zenon
  <1> QED
    BY <1>1, <1>2 DEF r

LEMMA FilledAndUnderstood ==
  ASSUME AccInv, SendInv
  PROVE  SendTypeOK /\ BufferIsFilled /\ SentIsUnderstood
  <1>1. CASE call.op \in Sending
    <2>1. BufferIsFilled
      BY <1>1, SendingAgrees DEF BufferIsFilled, Mismatch
    <2>2. SendTypeOK
      <3>1. buffer \in [total : Nat, used : Nat]
        BY <1>1, SendingAgrees DEF SendInv
      <3>2. CASE call.op = "sent"
        <4>1. /\ wire.fields = WriteRequest(call.request).written.fields
              /\ wire.whole \in BOOLEAN
          BY <3>2 DEF SendInv
        <4> QED
          BY <3>1, <4>1, Zenon DEF SendTypeOK
      <3>3. CASE call.op # "sent"
        <4>1. wire.fields = <<>> /\ wire.whole = FALSE
          BY <3>3 DEF SendInv, NoWire
        <4> QED
          BY <3>1, <4>1, Zenon DEF SendTypeOK
      <3> QED
        BY <3>2, <3>3
    <2>3. SentIsUnderstood
      <3> DEFINE r == call.request
                 total == WriteRequest(r).total
                 most == U16
      <3> SUFFICES ASSUME call.op = "sent", wire.whole
                   PROVE  Understood(r, WriteRequest(r).written.fields)
        BY DEF SentIsUnderstood, SendInv
      <3>1. r \in Request
        BY <1>1, SendingAgrees
      <3>2. total \in 0..MaxDatagram
        BY DEF SendInv
      <3>3. MaxDatagram \in Nat /\ MaxDatagram < most /\ most \in Nat
        BY DEF U16
      <3>4. total < most
        <4> HIDE DEF total, most
        <4> QED
          BY <3>2, <3>3
      <3> HIDE DEF r
      <3> QED
        BY <3>1, <3>4, WhatFitsIsUnderstood, Zenon
    <2> QED
      BY <2>1, <2>2, <2>3
  <1>2. CASE call.op \notin Sending
    <2>1. buffer = [total |-> 0, used |-> 0] /\ wire = NoWire
      BY <1>2 DEF AccInv, CallsInv, SendInv, Sending, NoBuffer
    <2>2. SendTypeOK
      <3>1. /\ buffer \in [total : Nat, used : Nat]
            /\ wire.fields = <<>> /\ wire.whole = FALSE
        BY <2>1 DEF NoWire
      <3> QED
        BY <3>1, Zenon DEF SendTypeOK
    <2> QED
      BY <1>2, <2>1, <2>2 DEF BufferIsFilled, Mismatch, SentIsUnderstood, Sending
  <1> QED
    BY <1>1, <1>2

-----------------------------------------------------------------------------
(***************************************************************************)
(* The sockets: the clients only do to them what UdpUse allows, so nothing *)
(* is left behind where a failing create can clean up.                     *)
(***************************************************************************)
LEMMA AccClientsUseSockets == AccInv /\ [AccNext]_accAllVars => UdpUse
  <1> SUFFICES ASSUME AccInv, AccNext,
                      ~UNCHANGED <<users, startups, owner, sock, held, pc, this>>
               PROVE  UdpUse
    BY DEF UdpUse, accAllVars, udpVars
  <1>1. CASE AccStep
    <2>1. CASE ReceiveReturns
      <3>1. call.socket \in held /\ call.client \in Clients
        BY <2>1, InCallFacts DEF ReceiveReturns, AtStep, InCall
      <3>2. inbox[call.client] \in Senders \cup {Server}
        BY <2>1, <3>1 DEF ReceiveReturns, AccInv, CallTypeOK
      <3> QED
        BY <2>1, <3>1, <3>2 DEF ReceiveReturns, UdpUse
    <2>2. CASE \/ CreateReturns \/ CreateFails \/ DestroyFails \/ DestroyFrees
               \/ Sends \/ SendReturns \/ ReceiveParses
      BY <2>2
      DEF CreateReturns, CreateFails, DestroyFails, DestroyFrees, Sends, UdpSocketSend,
          SendReturns, ReceiveParses, udpVars
    <2>3. CASE SendFails \/ ReceiveFails
      BY <2>3 DEF SendFails, UdpSocketSendFails, ReceiveFails, UdpSocketReceiveFails, udpVars
    <2> QED
      BY <1>1, <2>1, <2>2, <2>3 DEF AccStep, UdpUse
  <1>2. CASE AccCall
    <2>1. ASSUME NEW c \in Clients, AccClientCreate(c) PROVE UdpUse
      BY <2>1 DEF AccClientCreate, UdpUse
    <2>2. ASSUME NEW c \in app, AccClientDestroy(c) PROVE UdpUse
      <3>1. client[c].socket \in held
        BY <2>2, BegunCall DEF AccClientDestroy
      <3> QED
        BY <2>2, <3>1 DEF AccClientDestroy, UdpUse
    <2>3. CASE AccClientCreateNoMemory \/ AccNullClient \/ FreesResponse
      BY <2>3 DEF AccClientCreateNoMemory, UdpSocketCreateNoMemory, AccNullClient,
                  FreesResponse, udpVars
    <2>4. ASSUME NEW c, NEW r, \/ AccClientSend(c, r) \/ AccClientSendUnknown(c)
                               \/ AccClientSendNoMemory(c) \/ AccClientReceive(c)
          PROVE  FALSE
      BY <2>4 DEF AccClientSend, AccClientSendUnknown, AccClientSendNoMemory,
                  AccClientReceive, udpVars
    <2> QED
      BY <1>2, <2>1, <2>2, <2>3, <2>4 DEF AccCall
  <1>3. CASE AccNetwork
    BY <1>3 DEF AccNetwork, GameSends, StrangerSends, Arrives, udpVars
  <1> QED
    BY <1>1, <1>2, <1>3 DEF AccNext

-----------------------------------------------------------------------------
(***************************************************************************)
(* The response: whatever the clients do, it is left alone or goes on as   *)
(* AccReader says.                                                         *)
(***************************************************************************)
AtReader == <<response, parse>>

LEMMA DrivesReader ==
  ASSUME [AccNext]_accAllVars
  PROVE  ReaderNext \/ UNCHANGED AtReader
  <1> USE DEF AtReader
  <1>1. CASE UNCHANGED accAllVars
    BY <1>1 DEF accAllVars, readerVars
  <1>2. CASE AccStep
    <2>1. CASE UdpStep /\ UNCHANGED <<readerVars, accVars>>
      BY <2>1 DEF readerVars
    <2>2. CASE CreateReturns \/ DestroyFrees \/ Sends
      BY <2>2 DEF CreateReturns, DestroyFrees, Sends, readerVars
    <2>3. CASE CreateFails \/ DestroyFails \/ SendReturns \/ SendFails \/ ReceiveFails
      BY <2>3 DEF CreateFails, DestroyFails, SendReturns, SendFails, ReceiveFails, NoResponse
    <2>4. CASE ReceiveReturns
      BY <2>4 DEF ReceiveReturns, ReaderNext, ReaderCall
    <2>5. CASE ReceiveParses
      BY <2>5 DEF ReceiveParses, ReaderNext
    <2> QED
      BY <1>2, <2>1, <2>2, <2>3, <2>4, <2>5 DEF AccStep
  <1>3. CASE AccCall
    <2>1. ASSUME NEW c \in Clients, AccClientCreate(c) PROVE UNCHANGED AtReader
      BY <2>1 DEF AccClientCreate, readerVars
    <2>2. CASE AccClientCreateNoMemory \/ AccNullClient
      BY <2>2 DEF AccClientCreateNoMemory, AccNullClient, NoResponse
    <2>3. ASSUME NEW c \in app, NEW r \in Requests, AccClientSend(c, r) PROVE UNCHANGED AtReader
      BY <2>3 DEF AccClientSend, readerVars
    <2>4. ASSUME NEW c \in app, AccClientSendUnknown(c) \/ AccClientSendNoMemory(c)
          PROVE  UNCHANGED AtReader
      BY <2>4 DEF AccClientSendUnknown, AccClientSendNoMemory, NoResponse
    <2>5. ASSUME NEW c \in app, AccClientDestroy(c) \/ AccClientReceive(c)
          PROVE  UNCHANGED AtReader
      BY <2>5 DEF AccClientDestroy, AccClientReceive, readerVars
    <2>6. CASE FreesResponse
      BY <2>6 DEF FreesResponse, ReaderNext, ReaderCall
    <2> QED
      BY <1>3, <2>1, <2>2, <2>3, <2>4, <2>5, <2>6 DEF AccCall
  <1>4. CASE AccNetwork
    BY <1>4 DEF AccNetwork, GameSends, StrangerSends, Arrives, readerVars
  <1> QED
    BY <1>1, <1>2, <1>3, <1>4 DEF AccNext

LEMMA StepUnderClients ==
  ResponseInv /\ OverlongInv /\ [AccNext]_accAllVars => ResponseInv' /\ OverlongInv'
  <1> SUFFICES ASSUME ResponseInv, OverlongInv, [AccNext]_accAllVars
               PROVE  ResponseInv' /\ OverlongInv'
    OBVIOUS
  <1>1. CASE UNCHANGED AtReader
    BY <1>1 DEF AtReader, response, parse, ResponseInv, OverlongInv, Overlong
  <1> QED
    BY <1>1, DrivesReader, StepResponseInv, StepOverlongInv

-----------------------------------------------------------------------------
(***************************************************************************)
(* The theorems.                                                           *)
(***************************************************************************)
\* The strengthened invariant holds in every reachable state of the clients.
THEOREM AccInvariance == AccSpec => []AccInv
  BY AccInitInv, AccStepInv, PTL DEF AccSpec

\* What acc_client_send writes and sends is the request that was made.
THEOREM AccSendInvariance == AccSpec => [](AccInv /\ SendInv)
  <1>1. AccInit => AccInv /\ SendInv
    BY AccInitInv DEF AccInit, SendInv, NoCall, Sending
  <1>2. AccInv /\ SendInv /\ [AccNext]_accAllVars => (AccInv /\ SendInv)'
    BY AccStepInv, StepSendInv
  <1> QED
    BY <1>1, <1>2, PTL DEF AccSpec

\* Every variable of acc/client.c and udp_socket.c keeps its type.
THEOREM AccTypeCorrectness == AccSpec => []AccTypeOK
  <1>1. AccInv /\ SendInv => AccTypeOK
    BY FilledAndUnderstood DEF AccInv, AccTypeOK
  <1> QED
    BY <1>1, AccSendInvariance, PTL

\* Between calls every acc_client_t in memory, every socket and every buffer is
\* accounted for: no failing create, destroy or send loses or shares one, and no
\* udp_socket_t is left allocated that a failing create could have freed.
THEOREM AccNothingIsLost == AccSpec => []NothingIsLost
  <1>1. AccInit => LeakInv
    BY LeakInitInv DEF AccInit
  <1>2. AccInv /\ LeakInv /\ [AccNext]_accAllVars => LeakInv'
    BY AccClientsUseSockets, LeakStep DEF AccInv
  <1>3. AccInv /\ LeakInv => NothingIsLost
    <2> SUFFICES ASSUME AccInv, LeakInv, call = NoCall PROVE NothingIsLost
      BY DEF NothingIsLost
    <2>1. pc = "idle" /\ held = AppSockets /\ buffer = NoBuffer
      BY DEF AccInv, CallsInv, NoCall
    <2>2. CleansUp => Live = held \/ Wedged
      BY <2>1, LeakFree DEF AccInv, NoLeakUnlessWedged
    <2>3. LiveClients = app
      BY DEF AccInv, CallTypeOK, AppInv, LiveClients, NoCall
    <2> QED
      BY <2>1, <2>2, <2>3 DEF AccInv, AppInv, AppSockets, NothingIsLost
  <1> QED
    BY <1>1, <1>2, <1>3, AccInvariance, PTL DEF AccSpec

\* What acc_client_send writes fills its buffer exactly, whatever requests the
\* application makes.
THEOREM AccBufferIsFilled == AccSpec => []BufferIsFilled
  <1>1. AccInv /\ SendInv => BufferIsFilled
    BY FilledAndUnderstood
  <1> QED
    BY <1>1, AccSendInvariance, PTL

\* When sendto's count says that all of a request has left, a reader of the
\* datagram finds in it the request that was made: of any size, also one that
\* (int32_t) has cut.
THEOREM AccSentIsUnderstood == AccSpec => []SentIsUnderstood
  <1>1. AccInv /\ SendInv => SentIsUnderstood
    BY FilledAndUnderstood
  <1> QED
    BY <1>1, AccSendInvariance, PTL

\* Under the clients of acc/client.c the sockets and the parse keep what is
\* proved of them alone: no response comes from bytes that were not received.
THEOREM SocketsAndParseUnderClients == AccSpec => [](UdpInv /\ AcceptedIsReceived)
  <1>1. AccInv => UdpInv /\ AcceptedIsReceived
    BY DEF AccInv, ParseInv, AcceptedIsReceived
  <1> QED
    BY <1>1, AccInvariance, PTL

LEMMA ResponsesStay == AccSpec => [](ResponseInv /\ OverlongInv)
  <1>1. AccInit => ResponseInv /\ OverlongInv
    BY ResponseInvInit DEF AccInit, ReaderInit, NoSizes, OverlongInv, Overlong
  <1> QED
    BY <1>1, StepUnderClients, PTL DEF AccSpec

\* So do the responses: what one allocates is freed exactly, and it has but the
\* known members unassigned, whatever sockets and other clients do meanwhile.
THEOREM ResponsesUnderClients == AccSpec => [](FreeIsExact /\ UnassignedAreKnown)
  BY ResponsesStay, ResponseIsSound, PTL

\* And no parse under a client reads anything twice.
THEOREM NothingReadTwiceUnderClients == AccSpec => NothingIsReadTwice
  <1>1. AccInv => ParseInv
    BY DEF AccInv
  <1>2. ASSUME ParseInv, ResponseInv, [AccNext]_accAllVars
        PROVE  [receiving = "parse" /\ offset' > offset /\ ~Overlong =>
                Item.path \notin members]_readerVars
    <2>1. CASE ReaderNext
      BY <1>2, <2>1, StepReadsNew
    <2>2. CASE UNCHANGED AtReader
      BY <1>2, <2>2 DEF AtReader, parse, ParseInv
    <2> QED
      BY <1>2, <2>1, <2>2, DrivesReader
  <1> QED
    BY <1>1, <1>2, AccInvariance, ResponsesStay, PTL DEF AccSpec, NothingIsReadTwice

\* Nor does the acc_client_receive that reads an overlong entry list return.
THEOREM OverlongUnderClients == AccSpec => OverlongDoesNotReturn
  <1>1. ASSUME OverlongInv, [AccNext]_accAllVars
        PROVE  [receiving = "parse" /\ Overlong => receiving' # "idle"]_readerVars
    <2>1. CASE ReaderNext
      BY <1>1, <2>1, OverlongStays
    <2>2. CASE UNCHANGED AtReader
      BY <1>1, <2>2 DEF AtReader, parse
    <2> QED
      BY <2>1, <2>2, <1>1, DrivesReader
  <1> QED
    BY <1>1, ResponsesStay, PTL DEF AccSpec, OverlongDoesNotReturn
=============================================================================
