--------------------------- MODULE AcClientProofs ---------------------------
(***************************************************************************)
(* Proofs about AcClient, for any number of clients and sockets, any set   *)
(* of failing system calls and any senders.  What udp_socket.c guarantees  *)
(* is taken from UdpSocketProofs.                                          *)
(***************************************************************************)
EXTENDS AcClient, UdpSocketProofs

USE AcClientAssumption, UdpSocketAssumption DEF AcClientAssumption, UdpSocketAssumption

-----------------------------------------------------------------------------
(***************************************************************************)
(* The inductive invariant.                                                *)
(***************************************************************************)
AppSockets == {client[c].socket : c \in app}

\* The clients in the application's hands have a socket each, others have none.
AppInv ==
    /\ \A c \in app : client[c].mem = "live" /\ client[c].socket \in Sockets
    /\ \A c, d \in app : client[c].socket = client[d].socket => c = d
    /\ \A c \in Clients \ app : client[c].socket = NoSocket

\* Whom the call in progress is about, and which socket it is about to make or
\* to destroy.
CallsInv ==
    /\ call.op = "none" => call = NoCall
    /\ pc # "idle" => call.op \in {"create", "closing"}
    /\ call.op \notin {"create", "closing"} => held = AppSockets
    /\ call.op = "create" =>
        /\ call.client \in LiveClients \ app
        /\ call.socket \notin AppSockets
        /\ held \cup {call.socket} = AppSockets \cup {call.socket}
        /\ pc # "idle" => this = call.socket
    /\ call.op = "closing" =>
        /\ call.client \in app
        /\ held \cup {client[call.client].socket} = AppSockets
        /\ pc # "idle" => this = client[call.client].socket
    /\ call.op \in {"destroy", "close"} => call.client \in LiveClients
    /\ call.op = "receive" => call.client \in app /\ call.socket = client[call.client].socket

LostInv ==
    \A c \in LiveClients \ app :
        client[c].flag \/ (call.op \in {"create", "destroy", "close"} /\ c = call.client)

\* A destroy frees a client only when its flag holds no session.
SessionInv ==
    /\ SessionIsRemembered
    /\ call.op \in {"close", "closing"} => ~client[call.client].flag

AcInv == UdpInv /\ AcTypeOK /\ AppInv /\ CallsInv /\ LostInv /\ SessionInv

LEMMA AcInitInv == AcInit => AcInv
  <1> SUFFICES ASSUME AcInit PROVE AcInv
    OBVIOUS
  <1>1. UdpInv
    BY InitInv DEF AcInit
  <1>2. held = {} /\ pc = "idle"
    BY DEF AcInit, UdpInit
  <1>3. AcTypeOK
    BY <1>1 DEF AcInit, AcTypeOK, UdpInv, UnallocatedClient, ClientObject, NoCall
  <1>4. AppInv /\ CallsInv /\ LostInv /\ SessionInv
    BY <1>2
    DEF AcInit, AppInv, CallsInv, LostInv, SessionInv, SessionIsRemembered, AppSockets,
        LiveClients, UnallocatedClient, NoCall
  <1> QED
    BY <1>1, <1>3, <1>4 DEF AcInv

-----------------------------------------------------------------------------
(***************************************************************************)
(* Steps of the socket under a client.                                     *)
(***************************************************************************)
LEMMA SocketStep == ASSUME AcInv, UdpStep, UNCHANGED acVars PROVE AcInv'
  <1> USE DEF acVars
  <1>1. /\ UdpInv' /\ pc # "idle" /\ this \in Sockets
        /\ pc' # "idle" => this' = this /\ held' = held
        /\ held' \cup {this} = held \cup {this}
        /\ \A s \in Sockets : sock'[s].peer \in {sock[s].peer, Server}
    BY UdpStepEffect DEF AcInv
  <1>2. AcTypeOK' /\ AppInv' /\ LostInv'
    BY <1>1 DEF AcInv, AcTypeOK, AppInv, LostInv, LiveClients, UdpInv
  <1>3. CallsInv'
    <2>1. AppSockets' = AppSockets
      BY DEF AppSockets
    <2>2. CASE call.op = "create"
      BY <1>1, <2>1, <2>2 DEF AcInv, CallsInv, LiveClients
    <2>3. CASE call.op = "closing"
      <3>1. this = client[call.client].socket /\ held \cup {this} = AppSockets
        BY <1>1, <2>3 DEF AcInv, CallsInv
      <3> QED
        BY <1>1, <2>1, <2>3, <3>1 DEF AcInv, CallsInv
    <2> QED
      BY <1>1, <2>2, <2>3 DEF AcInv, CallsInv
  <1>4. SessionInv'
    BY DEF AcInv, SessionInv, SessionIsRemembered
  <1> QED
    BY <1>1, <1>2, <1>3, <1>4 DEF AcInv

\* A call that makes no socket call.
LEMMA SocketsKept == ASSUME UdpInv, UNCHANGED udpVars PROVE UdpInv'
  BY StepInv

\* A socket call that only reports an error.
LEMMA SocketError ==
  ASSUME UdpInv, pc = "idle", UNCHANGED <<users, startups, owner, sock, held, pc, this>>,
         lastError' \in {lastError, "null"} \cup SysCalls
  PROVE  UdpInv' /\ lastError' \in Statuses \cup SysCalls \cup {"none", "null"}
  BY ErrorInv DEF UdpInv, TypeOK

\* What the invariant says of the application's sockets.
LEMMA AppFacts ==
  ASSUME AcInv
  PROVE  /\ AppSockets \subseteq Sockets /\ NoSocket \notin AppSockets
         /\ app \subseteq LiveClients /\ LiveClients \subseteq Clients
         /\ held \subseteq Sockets
         /\ \A c \in LiveClients : client[c].socket # NoSocket => c \in app
         /\ \A c \in app : client[c].socket \in AppSockets
  BY DEF AcInv, AcTypeOK, AppInv, AppSockets, LiveClients, TypeOK

-----------------------------------------------------------------------------
(***************************************************************************)
(* ac_client_create.                                                       *)
(***************************************************************************)
LEMMA CreateStep == ASSUME AcInv, NEW c \in Clients, AcClientCreate(c) PROVE AcInv'
  <1>1. /\ call = NoCall /\ client[c].mem = "free" /\ c \notin app
        /\ held = AppSockets /\ pc = "idle"
    BY AppFacts DEF AcClientCreate, AcInv, CallsInv, NoCall, LiveClients
  <1>2. PICK garbage \in BOOLEAN :
          client' = [client EXCEPT ![c] = [mem |-> "live", socket |-> NoSocket, flag |-> garbage]]
    BY DEF AcClientCreate
  <1>3. /\ told' = [told EXCEPT ![c] = {}] /\ unheard' = unheard \ {c}
        /\ app' = app /\ acLastError' = acLastError /\ inbox' = inbox
    BY DEF AcClientCreate
  <1>4. /\ client' \in [Clients -> ClientObject]
        /\ client'[c] = [mem |-> "live", socket |-> NoSocket, flag |-> garbage]
        /\ \A d \in Clients : d # c => client'[d] = client[d]
        /\ told' \in [Clients -> SUBSET Operations] /\ told'[c] = {}
        /\ \A d \in Clients : d # c => told'[d] = told[d]
    BY <1>2, <1>3 DEF AcInv, AcTypeOK, ClientObject
  <1>5. AppInv' /\ AppSockets' = AppSockets /\ c \in (LiveClients \ app)'
    BY <1>1, <1>3, <1>4 DEF AcInv, AcTypeOK, AppInv, AppSockets, LiveClients
  <1>6. ASSUME call' = [op |-> "create", client |-> c, socket |-> call'.socket]
        PROVE  LostInv' /\ SessionIsRemembered'
    BY <1>3, <1>4, <1>6, <1>1
    DEF AcInv, AcTypeOK, LostInv, SessionInv, SessionIsRemembered, LiveClients, NoCall
  <1>7. ASSUME NEW s \in Sockets, UdpSocketCreate(s),
               call' = [op |-> "create", client |-> c, socket |-> s]
        PROVE  AcInv'
    <2>1. UdpInv' /\ TypeOK'
      BY <1>7, CreateInv DEF AcInv, UdpInv
    <2>2. /\ sock[s].mem = "free" /\ sock'[s] = Fresh /\ Others(s)
          /\ held' = held /\ this' = s
      BY <1>7, SetFresh DEF UdpSocketCreate, AcInv, UdpInv
    <2>3. s \notin held
      BY <2>2 DEF AcInv, UdpInv, ObjectInv, Unallocated
    <2>4. AcTypeOK'
      BY <1>3, <1>4, <1>7, <2>1 DEF AcInv, AcTypeOK
    <2>5. CallsInv'
      BY <1>1, <1>5, <1>7, <2>2, <2>3 DEF CallsInv, NoCall
    <2> QED
      BY <1>5, <1>6, <1>7, <2>1, <2>4, <2>5 DEF AcInv, SessionInv
  <1>8. ASSUME UdpSocketCreateNoMemory,
               call' = [op |-> "create", client |-> c, socket |-> NoSocket]
        PROVE  AcInv'
    <2>1. UdpInv' /\ TypeOK' /\ sock' = sock /\ held' = held /\ pc' = pc
      BY <1>8, ErrorInv DEF AcInv, UdpInv, UdpSocketCreateNoMemory, Fail, SysCalls
    <2>2. AcTypeOK'
      BY <1>3, <1>4, <1>8, <2>1 DEF AcInv, AcTypeOK
    <2>3. CallsInv'
      BY <1>1, <1>5, <1>8, <2>1, AppFacts DEF CallsInv
    <2> QED
      BY <1>5, <1>6, <1>8, <2>1, <2>2, <2>3 DEF AcInv, SessionInv
  <1> QED
    BY <1>7, <1>8 DEF AcClientCreate

LEMMA CreateNoMemoryStep == ASSUME AcInv, AcClientCreateNoMemory PROVE AcInv'
  <1>1. UdpInv'
    BY SocketsKept DEF AcClientCreateNoMemory, AcInv
  <1> QED
    BY <1>1
    DEF AcClientCreateNoMemory, udpVars, AcInv, UdpInv, AcTypeOK, AppInv, AppSockets, CallsInv,
        LostInv, SessionInv, SessionIsRemembered, LiveClients, Statuses

LEMMA CreateReturnsStep == ASSUME AcInv, CreateReturns PROVE AcInv'
  <1> DEFINE c == call.client
  <1>1. /\ c \in LiveClients \ app /\ call.socket \in Sockets /\ call.socket \notin AppSockets
        /\ held = AppSockets \cup {call.socket} /\ pc = "idle"
    BY AppFacts DEF CreateReturns, At, AcInv, CallsInv, SessionInv
  <1>2. /\ client' = [client EXCEPT ![c].socket = call.socket]
        /\ app' = app \cup {c} /\ call' = NoCall /\ UNCHANGED udpVars
        /\ acLastError' = acLastError /\ told' = told /\ inbox' = inbox /\ unheard' = unheard
    BY DEF CreateReturns, AcReturn
  <1>3. c \in Clients /\ sock' = sock /\ held' = held /\ pc' = pc
    BY <1>1, <1>2 DEF LiveClients, udpVars
  <1>4. /\ client' \in [Clients -> ClientObject]
        /\ client'[c].socket = call.socket
        /\ \A d \in Clients : d # c => client'[d] = client[d]
        /\ \A d \in Clients : client'[d].mem = client[d].mem /\ client'[d].flag = client[d].flag
    BY <1>1, <1>2, <1>3 DEF AcInv, AcTypeOK, ClientObject
  <1>5. UdpInv' /\ AcTypeOK'
    BY <1>2, <1>3, <1>4, SocketsKept DEF AcInv, AcTypeOK, UdpInv, NoCall
  <1>6. AppInv'
    BY <1>1, <1>2, <1>3, <1>4, AppFacts DEF AcInv, AppInv, AcTypeOK, LiveClients
  <1>7. AppSockets' = AppSockets \cup {call.socket}
    BY <1>1, <1>2, <1>3, <1>4 DEF AppSockets, AcInv, AcTypeOK
  <1>8. CallsInv' /\ LostInv'
    BY <1>1, <1>2, <1>3, <1>4, <1>7 DEF CallsInv, LostInv, AcInv, NoCall, LiveClients
  <1>9. SessionInv'
    BY <1>1, <1>2, <1>3, <1>4, AppFacts
    DEF SessionInv, SessionIsRemembered, AcInv, NoCall, LiveClients
  <1> QED
    BY <1>5, <1>6, <1>8, <1>9 DEF AcInv

LEMMA CreateFailsStep == ASSUME AcInv, CreateFails PROVE AcInv'
  <1>1. /\ call.client \in LiveClients \ app /\ held = AppSockets /\ pc = "idle"
        /\ call.op = "create" /\ call' = [call EXCEPT !.op = "destroy"]
    <2>1. /\ call.op = "create" /\ pc = "idle" /\ call.socket \notin held
          /\ call' = [call EXCEPT !.op = "destroy"]
      BY DEF CreateFails, At, Continue
    <2>2. /\ call.client \in LiveClients \ app /\ call.socket \notin AppSockets
          /\ held \cup {call.socket} = AppSockets \cup {call.socket}
      BY <2>1 DEF AcInv, CallsInv
    <2>3. ASSUME NEW s PROVE s \in held <=> s \in AppSockets
      BY <2>1, <2>2
    <2>4. held = AppSockets
      BY <2>3
    <2> QED
      BY <2>1, <2>2, <2>4
  <1>2. /\ UNCHANGED udpVars /\ sock' = sock /\ held' = held /\ pc' = pc
        /\ acLastError' = lastError /\ client' = client /\ app' = app
        /\ told' = told /\ inbox' = inbox /\ unheard' = unheard
    BY DEF CreateFails, udpVars
  <1>3. call'.op = "destroy" /\ call'.client = call.client /\ call'.socket = call.socket
    BY <1>1 DEF AcInv, AcTypeOK
  <1>4. UdpInv' /\ AcTypeOK'
    BY <1>1, <1>2, SocketsKept DEF AcInv, AcTypeOK, UdpInv, TypeOK
  <1>5. AppInv' /\ AppSockets' = AppSockets /\ LiveClients' = LiveClients
    BY <1>2 DEF AcInv, AppInv, AppSockets, LiveClients
  <1>6. CallsInv' /\ LostInv' /\ SessionInv'
    BY <1>1, <1>2, <1>3, <1>5
    DEF CallsInv, LostInv, SessionInv, SessionIsRemembered, AcInv
  <1> QED
    BY <1>4, <1>5, <1>6 DEF AcInv

-----------------------------------------------------------------------------
(***************************************************************************)
(* ac_client_send, called by the application or by ac_client_destroy.      *)
(***************************************************************************)
LEMMA SetFlag ==
  ASSUME client \in [Clients -> ClientObject], NEW c \in Clients, NEW f \in BOOLEAN,
         client' = [client EXCEPT ![c].flag = f]
  PROVE  /\ client' \in [Clients -> ClientObject]
         /\ \A d \in Clients \ {c} : client'[d] = client[d]
         /\ client'[c].mem = client[c].mem /\ client'[c].socket = client[c].socket
         /\ client'[c].flag = f
  BY DEF ClientObject

\* What the game has heard through client c is on record, whether it was the
\* dismiss of a destroy or a call of the application's.
LEMMA SendsEffect ==
  ASSUME AcInv, NEW c \in app, NEW op \in Operations, Sends(c, op), app' = app
  PROVE  /\ UdpInv' /\ AppInv' /\ AppSockets' = AppSockets /\ LiveClients' = LiveClients
         /\ client' \in [Clients -> ClientObject] /\ told' \in [Clients -> SUBSET Operations]
         /\ unheard' \subseteq Clients
         /\ \A d \in Clients : client'[d].socket = client[d].socket
         /\ \A d \in Clients \ {c} : client'[d].flag = client[d].flag
         /\ SessionIsRemembered'
         /\ op = "DISMISS" => ~client'[c].flag
  <1>1. c \in Clients /\ client[c].mem = "live"
    BY DEF AcInv, AcTypeOK, AppInv
  <1>2. /\ client' = [client EXCEPT ![c].flag = op # "DISMISS"]
        /\ Delivered(c, op) \/ Undelivered(c, op)
        /\ UNCHANGED udpVars
    BY DEF Sends, UdpSocketSend
  <1>3. /\ client' \in [Clients -> ClientObject]
        /\ \A d \in Clients \ {c} : client'[d] = client[d]
        /\ client'[c].mem = client[c].mem /\ client'[c].socket = client[c].socket
        /\ client'[c].flag <=> op # "DISMISS"
    <2>1. CASE op = "DISMISS"
      <3>1. client' = [client EXCEPT ![c].flag = FALSE]
        BY <1>2, <2>1
      <3> QED
        BY <1>1, <2>1, <3>1, SetFlag DEF AcInv, AcTypeOK
    <2>2. CASE op # "DISMISS"
      <3>1. client' = [client EXCEPT ![c].flag = TRUE]
        BY <1>2, <2>2
      <3> QED
        BY <1>1, <2>2, <3>1, SetFlag DEF AcInv, AcTypeOK
    <2> QED
      BY <2>1, <2>2
  <1>4. /\ told' \in [Clients -> SUBSET Operations] /\ unheard' \subseteq Clients
        /\ \A d \in Clients \ {c} : told'[d] = told[d] /\ (d \in unheard' <=> d \in unheard)
        /\ op = "DISMISS" /\ told'[c] # {} => c \in unheard'
    BY <1>1, <1>2 DEF Delivered, Undelivered, AcInv, AcTypeOK
  <1>5. AppInv' /\ AppSockets' = AppSockets /\ LiveClients' = LiveClients
    BY <1>1, <1>3 DEF AcInv, AcTypeOK, AppInv, AppSockets, LiveClients
  <1>6. ASSUME NEW d \in Clients, told'[d] # {}
        PROVE  (client'[d].mem = "live" /\ client'[d].flag) \/ d \in unheard'
    <2>1. CASE d = c
      BY <1>1, <1>3, <1>4, <1>6, <2>1
    <2>2. CASE d # c
      BY <1>3, <1>4, <1>6, <2>2 DEF AcInv, SessionInv, SessionIsRemembered
    <2> QED
      BY <2>1, <2>2
  <1>7. UdpInv'
    BY <1>2, SocketsKept DEF AcInv
  <1> QED
    BY <1>1, <1>3, <1>4, <1>5, <1>6, <1>7 DEF SessionIsRemembered

\* A send that fails changes nothing but the two error codes.
LEMMA SendFailsEffect ==
  ASSUME AcInv, NEW c \in Clients, NEW op \in Operations, SendFails(c, op), pc = "idle"
  PROVE  /\ UdpInv' /\ client' = client /\ told' = told /\ unheard' = unheard
         /\ sock' = sock /\ held' = held /\ pc' = pc /\ this' = this
         /\ acLastError' \in Statuses \cup SysCalls \cup {"none", "null"}
         /\ client[c].flag \/ op = "HANDSHAKE"
  <1>1. /\ UNCHANGED <<users, startups, owner, sock, held, pc, this>>
        /\ lastError' \in {"sendto", "null"} /\ acLastError' = lastError'
    BY DEF SendFails, UdpSocketSendFails, UdpSocketSendNull, Fail
  <1>2. lastError' \in {lastError, "null"} \cup SysCalls
    BY <1>1 DEF SysCalls
  <1> QED
    BY <1>1, <1>2, SocketError DEF SendFails, SendAllowed, AcInv

LEMMA SendStep ==
  ASSUME AcInv, NEW c \in app, NEW op \in Operations, AcClientSend(c, op)
  PROVE  AcInv'
  <1>1. /\ call = NoCall /\ pc = "idle" /\ held = AppSockets /\ c \in Clients
        /\ app' = app /\ call' = call /\ inbox' = inbox
    BY AppFacts DEF AcClientSend, AtCall, AcInv, CallsInv, NoCall, AcTypeOK
  <1>2. CASE Sends(c, op)
    <2>1. /\ UNCHANGED udpVars /\ held' = held /\ pc' = pc /\ acLastError' = acLastError
      BY <1>2 DEF Sends, UdpSocketSend, udpVars
    <2>2. AcTypeOK'
      BY <1>1, <1>2, <2>1, SendsEffect DEF AcInv, AcTypeOK, UdpInv
    <2>3. CallsInv' /\ LostInv'
      BY <1>1, <1>2, <2>1, SendsEffect, AppFacts DEF AcInv, CallsInv, LostInv, NoCall
    <2>4. SessionInv'
      BY <1>1, <1>2, SendsEffect DEF SessionInv, NoCall
    <2> QED
      BY <1>1, <1>2, <2>2, <2>3, <2>4, SendsEffect DEF AcInv
  <1>3. CASE SendFails(c, op)
    <2>1. AcTypeOK' /\ UdpInv'
      BY <1>1, <1>3, SendFailsEffect DEF AcInv, AcTypeOK, UdpInv
    <2>2. AppInv' /\ AppSockets' = AppSockets /\ LiveClients' = LiveClients
      BY <1>1, <1>3, SendFailsEffect DEF AcInv, AppInv, AppSockets, LiveClients
    <2>3. CallsInv' /\ LostInv' /\ SessionInv'
      BY <1>1, <1>3, <2>2, SendFailsEffect
      DEF AcInv, CallsInv, LostInv, SessionInv, SessionIsRemembered, NoCall
    <2> QED
      BY <2>1, <2>2, <2>3 DEF AcInv
  <1> QED
    BY <1>2, <1>3 DEF AcClientSend

\* A call that is refused, and one that does nothing but begin.
LEMMA RefusedStep ==
  ASSUME AcInv, UNCHANGED <<udpVars, client, app, call, told, inbox, unheard>>,
         acLastError' \in Statuses \cup SysCalls \cup {"none", "null"}
  PROVE  AcInv'
  <1>1. UdpInv'
    BY SocketsKept DEF AcInv
  <1> QED
    BY <1>1
    DEF udpVars, AcInv, UdpInv, AcTypeOK, AppInv, AppSockets, CallsInv, LostInv, SessionInv,
        SessionIsRemembered, LiveClients

LEMMA BeginStep ==
  ASSUME AcInv, NEW c \in app, NEW op \in {"destroy", "receive"}, AtCall(c),
         call' = [op |-> op, client |-> c, socket |-> client[c].socket],
         UNCHANGED <<udpVars, client, app, acLastError, told, inbox, unheard>>
  PROVE  AcInv'
  <1>1. call = NoCall /\ pc = "idle" /\ held = AppSockets /\ c \in Clients /\ c \in LiveClients
    BY AppFacts DEF AtCall, AcInv, CallsInv, NoCall, AcTypeOK
  <1>2. UdpInv' /\ sock' = sock /\ held' = held /\ pc' = pc
    BY SocketsKept DEF AcInv, udpVars
  <1>3. AcTypeOK'
    BY <1>1, <1>2 DEF AcInv, AcTypeOK, UdpInv, ClientObject
  <1>4. AppInv' /\ AppSockets' = AppSockets /\ LiveClients' = LiveClients
    BY DEF AcInv, AppInv, AppSockets, LiveClients
  <1>5. CallsInv' /\ LostInv' /\ SessionInv'
    BY <1>1, <1>2, <1>4
    DEF AcInv, CallsInv, LostInv, SessionInv, SessionIsRemembered, NoCall
  <1> QED
    BY <1>2, <1>3, <1>4, <1>5 DEF AcInv

-----------------------------------------------------------------------------
(***************************************************************************)
(* ac_client_destroy.                                                      *)
(***************************************************************************)
\* The call goes on at another of its steps, or returns, and nothing moves
\* but an error code.
LEMMA MovesOn ==
  ASSUME AcInv, UNCHANGED udpVars, client' = client, app' = app, told' = told, inbox' = inbox,
         unheard' = unheard, acLastError' \in {acLastError, lastError}
  PROVE  /\ UdpInv' /\ sock' = sock /\ held' = held /\ pc' = pc /\ this' = this
         /\ AppInv' /\ AppSockets' = AppSockets /\ LiveClients' = LiveClients
         /\ acLastError' \in Statuses \cup SysCalls \cup {"none", "null"}
         /\ SessionIsRemembered'
  <1>1. UdpInv' /\ sock' = sock /\ held' = held /\ pc' = pc /\ this' = this
    BY SocketsKept DEF AcInv, udpVars
  <1>2. acLastError' \in Statuses \cup SysCalls \cup {"none", "null"}
    BY DEF AcInv, AcTypeOK, UdpInv, TypeOK
  <1>3. AppInv' /\ AppSockets' = AppSockets /\ LiveClients' = LiveClients
    BY DEF AcInv, AppInv, AppSockets, LiveClients
  <1>4. SessionIsRemembered'
    BY DEF AcInv, SessionInv, SessionIsRemembered
  <1> QED
    BY <1>1, <1>2, <1>3, <1>4

LEMMA DestroyDismissesStep == ASSUME AcInv, DestroyDismisses PROVE AcInv'
  <1> DEFINE c == call.client
  <1>1. /\ call.op = "destroy" /\ pc = "idle" /\ client[c].flag /\ c \in LiveClients
        /\ c \in Clients /\ held = AppSockets /\ app' = app /\ inbox' = inbox
    BY AppFacts DEF DestroyDismisses, At, AcInv, CallsInv
  <1>2. CASE Sends(c, "DISMISS") /\ Continue("close")
    <2>1. c \in app
      BY <1>1, <1>2, AppFacts DEF Sends
    <2>2. /\ call'.op = "close" /\ call'.client = c /\ call'.socket = call.socket
          /\ call' \in [op : {"close"}, client : Clients \cup {NoClient},
                        socket : Sockets \cup {NoSocket}]
      BY <1>2 DEF Continue, AcInv, AcTypeOK
    <2>3. /\ held' = held /\ pc' = pc /\ acLastError' = acLastError
      BY <1>2 DEF Sends, UdpSocketSend, udpVars
    <2>4. /\ UdpInv' /\ AppInv' /\ AppSockets' = AppSockets /\ LiveClients' = LiveClients
          /\ client' \in [Clients -> ClientObject] /\ told' \in [Clients -> SUBSET Operations]
          /\ unheard' \subseteq Clients
          /\ \A d \in Clients \ {c} : client'[d].flag = client[d].flag
          /\ SessionIsRemembered' /\ ~client'[c].flag
      <3>1. "DISMISS" \in Operations
        BY DEF Operations
      <3> HIDE DEF c
      <3> QED
        BY <1>1, <1>2, <2>1, <3>1, SendsEffect
    <2>5. AcTypeOK'
      BY <1>1, <2>2, <2>3, <2>4 DEF AcInv, AcTypeOK, UdpInv
    <2>6. CallsInv'
      BY <1>1, <2>2, <2>3, <2>4 DEF CallsInv, NoCall
    <2>7. LostInv'
      BY <1>1, <2>1, <2>4, AppFacts DEF AcInv, LostInv
    <2>8. SessionInv'
      BY <1>1, <2>2, <2>4 DEF SessionInv
    <2> QED
      BY <2>4, <2>5, <2>6, <2>7, <2>8 DEF AcInv
  <1>3. CASE SendFails(c, "DISMISS") /\ AcReturn
    <2>1. /\ UdpInv' /\ client' = client /\ told' = told /\ unheard' = unheard
          /\ sock' = sock /\ held' = held /\ pc' = pc /\ this' = this
          /\ acLastError' \in Statuses \cup SysCalls \cup {"none", "null"}
      <3>1. "DISMISS" \in Operations
        BY DEF Operations
      <3> HIDE DEF c
      <3> QED
        BY <1>1, <1>3, <3>1, SendFailsEffect
    <2>2. call' = NoCall
      BY <1>3 DEF AcReturn
    <2>3. AcTypeOK'
      BY <1>1, <2>1, <2>2 DEF AcInv, AcTypeOK, UdpInv, NoCall
    <2>4. AppInv' /\ AppSockets' = AppSockets /\ LiveClients' = LiveClients
      BY <1>1, <2>1 DEF AcInv, AppInv, AppSockets, LiveClients
    <2>5. CallsInv' /\ LostInv' /\ SessionInv'
      BY <1>1, <2>1, <2>2, <2>4
      DEF AcInv, CallsInv, LostInv, SessionInv, SessionIsRemembered, NoCall
    <2> QED
      BY <2>1, <2>3, <2>4, <2>5 DEF AcInv
  <1> QED
    BY <1>2, <1>3 DEF DestroyDismisses

LEMMA DestroySkipsDismissStep == ASSUME AcInv, DestroySkipsDismiss PROVE AcInv'
  <1>1. /\ call.op = "destroy" /\ pc = "idle" /\ ~client[call.client].flag
        /\ call.client \in LiveClients /\ call.client \in Clients /\ held = AppSockets
        /\ client[call.client].mem = "live"
    BY AppFacts DEF DestroySkipsDismiss, At, AcInv, CallsInv, LiveClients
  <1>2. /\ UNCHANGED udpVars /\ client' = client /\ app' = app /\ told' = told
        /\ inbox' = inbox /\ unheard' = unheard /\ acLastError' = acLastError
    BY DEF DestroySkipsDismiss
  <1>3. /\ call'.op = "close" /\ call'.client = call.client
        /\ call' \in [op : {"close"}, client : Clients \cup {NoClient},
                      socket : Sockets \cup {NoSocket}]
    BY DEF DestroySkipsDismiss, Continue, AcInv, AcTypeOK
  <1>4. AcTypeOK'
    BY <1>2, <1>3, MovesOn DEF AcInv, AcTypeOK, UdpInv
  <1>5. CallsInv'
    BY <1>1, <1>2, <1>3, MovesOn DEF CallsInv, NoCall
  <1>6. LostInv'
    BY <1>1, <1>2, <1>3, MovesOn DEF AcInv, LostInv
  <1>7. SessionInv'
    BY <1>1, <1>2, <1>3, MovesOn DEF AcInv, SessionInv, SessionIsRemembered
  <1> QED
    BY <1>2, <1>4, <1>5, <1>6, <1>7, MovesOn DEF AcInv

LEMMA DestroyClosesSocketStep == ASSUME AcInv, DestroyClosesSocket PROVE AcInv'
  <1> DEFINE c == call.client
  <1>1. /\ call.op = "close" /\ pc = "idle" /\ c \in app /\ held = AppSockets
        /\ client[c].socket \in held
    BY AppFacts DEF DestroyClosesSocket, At, AcInv, CallsInv
  <1>2. UdpSocketDestroy(client[c].socket)
    BY DEF DestroyClosesSocket
  <1>3. UdpInv'
    BY <1>1, <1>2, StepInv DEF UdpNext, UdpCall, AcInv
  <1>4. /\ sock' = sock /\ held' = held /\ pc' = "close" /\ this' = client[c].socket
        /\ client' = client /\ app' = app /\ told' = told
        /\ inbox' = inbox /\ unheard' = unheard /\ acLastError' = acLastError
    BY <1>2 DEF UdpSocketDestroy, DestroyClosesSocket
  <1>5. /\ call'.op = "closing" /\ call'.client = c
        /\ call' \in [op : {"closing"}, client : Clients \cup {NoClient},
                      socket : Sockets \cup {NoSocket}]
    BY DEF DestroyClosesSocket, Continue, AcInv, AcTypeOK
  <1>6. AcTypeOK'
    BY <1>3, <1>4, <1>5 DEF AcInv, AcTypeOK, UdpInv
  <1>7. AppInv' /\ AppSockets' = AppSockets /\ LiveClients' = LiveClients
    BY <1>4 DEF AcInv, AppInv, AppSockets, LiveClients
  <1>8. CallsInv'
    BY <1>1, <1>4, <1>5, <1>7 DEF CallsInv, NoCall
  <1>9. LostInv' /\ SessionInv'
    BY <1>1, <1>4, <1>5, <1>7 DEF AcInv, LostInv, SessionInv, SessionIsRemembered
  <1> QED
    BY <1>3, <1>6, <1>7, <1>8, <1>9 DEF AcInv

LEMMA DestroyFailsStep == ASSUME AcInv, DestroyFails PROVE AcInv'
  <1>1. /\ call.op = "closing" /\ pc = "idle" /\ call.client \in app
        /\ client[call.client].socket \in held
        /\ held \cup {client[call.client].socket} = AppSockets
    BY DEF DestroyFails, At, AcInv, CallsInv
  <1>2. /\ UNCHANGED udpVars /\ client' = client /\ app' = app /\ told' = told
        /\ inbox' = inbox /\ unheard' = unheard /\ acLastError' = lastError /\ call' = NoCall
    BY DEF DestroyFails, AcReturn
  <1>3. held = AppSockets
    BY <1>1
  <1>4. AcTypeOK'
    BY <1>2, MovesOn DEF AcInv, AcTypeOK, UdpInv, NoCall
  <1>5. CallsInv' /\ LostInv' /\ SessionInv'
    BY <1>1, <1>2, <1>3, MovesOn DEF AcInv, CallsInv, LostInv, SessionInv, NoCall
  <1> QED
    BY <1>2, <1>4, <1>5, MovesOn DEF AcInv

LEMMA DestroyFreesStep == ASSUME AcInv, DestroyFrees PROVE AcInv'
  <1> DEFINE c == call.client
  <1>1. /\ call.op \in {"close", "closing"} /\ pc = "idle" /\ c \in Clients
        /\ held = {client[d].socket : d \in app \ {c}}
    <2>1. CASE At("closing") /\ client[c].socket \notin held
      <3>1. /\ call.op = "closing" /\ pc = "idle" /\ c \in app /\ c \in Clients
            /\ held \cup {client[c].socket} = AppSockets
            /\ \A d \in app : client[d].socket = client[c].socket => d = c
        BY <2>1 DEF At, AcInv, CallsInv, AppInv, AcTypeOK
      <3>2. held = AppSockets \ {client[c].socket}
        BY <2>1, <3>1
      <3>3. AppSockets \ {client[c].socket} = {client[d].socket : d \in app \ {c}}
        BY <3>1 DEF AppSockets
      <3> QED
        BY <3>1, <3>2, <3>3
    <2>2. CASE At("close") /\ client[c].socket = NoSocket
      <3>1. /\ call.op = "close" /\ pc = "idle" /\ c \in Clients /\ c \notin app
            /\ held = AppSockets
        BY <2>2, AppFacts DEF At, AcInv, CallsInv, AppInv
      <3> QED
        BY <3>1 DEF AppSockets
    <2> QED
      BY <2>1, <2>2 DEF DestroyFrees
  <1>2. /\ client' = [client EXCEPT ![c] = UnallocatedClient]
        /\ app' = app \ {c} /\ inbox' = [inbox EXCEPT ![c] = {}] /\ call' = NoCall
        /\ UNCHANGED udpVars /\ acLastError' = acLastError /\ told' = told /\ unheard' = unheard
    BY DEF DestroyFrees, AcReturn
  <1>3. UdpInv' /\ sock' = sock /\ held' = held /\ pc' = pc
    BY <1>2, SocketsKept DEF AcInv, udpVars
  <1>4. /\ client' \in [Clients -> ClientObject] /\ client'[c] = UnallocatedClient
        /\ \A d \in Clients \ {c} : client'[d] = client[d]
        /\ inbox' \in [Clients -> SUBSET Datagrams]
    BY <1>1, <1>2 DEF AcInv, AcTypeOK, ClientObject, UnallocatedClient
  <1>5. AcTypeOK'
    BY <1>2, <1>3, <1>4 DEF AcInv, AcTypeOK, UdpInv, NoCall
  <1>6. AppInv'
    BY <1>1, <1>2, <1>4 DEF AcInv, AppInv, AcTypeOK, UnallocatedClient
  <1>7. held' = AppSockets'
    <2>1. {client[d].socket : d \in app \ {c}} = AppSockets'
      BY <1>2, <1>4 DEF AppSockets, AcInv, AcTypeOK
    <2> QED
      BY <1>1, <1>3, <2>1
  <1>8. CallsInv'
    BY <1>1, <1>2, <1>3, <1>7 DEF CallsInv, NoCall
  <1>9. LostInv'
    BY <1>1, <1>2, <1>4 DEF AcInv, LostInv, LiveClients, UnallocatedClient
  <1>10. SessionInv'
    BY <1>1, <1>2, <1>3, <1>4
    DEF AcInv, AcTypeOK, SessionInv, SessionIsRemembered, NoCall
  <1> QED
    BY <1>3, <1>5, <1>6, <1>8, <1>9, <1>10 DEF AcInv

-----------------------------------------------------------------------------
(***************************************************************************)
(* ac_client_receive, and the network.                                     *)
(***************************************************************************)
LEMMA ReceiveReturnsStep == ASSUME AcInv, ReceiveReturns PROVE AcInv'
  <1> DEFINE c == call.client
             s == call.socket
  <1>1. /\ call.op = "receive" /\ pc = "idle" /\ c \in app /\ c \in Clients
        /\ s = client[c].socket /\ held = AppSockets /\ s \in held /\ s \in Sockets
    BY AppFacts DEF ReceiveReturns, At, AcInv, CallsInv, AcTypeOK
  <1>2. PICK d \in inbox[c] :
          /\ UdpSocketReceive(s, d.from)
          /\ inbox' = [inbox EXCEPT ![c] = @ \ {d}]
          /\ SetResponse(d.kind)
    BY DEF ReceiveReturns
  <1>3. /\ client' = client /\ app' = app /\ told' = told /\ unheard' = unheard
        /\ call' = NoCall
    BY DEF ReceiveReturns, AcReturn
  <1>4. d.from \in Senders \cup {Server}
    BY <1>1, <1>2 DEF AcInv, AcTypeOK, Datagrams
  <1>5. UdpInv'
    <2> HIDE DEF s
    <2> QED
      BY <1>1, <1>2, <1>4, ReceiveInv DEF AcInv
  <1>6. held' = held /\ pc' = pc
    BY <1>2 DEF UdpSocketReceive
  <1>7. AcTypeOK'
    <2>1. inbox' \in [Clients -> SUBSET Datagrams]
      BY <1>1, <1>2 DEF AcInv, AcTypeOK
    <2>2. acLastError' \in Statuses \cup SysCalls \cup {"none", "null"}
      BY <1>2 DEF SetResponse, AcInv, AcTypeOK, Statuses
    <2> QED
      BY <1>3, <1>5, <2>1, <2>2 DEF AcInv, AcTypeOK, UdpInv, NoCall
  <1>8. AppInv' /\ AppSockets' = AppSockets /\ LiveClients' = LiveClients
    BY <1>3 DEF AcInv, AppInv, AppSockets, LiveClients
  <1>9. CallsInv' /\ LostInv' /\ SessionInv'
    BY <1>1, <1>3, <1>6, <1>8
    DEF AcInv, CallsInv, LostInv, SessionInv, SessionIsRemembered, NoCall
  <1> QED
    BY <1>5, <1>7, <1>8, <1>9 DEF AcInv

LEMMA ReceiveFailsStep == ASSUME AcInv, ReceiveFails PROVE AcInv'
  <1>1. /\ call.op = "receive" /\ pc = "idle" /\ held = AppSockets
    BY DEF ReceiveFails, At, AcInv, CallsInv
  <1>2. /\ UNCHANGED <<users, startups, owner, sock, held, pc, this>>
        /\ lastError' = "recvfrom" /\ acLastError' = lastError' /\ call' = NoCall
        /\ client' = client /\ app' = app /\ told' = told /\ inbox' = inbox
        /\ unheard' = unheard
    BY DEF ReceiveFails, UdpSocketReceiveFails, Fail, AcReturn
  <1>3. UdpInv' /\ lastError' \in Statuses \cup SysCalls \cup {"none", "null"}
    BY <1>1, <1>2, SocketError DEF AcInv, SysCalls
  <1>4. AcTypeOK'
    BY <1>2, <1>3 DEF AcInv, AcTypeOK, UdpInv, NoCall
  <1>5. AppInv' /\ AppSockets' = AppSockets /\ LiveClients' = LiveClients
    BY <1>2 DEF AcInv, AppInv, AppSockets, LiveClients
  <1>6. CallsInv' /\ LostInv' /\ SessionInv'
    BY <1>1, <1>2, <1>5
    DEF AcInv, CallsInv, LostInv, SessionInv, SessionIsRemembered, NoCall
  <1> QED
    BY <1>3, <1>4, <1>5, <1>6 DEF AcInv

LEMMA ArrivesStep ==
  ASSUME AcInv, NEW c \in Clients, NEW d \in Datagrams, Arrives(c, d)
  PROVE  AcInv'
  <1>1. /\ UNCHANGED udpVars /\ client' = client /\ app' = app /\ call' = call
        /\ acLastError' = acLastError /\ told' = told /\ unheard' = unheard
        /\ inbox' = [inbox EXCEPT ![c] = @ \cup {d}]
    BY DEF Arrives
  <1>2. inbox' \in [Clients -> SUBSET Datagrams]
    BY <1>1 DEF AcInv, AcTypeOK
  <1>3. UdpInv'
    BY <1>1, SocketsKept DEF AcInv
  <1> QED
    BY <1>1, <1>2, <1>3
    DEF udpVars, AcInv, UdpInv, AcTypeOK, AppInv, AppSockets, CallsInv, LostInv, SessionInv,
        SessionIsRemembered, LiveClients

LEMMA NetworkStep == ASSUME AcInv, AcNetwork PROVE AcInv'
  <1>1. ASSUME NEW c \in Clients, GameAnswers(c) PROVE AcInv'
    BY <1>1, ArrivesStep DEF GameAnswers, Datagrams, EventTypes
  <1>2. ASSUME NEW c \in Clients, GameUpdates(c) PROVE AcInv'
    BY <1>2, ArrivesStep DEF GameUpdates, Datagrams, EventTypes
  <1>3. ASSUME NEW c \in Clients, StrangerSends(c) PROVE AcInv'
    <2>1. PICK a \in Senders \ {Server}, k \in {"CAR_INFO", "OTHER"} :
            Arrives(c, [from |-> a, kind |-> k])
      BY <1>3 DEF StrangerSends
    <2> QED
      BY <2>1, ArrivesStep DEF Datagrams, EventTypes
  <1> QED
    BY <1>1, <1>2, <1>3 DEF AcNetwork

LEMMA AcStepInv == AcInv /\ [AcNext]_allVars => AcInv'
  <1> SUFFICES ASSUME AcInv, [AcNext]_allVars PROVE AcInv'
    OBVIOUS
  <1>1. CASE AcStep
    BY <1>1, SocketStep, CreateReturnsStep, CreateFailsStep, DestroyDismissesStep,
       DestroySkipsDismissStep, DestroyClosesSocketStep, DestroyFailsStep,
       DestroyFreesStep, ReceiveReturnsStep, ReceiveFailsStep
    DEF AcStep
  <1>2. CASE AcCall
    <2>1. ASSUME NEW c \in app, AcClientDestroy(c) PROVE AcInv'
      BY <2>1, BeginStep DEF AcClientDestroy
    <2>2. ASSUME NEW c \in app, AcClientReceive(c) PROVE AcInv'
      BY <2>2, BeginStep DEF AcClientReceive
    <2>3. ASSUME NEW c \in app, AcClientReceiveRefused(c) PROVE AcInv'
      BY <2>3, RefusedStep DEF AcClientReceiveRefused, Statuses
    <2>4. ASSUME NEW c \in app, NEW op \in Operations, AcClientSendRefused(c, op)
          PROVE  AcInv'
      BY <2>4, RefusedStep DEF AcClientSendRefused, Statuses
    <2> QED
      BY <1>2, <2>1, <2>2, <2>3, <2>4, CreateStep, CreateNoMemoryStep, SendStep DEF AcCall
  <1>3. CASE AcNetwork
    BY <1>3, NetworkStep
  <1>4. CASE UNCHANGED allVars
    BY <1>4, RefusedStep DEF allVars, acVars, AcInv, AcTypeOK
  <1> QED
    BY <1>1, <1>2, <1>3, <1>4 DEF AcNext

-----------------------------------------------------------------------------
(***************************************************************************)
(* The theorems.                                                           *)
(***************************************************************************)
\* The strengthened invariant holds in every reachable state of the clients.
THEOREM AcInvariance == AcSpec => []AcInv
  BY AcInitInv, AcStepInv, PTL DEF AcSpec

\* Every variable of ac/client.c keeps its type.
THEOREM AcTypeCorrectness == AcSpec => []AcTypeOK
  BY AcInvariance, PTL DEF AcInv

\* What is proved of udp_socket.c and wsa_client.c under any caller holds
\* under the clients of ac/client.c too, which are such a caller.
THEOREM SocketsUnderClients == AcSpec => []UdpInv
  BY AcInvariance, PTL DEF AcInv

\* _handshake_performed remembers every session that is open at the game, for a
\* client that is still there, until the client has sent its dismiss; only a
\* dismiss that does not reach the game leaves its session behind.
THEOREM SessionsAreRemembered == AcSpec => []SessionIsRemembered
  BY AcInvariance, PTL DEF AcInv, SessionInv

\* The clients use the sockets as udp_socket.c lets any program use them.
LEMMA ClientsUseSockets == AcInv /\ [AcNext]_allVars => UdpUse
  <1> SUFFICES ASSUME AcInv, AcNext, ~UNCHANGED <<users, startups, owner, sock, held, pc, this>>
               PROVE  UdpUse
    BY DEF UdpUse, allVars, udpVars
  <1>1. ASSUME NEW c \in Clients, AcClientCreate(c) PROVE UdpUse
    BY <1>1 DEF AcClientCreate, UdpSocketCreateNoMemory, UdpUse
  <1>2. CASE DestroyClosesSocket
    <2>1. client[call.client].socket \in held
      BY <1>2, AppFacts DEF DestroyClosesSocket, At, AcInv, CallsInv
    <2> QED
      BY <1>2, <2>1 DEF DestroyClosesSocket, UdpUse
  <1>3. CASE ReceiveReturns
    <2>1. call.socket \in held /\ call.client \in Clients
      BY <1>3, AppFacts DEF ReceiveReturns, At, AcInv, CallsInv, AcTypeOK
    <2>2. PICK d \in inbox[call.client] : UdpSocketReceive(call.socket, d.from)
      BY <1>3 DEF ReceiveReturns
    <2>3. d.from \in Senders \cup {Server}
      BY <2>1, <2>2 DEF AcInv, AcTypeOK, Datagrams
    <2> QED
      BY <2>1, <2>2, <2>3 DEF UdpUse
  <1>4. CASE ReceiveFails \/ CreateReturns \/ CreateFails \/ DestroySkipsDismiss
             \/ DestroyFails \/ DestroyFrees
    BY <1>4
    DEF ReceiveFails, UdpSocketReceiveFails, CreateReturns, CreateFails, DestroySkipsDismiss,
        DestroyFails, DestroyFrees, udpVars
  <1>5. ASSUME NEW c, NEW op, Sends(c, op) \/ SendFails(c, op) PROVE FALSE
    BY <1>5 DEF Sends, SendFails, UdpSocketSend, UdpSocketSendFails, UdpSocketSendNull, udpVars
  <1>6. CASE AcStep
    BY <1>2, <1>3, <1>4, <1>5, <1>6 DEF AcStep, UdpUse, DestroyDismisses
  <1>7. CASE AcCall
    <2>1. ASSUME NEW c, NEW op, \/ AcClientSendRefused(c, op) \/ AcClientDestroy(c)
                                \/ AcClientReceive(c) \/ AcClientReceiveRefused(c)
                                \/ AcClientCreateNoMemory
          PROVE  FALSE
      BY <2>1 DEF AcClientSendRefused, AcClientDestroy, AcClientReceive,
                  AcClientReceiveRefused, AcClientCreateNoMemory, udpVars
    <2> QED
      BY <1>1, <1>5, <1>7, <2>1 DEF AcCall, AcClientSend
  <1>8. CASE AcNetwork
    BY <1>8 DEF AcNetwork, GameAnswers, GameUpdates, StrangerSends, Arrives, udpVars
  <1> QED
    BY <1>6, <1>7, <1>8 DEF AcNext

\* Between calls the application's clients own the process's sockets, one each:
\* no failing ac_client_create or ac_client_destroy loses or shares one, and
\* none is left allocated that could have been cleaned up.
THEOREM SocketsAreOwned == AcSpec => []ClientsOwnTheirSockets
  <1>1. AcInit => LeakInv
    BY LeakInitInv DEF AcInit
  <1>2. AcInv /\ LeakInv /\ [AcNext]_allVars => LeakInv'
    BY ClientsUseSockets, LeakStep DEF AcInv
  <1>3. AcInv /\ LeakInv => ClientsOwnTheirSockets
    <2> SUFFICES ASSUME AcInv, LeakInv, call = NoCall PROVE ClientsOwnTheirSockets
      BY DEF ClientsOwnTheirSockets
    <2>1. pc = "idle" /\ held = AppSockets
      BY DEF AcInv, CallsInv, NoCall
    <2>2. CleansUp => Live = held \/ Wedged
      BY <2>1, LeakFree DEF AcInv, NoLeakUnlessWedged
    <2> QED
      BY <2>1, <2>2 DEF AcInv, AppInv, AppSockets, ClientsOwnTheirSockets
  <1> QED
    BY <1>1, <1>2, <1>3, AcInvariance, PTL DEF AcSpec

\* Only uninitialised memory that reads as a performed handshake makes a failing
\* ac_client_create leave its client allocated.
THEOREM OnlyGarbageLoses == AcSpec => []LostOnlyByGarbageFlag
  <1>1. AcInv => LostOnlyByGarbageFlag
    BY DEF AcInv, AppInv, LostInv, LiveClients, LostOnlyByGarbageFlag, NoCall
  <1> QED
    BY <1>1, AcInvariance, PTL
=============================================================================
