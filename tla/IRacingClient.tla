--------------------------- MODULE IRacingClient ----------------------------
(***************************************************************************)
(* iracing/client.c: iracing_client_init and iracing_client_free around    *)
(* the reads of IRacingReader.                                             *)
(*                                                                         *)
(* The application owns one iracing_client_t, which nothing initialises    *)
(* before iracing_client_init: its members may be null, junk, or happen to *)
(* have the value of a handle the rest of the process has open.            *)
(*                                                                         *)
(* Windows is external: which handle values are open and for whom, and     *)
(* whether the view is mapped.  A handle closes exactly if it is open, and *)
(* what GetLastError returns is the error of the last call that failed.    *)
(***************************************************************************)
EXTENDS IRacingReader

CONSTANT Handles    \* the values OpenFileMapping and OpenEvent may return

ASSUME IRacingClientAssumption == {"null", "junk"} \cap Handles = {}

VARIABLES
    client,    \* the iracing_client_t
    phase,     \* "raw" before the first iracing_client_init has returned
    step,      \* the next system call of iracing_client_init, if it runs
    handles,   \* Windows: who has each handle open
    mapped     \* Windows: whether the simulator's memory is mapped

handleVars == <<client, phase, step, handles, mapped>>
clientVars == <<iracingVars, handleVars>>

NoReads == UNCHANGED <<memory, header, info, call, uncopied, result, begun>>

NullClient == [file |-> "null", event |-> "null", memory |-> "null"]

ClientInit ==
    /\ Init
    /\ client \in [file   : {"null"},     \* the first call overwrites it
                   event  : {"null", "junk"} \cup Handles,
                   memory : {"null", "junk"}]
    /\ phase = "raw"
    /\ step = "idle"
    /\ handles = [h \in Handles |-> "closed"]
    /\ mapped = FALSE

-----------------------------------------------------------------------------
(***************************************************************************)
(* iracing_client_free: the three members are released in this order, and  *)
(* an error of one does not keep the next from being released.             *)
(***************************************************************************)
Closed(open, h) == IF h \in Handles THEN [open EXCEPT ![h] = "closed"] ELSE open

CloseFails(open, h) == h = "junk" \/ (h \in Handles /\ open[h] = "closed")

\* The last error after the release of client c, if it was e before.
ErrorAfter(c, e) ==
    IF CloseFails(handles, c.event) \/ CloseFails(Closed(handles, c.event), c.file)
    THEN "CloseHandle"
    ELSE IF c.memory = "junk" \/ (c.memory = "view" /\ ~mapped) THEN "UnmapViewOfFile" ELSE e

\* Mutant: the members keep their values.
ReleaseKeeping(c) ==
    /\ handles' = Closed(Closed(handles, c.event), c.file)
    /\ mapped' = (mapped /\ c.memory # "view")
    /\ client' = c

Release(c) ==
    /\ handles' = Closed(Closed(handles, c.event), c.file)
    /\ mapped' = (mapped /\ c.memory # "view")
    /\ client' = NullClient

IRacingClientFree ==
    /\ step = "idle" /\ phase # "raw" /\ call \in {"start", "idle"}
    /\ Release(client)
    /\ lastError' = ErrorAfter(client, lastError)
    /\ phase' = "closed"
    /\ UNCHANGED step /\ NoReads

-----------------------------------------------------------------------------
(***************************************************************************)
(* iracing_client_init, called on a client that is not open.               *)
(***************************************************************************)
IRacingClientInit ==
    /\ step = "idle" /\ phase # "open"
    /\ step' = "file"
    /\ UNCHANGED <<client, phase, handles, mapped, lastError>> /\ NoReads

Opens(member, next) ==
    /\ step = member
    /\ \E h \in Handles :
        /\ handles[h] = "closed"
        /\ handles' = [handles EXCEPT ![h] = "own"]
        /\ client' = [client EXCEPT ![member] = h]
    /\ step' = next
    /\ UNCHANGED <<phase, mapped, lastError>> /\ NoReads

OpensFile  == Opens("file", "event")
OpensEvent == Opens("event", "memory")

MapsView ==
    /\ step = "memory"
    /\ client' = [client EXCEPT !.memory = "view"]
    /\ mapped' = TRUE
    /\ step' = "idle"
    /\ phase' = "open"
    /\ UNCHANGED <<handles, lastError>> /\ NoReads

CallAt == [file |-> "OpenFileMapping", event |-> "OpenEvent", memory |-> "MapViewOfFile"]

\* Mutants: the event's handle is not released; the error of the clean-up is
\* the one that is stored.
InitFailsUnreleased ==
    /\ step \in DOMAIN CallAt
    /\ client' = NullClient
    /\ lastError' = CallAt[step]
    /\ step' = "idle"
    /\ phase' = "closed"
    /\ UNCHANGED <<handles, mapped>> /\ NoReads

InitFailsSilently ==
    /\ step \in DOMAIN CallAt
    /\ LET failed == [client EXCEPT ![step] = "null"] IN
        /\ Release(failed)
        /\ lastError' = ErrorAfter(failed, lastError)
    /\ step' = "idle"
    /\ phase' = "closed"
    /\ NoReads

\* The call returns NULL, iracing_client_free runs on the client as it is, and
\* only then the error is asked for.
InitFails ==
    /\ step \in DOMAIN CallAt
    /\ LET failed == [client EXCEPT ![step] = "null"] IN
        /\ Release(failed)
        /\ lastError' = ErrorAfter(failed, CallAt[step])
    /\ step' = "idle"
    /\ phase' = "closed"
    /\ NoReads

-----------------------------------------------------------------------------
(***************************************************************************)
(* The rest of the process (external) opens and closes handles.            *)
(***************************************************************************)
OtherOpens(h) ==
    /\ handles[h] = "closed"
    /\ handles' = [handles EXCEPT ![h] = "other"]
    /\ UNCHANGED <<client, phase, step, mapped, lastError>> /\ NoReads

OtherCloses(h) ==
    /\ handles[h] = "other"
    /\ handles' = [handles EXCEPT ![h] = "closed"]
    /\ UNCHANGED <<client, phase, step, mapped, lastError>> /\ NoReads

-----------------------------------------------------------------------------
\* The calls of one thread.  Nothing reads but through an open client.
ClientStep ==
    \/ IRacingClientInit \/ OpensFile \/ OpensEvent \/ MapsView \/ InitFails
    \/ IRacingClientFree
    \/ phase = "open" /\ Reader /\ UNCHANGED handleVars

\* Other handles come and go between two calls.
Others == step = "idle" /\ \E h \in Handles : OtherOpens(h) \/ OtherCloses(h)

ClientNext == ClientStep \/ Others \/ (Simulator /\ UNCHANGED handleVars)

ClientSpec == ClientInit /\ [][ClientNext]_clientVars

-----------------------------------------------------------------------------
(***************************************************************************)
(* Type invariant: every variable has its type.                            *)
(***************************************************************************)
ClientTypeOK ==
    /\ TypeOK
    /\ client \in [file   : {"null"} \cup Handles,
                   event  : {"null", "junk"} \cup Handles,
                   memory : {"null", "junk", "view"}]
    /\ phase \in {"raw", "open", "closed"}
    /\ step \in DOMAIN CallAt \cup {"idle"}
    /\ handles \in [Handles -> {"closed", "own", "other"}]
    /\ mapped \in BOOLEAN

(***************************************************************************)
(* Whichever call of iracing_client_init fails, and after                  *)
(* iracing_client_free, the client has left nothing open or mapped; an     *)
(* open client has both its handles and its view, so a read never goes     *)
(* through a pointer that has been unmapped.                               *)
(***************************************************************************)
Own == {h \in Handles : handles[h] = "own"}

NothingIsLeftOpen ==
    /\ step = "idle" /\ phase # "open" => Own = {} /\ ~mapped
    /\ phase = "open" =>
        Own = {client.file, client.event} /\ client.file # client.event /\ mapped

(***************************************************************************)
(* Once a client has been through a first iracing_client_init, neither a   *)
(* later init that fails nor a repeated free ever closes a handle of       *)
(* someone else that has been given a value the client used to hold.       *)
(***************************************************************************)
OthersAreNotClosed ==
    [][\A h \in Handles : handles[h] = "other" /\ handles'[h] # "other"
       => OtherCloses(h) \/ phase = "raw"]_clientVars

(***************************************************************************)
(* Of a client that has been through a first iracing_client_init, a        *)
(* failing init reports the call that failed, although it asks for the     *)
(* error only after its clean-up.                                          *)
(***************************************************************************)
InitHasFailed == step # "idle" /\ step' = "idle" /\ phase' # "open"

LaterInitReportsItsCause ==
    [][InitHasFailed /\ phase = "closed" => lastError' = CallAt[step]]_clientVars

-----------------------------------------------------------------------------
\* examples/iracing.c prints that iracing_client_init "failed with error" the
\* code it gets, for a client on the stack.
InitReportsItsCause == [][InitHasFailed => lastError' = CallAt[step]]_clientVars
=============================================================================
