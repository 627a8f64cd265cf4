----------------------------- MODULE AccReader ------------------------------
(***************************************************************************)
(* acc/reader.c, acc_client_receive after recvfrom, and                    *)
(* acc_server_response_free: how a datagram becomes a response with memory *)
(* of its own, and how that memory is given back.                          *)
(*                                                                         *)
(* What acc_read_* reads is a table of layouts, and a few actions          *)
(* interpret it one item at a time.  Nothing is known of the bytes of a    *)
(* datagram but the counts, lengths and flags the parser branches on; each *)
(* is chosen when it is read.  A member of the response, and the block of  *)
(* memory its pointer names, is identified by its path.  The response      *)
(* itself is the empty path.                                               *)
(*                                                                         *)
(* The datagram lies in a buffer on the stack, and nothing bounds the      *)
(* parse: beyond the bytes received it reads whatever is there, and beyond *)
(* the stack the process ends.                                             *)
(***************************************************************************)
EXTENDS Integers, Sequences, FiniteSets

CONSTANTS
    Types,         \* the message types that arrive, of those the code knows
    Received,      \* the sizes of datagrams
    StringSizes,   \* the lengths a datagram may give for a string
    Counts,        \* the array sizes it may give in one byte
    LongCounts,    \* the array sizes it may give in two
    IndexRange,    \* the number of values of a uint8_t loop index (2^8)
    BufferSize,    \* ACC_RECEIVE_BUFFER_SIZE
    StackSize,     \* from the start of the buffer to the end of the stack
    NoMemory       \* whether malloc may fail

ASSUME AccReaderAssumption ==
    /\ IndexRange \in Nat /\ IndexRange > 3
    /\ BufferSize \in Nat \ {0} /\ StackSize \in Nat /\ BufferSize <= StackSize
    /\ Received \subseteq 0 .. BufferSize
    /\ StringSizes \subseteq Nat /\ LongCounts \subseteq Nat
    /\ Counts \subseteq 0 .. IndexRange - 1
    /\ NoMemory \in BOOLEAN

VARIABLES
    type,          \* response->type
    ready,         \* whether the application has been given the response
    heap,          \* the blocks allocated for it
    sizes,         \* its arrays' sizes
    members,       \* its members that have been assigned
    receiving,     \* what the call in progress does
    todo,          \* the items acc_read_* has still to read
    offset,        \* *offset
    received,      \* the bytes recvfrom stored
    beyond,        \* history: whether others have been read
    accLastError   \* acc_last_error

response == <<type, ready, heap, sizes, members>>
parse    == <<receiving, todo, offset, received, beyond>>
readerVars == <<response, parse, accLastError>>

NoSizes == [p \in {} |-> 0]

-----------------------------------------------------------------------------
(***************************************************************************)
(* The layouts: what each acc_read_* function reads, in its order.         *)
(***************************************************************************)
Width == [u8 |-> 1, bool |-> 1, u16 |-> 2, i32 |-> 4, f32 |-> 4]

All(kind, names) == [i \in DOMAIN names |-> [path |-> <<names[i]>>, kind |-> kind]]

ArrayOf(count, element, name) ==
    <<[path |-> <<name>>, kind |-> "array", count |-> count, element |-> element]>>

Under(path, items) == [i \in DOMAIN items |-> [items[i] EXCEPT !.path = path \o @]]

Each(kind) == <<[path |-> <<>>, kind |-> kind]>>

Lap(name) ==
    Under(<<name>>,
        All("i32", <<"lap_time">>) \o All("u16", <<"car_index", "driver_index">>)
        \o ArrayOf("u8", "int32_t", "splits")
        \o All("bool", <<"is_invalid", "is_valid_for_best", "is_outlap", "is_inlap">>)
        \o All("lap_type", <<"lap_type">>))

RegistrationResult ==
    All("i32", <<"connection_id">>)
    \o All("bool", <<"connection_success", "is_read_only">>)
    \o All("string", <<"error_message">>)

RealTimeUpdate ==
    All("u16", <<"event_index", "session_index">>)
    \o All("u8", <<"session_type", "phase">>)
    \o All("f32", <<"session_time", "session_end_time">>)
    \o All("i32", <<"focused_car_index">>)
    \o All("string", <<"active_camera_set", "active_camera", "current_hud_page">>)
    \o All("replay", <<"is_replay_playing">>)
    \o All("f32", <<"time_of_day">>)
    \o All("u8", <<"ambient_temperature", "track_temperature", "cloud_level",
                   "rain_level", "wetness_level">>)
    \o Lap("best_session_lap")

RealTimeCarUpdate ==
    All("u16", <<"car_index", "driver_index">>)
    \o All("u8", <<"driver_count", "gear">>)
    \o All("f32", <<"world_position_x", "world_position_y", "yaw">>)
    \o All("u8", <<"car_location">>)
    \o All("u16", <<"speed", "position", "cup_position", "track_position">>)
    \o All("f32", <<"spline_position">>) \o All("u16", <<"laps">>)
    \o All("i32", <<"delta">>)
    \o Lap("best_session_lap") \o Lap("last_lap") \o Lap("current_lap")

EntryList ==
    All("i32", <<"connection_id">>) \o ArrayOf("u16", "uint16_t", "indexes")

EntryListCar ==
    All("u16", <<"car_index">>) \o All("u8", <<"car_model_type">>)
    \o All("string", <<"team_name">>) \o All("i32", <<"race_number">>)
    \o All("u8", <<"cup_category", "current_driver_index">>)
    \o All("u16", <<"nationality">>)
    \o ArrayOf("u8", "acc_driver_info_t", "driver_infos")

TrackData ==
    All("i32", <<"connection_id">>) \o All("string", <<"track_name">>)
    \o All("i32", <<"track_id", "track_length">>)
    \o ArrayOf("u8", "acc_camera_set_t", "camera_sets")
    \o ArrayOf("u8", "string_t", "hud_pages")

BroadcastingEvent ==
    All("u8", <<"type">>) \o All("string", <<"message">>)
    \o All("i32", <<"time", "car_index">>)

\* The switch of acc_client_receive.
Layout == [
    REGISTRATION_RESULT |-> RegistrationResult,
    REAL_TIME_UPDATE |-> RealTimeUpdate,
    REAL_TIME_CAR_UPDATE |-> RealTimeCarUpdate,
    ENTRY_LIST |-> EntryList,
    ENTRY_LIST_CAR |-> EntryListCar,
    TRACK_DATA |-> TrackData,
    BROADCASTING_EVENT |-> BroadcastingEvent]

ASSUME TypesAssumption == Types \subseteq DOMAIN Layout

DriverInfo ==
    All("string", <<"first_name", "last_name", "short_name">>)
    \o All("u8", <<"category">>) \o All("u16", <<"nationality">>)

CameraSet == All("string", <<"camera_set">>) \o ArrayOf("u8", "string_t", "cameras")

\* What the loop over an array reads of each element.
Element == [
    int32_t |-> Each("i32"),
    uint16_t |-> Each("u16"),
    string_t |-> Each("string"),
    acc_driver_info_t |-> DriverInfo,
    acc_camera_set_t |-> CameraSet]

ReplayTimes == All("f32", <<"replay_session_time", "replay_remaining_time">>)

\* An array's size takes one byte or two.
CountWidth(count) == IF count = "u8" THEN Width.u8 ELSE Width.u16
CountsOf(count)   == IF count = "u8" THEN Counts ELSE LongCounts

-----------------------------------------------------------------------------
(***************************************************************************)
(* acc_server_response_free: the blocks it frees, with the loops of        *)
(* strings_free, acc_driver_infos_free and acc_camera_sets_free.           *)
(***************************************************************************)
Elements(array) == {array \o <<i>> : i \in 0 .. sizes[array] - 1}

Strings(array) == {array} \cup Elements(array)

DriverInfos(array) ==
    {array} \cup {e \o <<name>> : e \in Elements(array),
                                  name \in {"first_name", "last_name", "short_name"}}

CameraSets(array) ==
    {array} \cup UNION {{e \o <<"camera_set">>} \cup Strings(e \o <<"cameras">>) :
                        e \in Elements(array)}

Owned ==
    CASE type = "REGISTRATION_RESULT" -> {<<"error_message">>}
      [] type = "REAL_TIME_UPDATE" ->
            {<<"best_session_lap", "splits">>, <<"active_camera_set">>,
             <<"active_camera">>, <<"current_hud_page">>}
      [] type = "REAL_TIME_CAR_UPDATE" ->
            {<<lap, "splits">> : lap \in {"best_session_lap", "last_lap", "current_lap"}}
      [] type = "ENTRY_LIST" -> {<<"indexes">>}
      [] type = "ENTRY_LIST_CAR" -> DriverInfos(<<"driver_infos">>) \cup {<<"team_name">>}
      [] type = "TRACK_DATA" ->
            CameraSets(<<"camera_sets">>) \cup {<<"track_name">>} \cup Strings(<<"hud_pages">>)
      [] type = "BROADCASTING_EVENT" -> {<<"message">>}

\* Mutant: the driver infos' array is freed without its strings.
ReleasedShallow ==
    {<<>>} \cup IF type = "ENTRY_LIST_CAR" THEN {<<"driver_infos">>, <<"team_name">>} ELSE Owned

Released == {<<>>} \cup Owned

-----------------------------------------------------------------------------
ReaderInit ==
    /\ type = "OTHER" /\ ready = FALSE
    /\ heap = {} /\ sizes = NoSizes /\ members = {}
    /\ receiving = "idle" /\ todo = <<>> /\ offset = 0
    /\ received = 0 /\ beyond = FALSE
    /\ accLastError = "none"

EndParse ==
    /\ receiving' = "idle" /\ todo' = <<>> /\ offset' = 0
    /\ received' = 0 /\ beyond' = FALSE

DropResponse == ready' = FALSE /\ heap' = {} /\ sizes' = NoSizes /\ members' = {}

AccFail(status) == accLastError' = status

(***************************************************************************)
(* acc_client_receive has n bytes.  The first is the type, also when there *)
(* is none.  The application passes a response it does not hold, as        *)
(* examples/acc.c does: a new one, or one it has freed.                    *)
(***************************************************************************)
Receive(n, t) ==
    /\ receiving = "idle" /\ ~ready
    /\ receiving' = "parse"
    /\ type' = t
    /\ heap' = {<<>>}
    /\ todo' = Layout[t]
    /\ offset' = 1
    /\ received' = n
    /\ beyond' = (n < 1)
    /\ UNCHANGED <<ready, sizes, members, accLastError>>

ReceiveNoMemory(t) ==
    /\ receiving = "idle" /\ ~ready
    /\ NoMemory
    /\ type' = t
    /\ AccFail("MEMORY_ALLOCATION_ERROR")
    /\ UNCHANGED <<ready, heap, sizes, members, parse>>

ReceiveUnknown ==
    /\ receiving = "idle" /\ ~ready
    /\ type' = "OTHER"
    /\ AccFail("INVALID_INBOUND_MESSAGE_TYPE")
    /\ UNCHANGED <<ready, heap, sizes, members, parse>>

-----------------------------------------------------------------------------
Item == Head(todo)

At(kinds) == receiving = "parse" /\ todo # <<>> /\ Item.kind \in kinds

\* Mutant: *offset is not advanced.
AdvanceNot(w) ==
    /\ offset + w <= StackSize
    /\ offset' = offset
    /\ beyond' = (beyond \/ offset + w > received)

\* w bytes are copied from the buffer.
Advance(w) ==
    /\ offset + w <= StackSize
    /\ offset' = offset + w
    /\ beyond' = (beyond \/ offset + w > received)

ContinueWith(items) == todo' = items \o Tail(todo)

Assign(paths) == members' = members \cup paths

Allocate(path) == heap' = heap \cup {path}

\* acc_read_uint8_t and its siblings.
ReadScalar ==
    /\ At(DOMAIN Width)
    /\ Advance(Width[Item.kind])
    /\ Assign({Item.path})
    /\ ContinueWith(<<>>)
    /\ UNCHANGED <<heap, sizes>>

\* is_replay_playing says whether the replay's times follow.
ReadReplayFlag ==
    /\ At({"replay"})
    /\ Advance(Width.bool)
    /\ Assign({Item.path})
    /\ ContinueWith(ReplayTimes) \/ ContinueWith(<<>>)
    /\ UNCHANGED <<heap, sizes>>

\* acc_read_string
ReadString ==
    /\ At({"string"})
    /\ \E n \in StringSizes : Advance(Width.u16 + n)
    /\ Allocate(Item.path)
    /\ Assign({Item.path})
    /\ ContinueWith(<<>>)
    /\ UNCHANGED sizes

\* An array's size is read and its elements allocated.
ReadArray ==
    /\ At({"array"})
    /\ Advance(CountWidth(Item.count))
    /\ Allocate(Item.path)
    /\ Assign({Item.path})
    /\ \E n \in CountsOf(Item.count) :
        /\ sizes' = [p \in DOMAIN sizes \cup {Item.path} |-> IF p = Item.path THEN n ELSE sizes[p]]
        /\ ContinueWith(<<[path |-> Item.path, kind |-> "loop", element |-> Item.element,
                           index |-> 0, size |-> n]>>)

\* Mutant: the loop reads every element into the first.
FirstElementAgain ==
    /\ At({"loop"})
    /\ Item.index < Item.size
    /\ ContinueWith(Under(Item.path \o <<0>>, Element[Item.element])
                    \o <<[Item EXCEPT !.index = (@ + 1) % IndexRange]>>)
    /\ UNCHANGED <<heap, sizes, members, offset, beyond>>

\* Mutant: the size is cast to the type of the loop index.
EndOfArrayCast ==
    /\ At({"loop"})
    /\ Item.index >= Item.size % IndexRange
    /\ ContinueWith(<<>>)
    /\ UNCHANGED <<heap, sizes, members, offset, beyond>>

\* The loop over an array.  Its index is a uint8_t (in the loop over hud_pages
\* an int, which for a size of one byte makes no difference).
NextElement ==
    /\ At({"loop"})
    /\ Item.index < Item.size
    /\ ContinueWith(Under(Item.path \o <<Item.index>>, Element[Item.element])
                    \o <<[Item EXCEPT !.index = (@ + 1) % IndexRange]>>)
    /\ UNCHANGED <<heap, sizes, members, offset, beyond>>

EndOfArray ==
    /\ At({"loop"})
    /\ Item.index >= Item.size
    /\ ContinueWith(<<>>)
    /\ UNCHANGED <<heap, sizes, members, offset, beyond>>

\* Mutant: the splits that are made up are not filled in.
FinishLapUnfilled ==
    /\ At({"lap_type"})
    /\ LET splits == [Item.path EXCEPT ![2] = "splits"] IN
        sizes' = IF sizes[splits] < 3 THEN [sizes EXCEPT ![splits] = 3] ELSE sizes
    /\ Assign({Item.path})
    /\ ContinueWith(<<>>)
    /\ UNCHANGED <<heap, offset, beyond>>

\* The end of acc_read_lap: the type of lap, and at least three splits.
FinishLap ==
    /\ At({"lap_type"})
    /\ LET splits == [Item.path EXCEPT ![2] = "splits"] IN
        /\ sizes' = IF sizes[splits] < 3 THEN [sizes EXCEPT ![splits] = 3] ELSE sizes
        /\ Assign({Item.path} \cup {splits \o <<i>> : i \in sizes[splits] .. 2})
    /\ ContinueWith(<<>>)
    /\ UNCHANGED <<heap, offset, beyond>>

ParseItem ==
    /\ \/ ReadScalar \/ ReadReplayFlag \/ ReadString
       \/ ReadArray \/ NextElement \/ EndOfArray \/ FinishLap
    /\ UNCHANGED <<type, ready, receiving, received, accLastError>>

\* How many bytes the item at hand may take.
Extents ==
    CASE Item.kind \in DOMAIN Width -> {Width[Item.kind]}
      [] Item.kind = "replay" -> {Width.bool}
      [] Item.kind = "string" -> {Width.u16 + n : n \in StringSizes}
      [] Item.kind = "array"  -> {CountWidth(Item.count)}
      [] OTHER -> {0}

\* The parse leaves the stack, or writes to memory that malloc did not return:
\* no malloc or realloc in reader.c is checked.
ParseCrashes ==
    /\ receiving = "parse" /\ todo # <<>>
    /\ \/ \E w \in Extents : offset + w > StackSize
       \/ NoMemory /\ Item.kind = "string" /\ \E n \in StringSizes : n > 0
       \/ NoMemory /\ Item.kind = "array" /\ \E n \in CountsOf(Item.count) : n > 0
       \/ NoMemory /\ Item.kind = "lap_type" /\ sizes[[Item.path EXCEPT ![2] = "splits"]] < 3
    /\ receiving' = "crashed"
    /\ UNCHANGED <<response, todo, offset, received, beyond, accLastError>>

-----------------------------------------------------------------------------
TooShort == offset > BufferSize \/ offset > received

\* Mutant: the bytes parsed are compared with the buffer's size only.
ParseReturnsInBuffer ==
    /\ receiving = "parse" /\ todo = <<>>
    /\ offset <= BufferSize
    /\ receiving' = "idle"
    /\ ready' = TRUE
    /\ UNCHANGED <<type, heap, sizes, members, todo, offset, received, beyond, accLastError>>

ParseReturns ==
    /\ receiving = "parse" /\ todo = <<>>
    /\ ~TooShort
    /\ receiving' = "idle"
    /\ ready' = TRUE
    /\ UNCHANGED <<type, heap, sizes, members, todo, offset, received, beyond, accLastError>>

\* Mutant: the type is stored as the status.
ParseRejectsByType ==
    /\ receiving = "parse" /\ todo = <<>>
    /\ TooShort
    /\ AccFail(type)
    /\ EndParse
    /\ DropResponse
    /\ UNCHANGED type

\* The application is told of an error and not of a response: nobody frees
\* what has been allocated for it.
ParseRejects ==
    /\ receiving = "parse" /\ todo = <<>>
    /\ TooShort
    /\ AccFail("INBOUND_BUFFER_TOO_SMALL")
    /\ EndParse
    /\ DropResponse
    /\ UNCHANGED type

AccServerResponseFree ==
    /\ receiving = "idle" /\ ready
    /\ EndParse
    /\ DropResponse
    /\ UNCHANGED <<type, accLastError>>

-----------------------------------------------------------------------------
ParseStep == ParseItem \/ ParseCrashes \/ ParseReturns \/ ParseRejects

ReaderCall ==
    \/ \E n \in Received, t \in Types : Receive(n, t)
    \/ \E t \in Types : ReceiveNoMemory(t)
    \/ ReceiveUnknown
    \/ AccServerResponseFree

ReaderNext == ParseStep \/ ReaderCall

ReaderSpec == ReaderInit /\ [][ReaderNext]_readerVars

\* A parse runs on by itself.
ReaderFairSpec == ReaderSpec /\ WF_readerVars(ParseStep)

-----------------------------------------------------------------------------
(***************************************************************************)
(* Type invariant.  Of the collections, an array has a size only if it has *)
(* been allocated; what heap and members are at the end of a parse,        *)
(* FreeIsExact and UnassignedAreKnown say.                                 *)
(***************************************************************************)
ReaderTypeOK ==
    /\ type \in DOMAIN Layout \cup {"OTHER"}
    /\ ready \in BOOLEAN /\ beyond \in BOOLEAN
    /\ DOMAIN sizes \subseteq heap
    /\ \A p \in DOMAIN sizes : sizes[p] \in Nat
    /\ receiving \in {"idle", "parse", "crashed"}
    /\ offset \in 0 .. StackSize
    /\ received \in Received \cup {0}
    /\ accLastError \in {"none", "MEMORY_ALLOCATION_ERROR", "INVALID_INBOUND_MESSAGE_TYPE",
                         "INBOUND_BUFFER_TOO_SMALL"}

(***************************************************************************)
(* A response that acc_client_receive returns comes from the bytes that    *)
(* were received: the one check at the end finds out about every read,     *)
(* nested or repeated, that went beyond them.                              *)
(***************************************************************************)
AcceptedIsReceived == ready => ~beyond

(***************************************************************************)
(* acc_server_response_free frees the blocks that the parse of its type    *)
(* has allocated, all of them and no other, whatever the sizes of the      *)
(* arrays and of the arrays in their elements.                             *)
(***************************************************************************)
FreeIsExact == ready => Released = heap

(***************************************************************************)
(* No member and no element is read twice, so a parse takes from the       *)
(* datagram what its counts say, except where an array is longer than its  *)
(* loop index can count: that loop starts again at its first element.      *)
(***************************************************************************)
Overlong == \E p \in DOMAIN sizes : sizes[p] >= IndexRange

NothingIsReadTwice ==
    [][receiving = "parse" /\ offset' > offset /\ ~Overlong => Item.path \notin members]_readerVars

(***************************************************************************)
(* An array longer than its loop index can count is never taken for a      *)
(* shorter one: the call that reads such an entry list does not return,    *)
(* neither with a response nor with an error.                              *)
(***************************************************************************)
OverlongDoesNotReturn ==
    [][receiving = "parse" /\ Overlong => receiving' # "idle"]_readerVars

(***************************************************************************)
(* Every parse ends, whatever the counts in the datagram: one whose loop   *)
(* starts again and again ends with the stack, and with the process.       *)
(***************************************************************************)
ParseEnds == receiving = "parse" ~> receiving \in {"idle", "crashed"}

-----------------------------------------------------------------------------
(***************************************************************************)
(* acc/types.c: the members of the structs that the parsers fill.          *)
(***************************************************************************)
LapMembers == {"lap_time", "splits", "car_index", "driver_index", "is_invalid",
               "is_valid_for_best", "lap_type"}

LapsOf(laps) == {<<lap, name>> : lap \in laps, name \in LapMembers}

Single(names) == {<<name>> : name \in names}

StructMembers == [
    REGISTRATION_RESULT |->
        Single({"connection_id", "connection_success", "is_read_only", "error_message"}),
    REAL_TIME_UPDATE |->
        Single({"event_index", "session_index", "phase", "session_time", "remaining_time",
                "time_of_day", "rain_level", "cloud_level", "wetness_level",
                "best_lap_car_index", "best_lap_driver_index", "focused_car_index",
                "active_camera_set", "active_camera", "current_hud_page",
                "is_replay_playing", "replay_session_time", "replay_remaining_time",
                "session_remaining_time", "session_end_time", "session_type",
                "ambient_temperature", "track_temperature"})
        \cup LapsOf({"best_session_lap"}),
    REAL_TIME_CAR_UPDATE |->
        Single({"car_index", "driver_index", "gear", "world_position_x", "world_position_y",
                "yaw", "car_location", "speed", "position", "track_position",
                "spline_position", "delta", "laps", "cup_position", "driver_count"})
        \cup LapsOf({"best_session_lap", "last_lap", "current_lap"}),
    ENTRY_LIST |-> Single({"connection_id", "indexes"}),
    ENTRY_LIST_CAR |->
        Single({"car_index", "car_model_type", "cup_category", "team_name", "nationality",
                "race_number", "current_driver_index", "driver_infos"}),
    TRACK_DATA |->
        Single({"connection_id", "track_name", "track_id", "track_length", "camera_sets",
                "hud_pages"}),
    BROADCASTING_EVENT |-> Single({"type", "message", "time", "car_index"})]

\* The members of an element of the array of that name.
ElementMembers(array) ==
    CASE array = "driver_infos" ->
            Single({"first_name", "last_name", "short_name", "category", "nationality"})
      [] array = "camera_sets" -> Single({"camera_set", "cameras"})
      [] OTHER -> {<<>>}

DeclaredMembers ==
    StructMembers[type] \cup
    UNION {{e \o m : e \in Elements(p), m \in ElementMembers(p[Len(p)])} : p \in DOMAIN sizes}

(***************************************************************************)
(* Of a response that is returned, every member has been assigned, down to *)
(* the elements of its arrays, but these of a real-time update.            *)
(***************************************************************************)
NeverAssigned == Single({"remaining_time", "session_remaining_time", "best_lap_car_index",
                         "best_lap_driver_index"})

UnassignedAreKnown ==
    ready => DeclaredMembers \ members \subseteq
             NeverAssigned \cup Single({"replay_session_time", "replay_remaining_time"})

\* examples/acc.c prints the "Remaining Time" of each real-time update.
RemainingTimeIsAssigned ==
    ready /\ type = "REAL_TIME_UPDATE" => <<"remaining_time">> \in members
=============================================================================
