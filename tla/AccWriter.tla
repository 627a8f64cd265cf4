----------------------------- MODULE AccWriter ------------------------------
(***************************************************************************)
(* acc/writer.c: the bytes of a request.  Each acc_write_* function first  *)
(* adds up the size of its buffer and then writes into it, field by field. *)
(*                                                                         *)
(* A field is its kind, its width in bytes and its value.  Of a string_t a *)
(* request has the length; its characters are one field of that width,     *)
(* whose value is the member they are of.  What is written is the fields   *)
(* and the offset behind them.                                             *)
(***************************************************************************)
EXTENDS Integers, Sequences

U16 == 65536   \* 2^16

Nothing == [fields |-> <<>>, offset |-> 0]

Field(kind, width, value) ==
    [fields |-> <<[kind |-> kind, width |-> width, value |-> value]>>, offset |-> width]

\* a is written, then b from the offset that a has left.
a ++ b == [fields |-> a.fields \o b.fields, offset |-> a.offset + b.offset]

\* acc_write_uint8_t and its siblings.
U8(value)     == Field("u8", 1, value)
I32(value)    == Field("i32", 4, value)
Float(value)  == Field("f32", 4, value)
Index(value)  == Field("index", 2, value % U16)
Length(value) == Field("length", 2, value % U16)
Chars(name, n) == Field("chars", n, name)

\* acc_write_string, of the member `name' with n characters.
WriteString(name, n) == IF n = 0 THEN Length(0) ELSE Length(n) ++ Chars(name, n)

-----------------------------------------------------------------------------
(***************************************************************************)
(* acc_server_request_t, for the types that acc_client_send has a case     *)
(* for, with the members the widths and the conditions depend on.          *)
(***************************************************************************)
Request ==
    [type : {"REGISTER_COMMAND_APPLICATION"}, display_name : Nat,
     connection_password : Nat, command_password : Nat]
    \cup [type : {"UNREGISTER_COMMAND_APPLICATION", "REQUEST_ENTRY_LIST",
                  "REQUEST_TRACK_DATA"}]
    \cup [type : {"CHANGE_HUD_PAGE"}, hud_page : Nat]
    \cup [type : {"CHANGE_FOCUS"}, car_index : Int, camera_set : Nat, camera : Nat]
    \cup [type : {"INSTANT_REPLAY_REQUEST"}, initial_camera_set : Nat, initial_camera : Nat]

Number == [
    REGISTER_COMMAND_APPLICATION   |-> 1,
    UNREGISTER_COMMAND_APPLICATION |-> 9,
    REQUEST_ENTRY_LIST             |-> 10,
    REQUEST_TRACK_DATA             |-> 11,
    CHANGE_HUD_PAGE                |-> 49,
    CHANGE_FOCUS                   |-> 50,
    INSTANT_REPLAY_REQUEST         |-> 51]

ACC_BROADCASTING_PROTOCOL_VERSION == 4

HasCarIndex(r) == r.car_index >= 0
HasCameras(r)  == r.camera_set > 0 \/ r.camera > 0

When(condition, x, otherwise) == IF condition THEN x ELSE otherwise

\* Mutant: each camera string counts only when it is not empty.
FocusTotalByString(r) ==
    1 + 4 + 1 + When(HasCarIndex(r), 2, 0)
    + 1 + When(r.camera_set > 0, 2 + r.camera_set, 0) + When(r.camera > 0, 2 + r.camera, 0)

FocusTotal(r) ==
    1 + 4 + 1 + When(HasCarIndex(r), 2, 0)
    + 1 + When(HasCameras(r), 2 + r.camera_set, 0) + When(HasCameras(r), 2 + r.camera, 0)

\* Mutant: the camera is written before its set.
WriteFocusSwapped(r) ==
    I32("connection_id")
    ++ U8(When(HasCarIndex(r), 1, 0)) ++ When(HasCarIndex(r), Index(r.car_index), Nothing)
    ++ U8(When(HasCameras(r), 1, 0))
    ++ When(HasCameras(r), WriteString("camera", r.camera)
                           ++ WriteString("camera_set", r.camera_set), Nothing)

WriteFocus(r) ==
    I32("connection_id")
    ++ U8(When(HasCarIndex(r), 1, 0)) ++ When(HasCarIndex(r), Index(r.car_index), Nothing)
    ++ U8(When(HasCameras(r), 1, 0))
    ++ When(HasCameras(r), WriteString("camera_set", r.camera_set)
                           ++ WriteString("camera", r.camera), Nothing)

\* What the acc_write_* functions return: the total of the first pass, and what
\* the second has written.
Passes(total, r, data) == [total |-> total, written |-> U8(Number[r.type]) ++ data]

WriteRegisterApplication(r) ==
    Passes(1 + 1 + (2 + r.display_name) + (2 + r.connection_password) + 4
               + (2 + r.command_password),
           r, U8(ACC_BROADCASTING_PROTOCOL_VERSION)
              ++ WriteString("display_name", r.display_name)
              ++ WriteString("connection_password", r.connection_password)
              ++ I32("update_interval")
              ++ WriteString("command_password", r.command_password))

WriteUnregisterApplication(r) == Passes(1, r, Nothing)

WriteRequestEntryList(r) == Passes(1 + 4, r, I32("connection_id"))

WriteRequestTrackData(r) == Passes(1 + 4, r, I32("connection_id"))

WriteChangeHudPage(r) ==
    Passes(1 + 4 + (2 + r.hud_page),
           r, I32("connection_id") ++ WriteString("hud_page", r.hud_page))

WriteChangeFocus(r) == Passes(FocusTotal(r), r, WriteFocus(r))

WriteInstantReplayRequest(r) ==
    Passes(1 + 4 + 4 + 4 + 4 + (2 + r.initial_camera_set) + (2 + r.initial_camera),
           r, I32("connection_id") ++ Float("start_session_time") ++ Float("duration")
              ++ I32("initial_focused_car_index")
              ++ WriteString("initial_camera_set", r.initial_camera_set)
              ++ WriteString("initial_camera", r.initial_camera))

\* The switch of acc_client_send.
WriteRequest(r) ==
    CASE r.type = "REGISTER_COMMAND_APPLICATION"   -> WriteRegisterApplication(r)
      [] r.type = "UNREGISTER_COMMAND_APPLICATION" -> WriteUnregisterApplication(r)
      [] r.type = "REQUEST_ENTRY_LIST"             -> WriteRequestEntryList(r)
      [] r.type = "REQUEST_TRACK_DATA"             -> WriteRequestTrackData(r)
      [] r.type = "CHANGE_HUD_PAGE"                -> WriteChangeHudPage(r)
      [] r.type = "CHANGE_FOCUS"                   -> WriteChangeFocus(r)
      [] r.type = "INSTANT_REPLAY_REQUEST"         -> WriteInstantReplayRequest(r)

-----------------------------------------------------------------------------
(***************************************************************************)
(* A reader of the datagram, as the game is one: it takes field after      *)
(* field in the protocol's order, of a string the length and then as many  *)
(* characters, of a focus request what its flags say is there.  How it     *)
(* goes on is told by the datagram alone; what it takes is compared with   *)
(* the request it should be.  `ok' is whether all of it was there and what *)
(* was asked for.                                                          *)
(***************************************************************************)
NewReader(d) == [data |-> d, at |-> 1, ok |-> TRUE]

NoField == [kind |-> "none", width |-> 0, value |-> 0]

FieldAt(s) == IF s.at \in DOMAIN s.data THEN s.data[s.at] ELSE NoField

Skip(s, kind)     == [s EXCEPT !.at = @ + 1, !.ok = @ /\ FieldAt(s).kind = kind]
Check(s, correct) == [s EXCEPT !.ok = @ /\ correct]

Expect(s, kind, value) ==
    Check(Skip(s, kind), FieldAt(s).kind = kind => FieldAt(s).value = value)

ExpectString(s, name, n) ==
    LET told == IF FieldAt(s).kind = "length" THEN FieldAt(s).value ELSE 0
        t    == Check(Skip(s, "length"), told = n)
    IN  IF told = 0 THEN t ELSE Check(Expect(t, "chars", name), FieldAt(t).width = told)

Flag(s) == FieldAt(s).kind = "u8" /\ FieldAt(s).value = 1

\* A car index has 16 bits: of a larger one the game is told the low half.
ExpectCarIndex(s, r) ==
    LET t == Check(Skip(s, "u8"), Flag(s) <=> r.car_index >= 0)
    IN  IF Flag(s) THEN Expect(t, "index", r.car_index % U16) ELSE t

ExpectCameras(s, r) ==
    LET t == Skip(s, "u8")
    IN  IF Flag(s)
        THEN ExpectString(ExpectString(t, "camera_set", r.camera_set), "camera", r.camera)
        ELSE Check(t, r.camera_set = 0 /\ r.camera = 0)

ExpectRegistration(s, r) ==
    LET a == ExpectString(Expect(s, "u8", ACC_BROADCASTING_PROTOCOL_VERSION),
                          "display_name", r.display_name)
        b == ExpectString(a, "connection_password", r.connection_password)
    IN  ExpectString(Expect(b, "i32", "update_interval"), "command_password", r.command_password)

ExpectReplay(s, r) ==
    LET a == Expect(Expect(s, "f32", "start_session_time"), "f32", "duration")
        b == ExpectString(Expect(a, "i32", "initial_focused_car_index"),
                          "initial_camera_set", r.initial_camera_set)
    IN  ExpectString(b, "initial_camera", r.initial_camera)

ExpectRequest(s, r) ==
    LET t == Expect(s, "i32", "connection_id") IN
    CASE r.type = "REGISTER_COMMAND_APPLICATION"   -> ExpectRegistration(s, r)
      [] r.type = "UNREGISTER_COMMAND_APPLICATION" -> s
      [] r.type = "REQUEST_ENTRY_LIST"             -> t
      [] r.type = "REQUEST_TRACK_DATA"             -> t
      [] r.type = "CHANGE_HUD_PAGE"        -> ExpectString(t, "hud_page", r.hud_page)
      [] r.type = "CHANGE_FOCUS"           -> ExpectCameras(ExpectCarIndex(t, r), r)
      [] r.type = "INSTANT_REPLAY_REQUEST" -> ExpectReplay(t, r)

\* The datagram d is the request r to its reader, and nothing of d is left over.
Understood(r, d) ==
    LET s == ExpectRequest(Expect(NewReader(d), "u8", Number[r.type]), r)
    IN  s.ok /\ s.at = Len(d) + 1
=============================================================================
