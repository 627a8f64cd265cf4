-------------------------- MODULE AccWriterProofs ---------------------------
(***************************************************************************)
(* Proofs about AccWriter, for requests with strings of any length and any *)
(* car index.                                                              *)
(***************************************************************************)
EXTENDS AccWriter, SequenceTheorems, TLAPS

-----------------------------------------------------------------------------
(***************************************************************************)
(* How far each piece of a request moves the offset.                       *)
(***************************************************************************)
LEMMA OffsetsAdd == \A a, b : (a ++ b).offset = a.offset + b.offset
  BY DEF ++

LEMMA ScalarOffsets ==
  /\ Nothing.offset = 0
  /\ \A v : /\ U8(v).offset = 1 /\ I32(v).offset = 4 /\ Float(v).offset = 4
            /\ Index(v).offset = 2 /\ Length(v).offset = 2
  /\ \A name, n : Chars(name, n).offset = n
  BY DEF Nothing, U8, I32, Float, Index, Length, Chars, Field

LEMMA StringOffset == \A name, n : n \in Nat => WriteString(name, n).offset = 2 + n
  BY OffsetsAdd, ScalarOffsets DEF WriteString

\* What a request of each type has.
LEMMA RequestCases ==
  ASSUME NEW r \in Request
  PROVE  \/ /\ r.type = "REGISTER_COMMAND_APPLICATION"
            /\ r.display_name \in Nat /\ r.connection_password \in Nat
            /\ r.command_password \in Nat
         \/ r.type = "UNREGISTER_COMMAND_APPLICATION"
         \/ r.type = "REQUEST_ENTRY_LIST"
         \/ r.type = "REQUEST_TRACK_DATA"
         \/ r.type = "CHANGE_HUD_PAGE" /\ r.hud_page \in Nat
         \/ /\ r.type = "CHANGE_FOCUS"
            /\ r.car_index \in Int /\ r.camera_set \in Nat /\ r.camera \in Nat
         \/ /\ r.type = "INSTANT_REPLAY_REQUEST"
            /\ r.initial_camera_set \in Nat /\ r.initial_camera \in Nat
  BY DEF Request

\* The switch over the types.
LEMMA SwitchedByType ==
  ASSUME NEW r
  PROVE  /\ r.type = "REGISTER_COMMAND_APPLICATION" => WriteRequest(r) = WriteRegisterApplication(r)
         /\ r.type = "UNREGISTER_COMMAND_APPLICATION" =>
                WriteRequest(r) = WriteUnregisterApplication(r)
         /\ r.type = "REQUEST_ENTRY_LIST" => WriteRequest(r) = WriteRequestEntryList(r)
         /\ r.type = "REQUEST_TRACK_DATA" => WriteRequest(r) = WriteRequestTrackData(r)
         /\ r.type = "CHANGE_HUD_PAGE" => WriteRequest(r) = WriteChangeHudPage(r)
         /\ r.type = "CHANGE_FOCUS" => WriteRequest(r) = WriteChangeFocus(r)
         /\ r.type = "INSTANT_REPLAY_REQUEST" => WriteRequest(r) = WriteInstantReplayRequest(r)
  BY Zenon DEF WriteRequest

LEMMA TotalIsNat == ASSUME NEW r \in Request PROVE WriteRequest(r).total \in Nat
  BY RequestCases, SwitchedByType
  DEF Passes, WriteRegisterApplication, WriteUnregisterApplication, WriteRequestEntryList,
      WriteRequestTrackData, WriteChangeHudPage, WriteChangeFocus, FocusTotal,
      WriteInstantReplayRequest, When

(***************************************************************************)
(* The pass that adds up sizes and the pass that writes agree on every     *)
(* request: the offset behind the last field is the buffer's size.         *)
(***************************************************************************)
THEOREM PassesAgree ==
  ASSUME NEW r \in Request
  PROVE  WriteRequest(r).total = WriteRequest(r).written.offset
  <1> USE SwitchedByType, OffsetsAdd, ScalarOffsets, StringOffset DEF Passes
  <1>1. CASE r.type = "REGISTER_COMMAND_APPLICATION"
    <2>1. /\ r.display_name \in Nat /\ r.connection_password \in Nat
          /\ r.command_password \in Nat
      BY <1>1, RequestCases
    <2>2. WriteRequest(r) = WriteRegisterApplication(r)
      BY <1>1
    <2>3. WriteRegisterApplication(r).written.offset
            = 1 + (1 + (2 + r.display_name) + (2 + r.connection_password) + 4
                     + (2 + r.command_password))
      BY <2>1 DEF WriteRegisterApplication
    <2>4. WriteRegisterApplication(r).total
            = 1 + 1 + (2 + r.display_name) + (2 + r.connection_password) + 4
                + (2 + r.command_password)
      BY DEF WriteRegisterApplication
    <2> QED
      BY <2>1, <2>2, <2>3, <2>4
  <1>2. CASE r.type = "UNREGISTER_COMMAND_APPLICATION"
    BY <1>2 DEF WriteUnregisterApplication
  <1>3. CASE r.type = "REQUEST_ENTRY_LIST"
    BY <1>3 DEF WriteRequestEntryList
  <1>4. CASE r.type = "REQUEST_TRACK_DATA"
    BY <1>4 DEF WriteRequestTrackData
  <1>5. CASE r.type = "CHANGE_HUD_PAGE"
    BY <1>5, RequestCases DEF WriteChangeHudPage
  <1>6. CASE r.type = "CHANGE_FOCUS"
    <2> DEFINE index   == When(HasCarIndex(r), 2, 0)
               cameras == When(HasCameras(r), (2 + r.camera_set) + (2 + r.camera), 0)
    <2>1. r.car_index \in Int /\ r.camera_set \in Nat /\ r.camera \in Nat
      BY <1>6, RequestCases
    <2>2. WriteRequest(r) = WriteChangeFocus(r)
      BY <1>6
    <2>3. When(HasCarIndex(r), Index(r.car_index), Nothing).offset = index
      BY DEF When
    <2>4. When(HasCameras(r), WriteString("camera_set", r.camera_set)
                              ++ WriteString("camera", r.camera), Nothing).offset
            = cameras
      BY <2>1 DEF When
    <2>5. index \in Nat /\ cameras \in Nat
      BY <2>1 DEF When
    <2>6. WriteFocus(r).offset = 4 + 1 + index + 1 + cameras
      BY <2>3, <2>4, <2>5 DEF WriteFocus
    <2>7. FocusTotal(r) = 1 + 4 + 1 + index + 1 + cameras
      BY <2>1 DEF FocusTotal, When
    <2> QED
      BY <2>2, <2>5, <2>6, <2>7 DEF WriteChangeFocus
  <1>7. CASE r.type = "INSTANT_REPLAY_REQUEST"
    <2>1. r.initial_camera_set \in Nat /\ r.initial_camera \in Nat
      BY <1>7, RequestCases
    <2>2. WriteRequest(r) = WriteInstantReplayRequest(r)
      BY <1>7
    <2>3. WriteInstantReplayRequest(r).written.offset
            = 1 + (4 + 4 + 4 + 4 + (2 + r.initial_camera_set) + (2 + r.initial_camera))
      BY <2>1 DEF WriteInstantReplayRequest
    <2>4. WriteInstantReplayRequest(r).total
            = 1 + 4 + 4 + 4 + 4 + (2 + r.initial_camera_set) + (2 + r.initial_camera)
      BY DEF WriteInstantReplayRequest
    <2> QED
      BY <2>1, <2>2, <2>3, <2>4
  <1> QED
    BY <1>1, <1>2, <1>3, <1>4, <1>5, <1>6, <1>7, RequestCases

-----------------------------------------------------------------------------
(***************************************************************************)
(* Where the fields of a piece lie in a datagram, and a reader that has    *)
(* found all it expected and stands before one of them.                    *)
(***************************************************************************)
FieldsOf(x) == {x.fields[i] : i \in DOMAIN x.fields}

Written(x) == x.fields \in Seq(FieldsOf(x))

Size(x) == Len(x.fields)

Lies(d, i, x) ==
    \A k \in 1 .. Size(x) : (i - 1) + k \in DOMAIN d /\ d[(i - 1) + k] = x.fields[k]

Before(d, i) == [data |-> d, at |-> i, ok |-> TRUE]

LEMMA WrittenJoined ==
  ASSUME NEW a, NEW b, Written(a), Written(b)
  PROVE  /\ Written(a ++ b) /\ Size(a) \in Nat /\ Size(a ++ b) = Size(a) + Size(b)
         /\ \A d : \A i \in Nat : Lies(d, i, a ++ b) =>
                Lies(d, i, a) /\ Lies(d, i + Size(a), b)
  <1> DEFINE S == FieldsOf(a) \cup FieldsOf(b)
             f == a.fields
             g == b.fields
             c == (a ++ b).fields
  <1>1. f \in Seq(S) /\ g \in Seq(S) /\ c = f \o g
    BY SeqMonotonic DEF Written, ++
  <1>2. Size(a) = Len(f) /\ Size(b) = Len(g) /\ Size(a ++ b) = Len(c)
    BY DEF Size
  <1>3. FieldsOf(a ++ b) = {c[i] : i \in DOMAIN c}
    BY DEF FieldsOf
  <1>4. Written(a ++ b) <=> c \in Seq(FieldsOf(a ++ b))
    BY DEF Written
  <1>5. \A d, i, x : Lies(d, i, x) <=>
            \A k \in 1 .. Size(x) : (i - 1) + k \in DOMAIN d /\ d[(i - 1) + k] = x.fields[k]
    BY DEF Lies
  <1> DEFINE Ends(d, i, h, n) ==
                \A k \in 1 .. n : (i - 1) + k \in DOMAIN d /\ d[(i - 1) + k] = h[k]
  <1>6. /\ \A d, i : Lies(d, i, a) <=> Ends(d, i, f, Size(a))
        /\ \A d, i : Lies(d, i, b) <=> Ends(d, i, g, Size(b))
        /\ \A d, i : Lies(d, i, a ++ b) <=> Ends(d, i, c, Size(a ++ b))
    BY <1>5
  <1> HIDE DEF S, f, g, c
  <1>7. /\ Len(f) \in Nat /\ Len(g) \in Nat /\ Len(c) = Len(f) + Len(g)
        /\ DOMAIN c = 1 .. Len(f) + Len(g) /\ c \in Seq(S)
        /\ \A k \in 1 .. Len(f) : c[k] = f[k]
        /\ \A k \in 1 .. Len(g) : c[Len(f) + k] = g[k]
    BY <1>1
  <1>8. c \in Seq({c[i] : i \in DOMAIN c})
    <2>1. c \in [1 .. Len(c) -> {c[i] : i \in DOMAIN c}] /\ Len(c) \in Nat
      BY <1>7
    <2> QED
      BY <2>1, IsASeq
  <1>9. ASSUME NEW d, NEW i \in Nat, Ends(d, i, c, Size(a ++ b))
        PROVE  Ends(d, i, f, Size(a)) /\ Ends(d, i + Size(a), g, Size(b))
    <2>1. Ends(d, i, f, Size(a))
      BY <1>2, <1>7, <1>9
    <2>2. ASSUME NEW k \in 1 .. Size(b)
          PROVE  ((i + Size(a)) - 1) + k \in DOMAIN d /\ d[((i + Size(a)) - 1) + k] = g[k]
      <3> DEFINE j == Len(f) + k
      <3>0. k \in 1 .. Len(g) /\ Size(a ++ b) = Len(f) + Len(g)
        BY <1>2, <1>7
      <3>1. j \in 1 .. Size(a ++ b) /\ c[j] = g[k]
        BY <1>7, <3>0
      <3>2. ((i + Size(a)) - 1) + k = (i - 1) + j
        BY <1>2, <1>7
      <3> HIDE DEF j
      <3> QED
        BY <1>9, <3>1, <3>2
    <2> QED
      BY <2>1, <2>2
  <1> HIDE DEF Ends
  <1> QED
    BY <1>2, <1>3, <1>4, <1>6, <1>7, <1>8, <1>9

LEMMA FieldWritten ==
  ASSUME NEW kind, NEW width, NEW value
  PROVE  /\ Written(Field(kind, width, value)) /\ Size(Field(kind, width, value)) = 1
         /\ \A d : \A i \in Nat : Lies(d, i, Field(kind, width, value)) =>
                FieldAt(Before(d, i)) = [kind |-> kind, width |-> width, value |-> value]
  <1> DEFINE f == [kind |-> kind, width |-> width, value |-> value]
             x == Field(kind, width, value)
  <1>1. x.fields = <<f>>
    BY DEF Field
  <1>2. \A d, i : FieldAt(Before(d, i)) = IF i \in DOMAIN d THEN d[i] ELSE NoField
    BY DEF FieldAt, Before
  <1> HIDE DEF f, x
  <1>3. /\ <<f>> \in Seq({f}) /\ DOMAIN <<f>> = {1} /\ <<f>>[1] = f /\ Len(<<f>>) = 1
    OBVIOUS
  <1>4. Written(x) /\ Size(x) = 1
    BY <1>1, <1>3 DEF Written, Size, FieldsOf
  <1>5. ASSUME NEW d, NEW i \in Nat, Lies(d, i, x) PROVE FieldAt(Before(d, i)) = f
    <2>1. (i - 1) + 1 = i /\ 1 \in 1 .. 1
      OBVIOUS
    <2>2. i \in DOMAIN d /\ d[i] = f
      BY <1>1, <1>3, <1>4, <1>5, <2>1 DEF Lies
    <2> QED
      BY <1>2, <2>2
  <1> QED
    BY <1>4, <1>5 DEF f, x

LEMMA SkipsIt ==
  ASSUME NEW d, NEW i \in Nat, NEW kind, FieldAt(Before(d, i)).kind = kind
  PROVE  Skip(Before(d, i), kind) = Before(d, i + 1)
  <1> DEFINE s == Before(d, i)
             found == s.ok /\ FieldAt(s).kind = kind
  <1>1. s.ok = TRUE /\ s.at = i
    BY DEF Before
  <1>2. found = TRUE
    BY <1>1
  <1>3. Skip(s, kind) = [s EXCEPT !.at = s.at + 1, !.ok = found]
    BY DEF Skip
  <1> HIDE DEF found
  <1>4. Skip(s, kind) = [[data |-> d, at |-> i, ok |-> TRUE] EXCEPT !.at = i + 1, !.ok = TRUE]
    BY <1>1, <1>2, <1>3 DEF Before
  <1> QED
    BY <1>4 DEF Before

LEMMA FindsIt ==
  ASSUME NEW d, NEW i, NEW correct \in BOOLEAN, correct
  PROVE  Check(Before(d, i), correct) = Before(d, i)
  BY DEF Check, Before

LEMMA FieldRead ==
  ASSUME NEW d, NEW i \in Nat, NEW kind, NEW width, NEW value,
         Lies(d, i, Field(kind, width, value))
  PROVE  Expect(Before(d, i), kind, value) = Before(d, i + 1)
  <1> DEFINE f == FieldAt(Before(d, i))
  <1>1. f.kind = kind /\ f.value = value
    BY FieldWritten
  <1>2. Skip(Before(d, i), kind) = Before(d, i + 1)
    BY <1>1, SkipsIt
  <1>3. Expect(Before(d, i), kind, value) =
            Check(Before(d, i + 1), f.kind = kind => f.value = value)
    BY <1>2 DEF Expect
  <1> HIDE DEF f
  <1> QED
    BY <1>1, <1>3, FindsIt

LEMMA SixteenBits == ASSUME NEW n \in Nat, n < U16 PROVE n % U16 = n
  BY DEF U16

\* A string's characters are as many as its length says, if that fits 16 bits.
LEMMA StringRead ==
  ASSUME NEW name, NEW n \in Nat, n < U16
  PROVE  /\ Written(WriteString(name, n)) /\ Size(WriteString(name, n)) \in Nat
         /\ \A d : \A i \in Nat : Lies(d, i, WriteString(name, n)) =>
                ExpectString(Before(d, i), name, n) =
                    Before(d, i + Size(WriteString(name, n)))
  <1> DEFINE x == WriteString(name, n)
             l == Length(n)
             c == Chars(name, n)
  <1>1. l = Field("length", 2, n) /\ c = Field("chars", n, name)
    BY SixteenBits DEF Length, Chars
  <1>2. x = IF n = 0 THEN l ELSE l ++ c
    BY DEF WriteString
  <1> HIDE DEF x, l, c
  <1>3. Written(l) /\ Size(l) = 1 /\ Written(c) /\ Size(c) = 1
    BY <1>1, FieldWritten
  <1>4. Written(l ++ c) /\ Size(l ++ c) = 2
    BY <1>3, WrittenJoined
  <1>5. ASSUME NEW d, NEW i \in Nat, Lies(d, i, x)
        PROVE  ExpectString(Before(d, i), name, n) = Before(d, i + Size(x))
    <2> DEFINE told == IF FieldAt(Before(d, i)).kind = "length"
                       THEN FieldAt(Before(d, i)).value ELSE 0
               t == Check(Skip(Before(d, i), "length"), told = n)
    <2>1. Lies(d, i, l) /\ (n # 0 => Lies(d, i + 1, c))
      BY <1>2, <1>3, <1>5, WrittenJoined
    <2>2. FieldAt(Before(d, i)).kind = "length" /\ FieldAt(Before(d, i)).value = n
      BY <1>1, <2>1, FieldWritten
    <2>3. told = n
      BY <2>2
    <2>4. t = Before(d, i + 1)
      <3>1. t = Check(Before(d, i + 1), told = n)
        BY <2>2, SkipsIt
      <3> HIDE DEF t, told
      <3> QED
        BY <2>3, <3>1, FindsIt
    <2>5. ExpectString(Before(d, i), name, n) =
            IF told = 0 THEN t
            ELSE Check(Expect(t, "chars", name), FieldAt(t).width = told)
      BY DEF ExpectString
    <2> HIDE DEF told, t
    <2>6. CASE n = 0
      BY <1>2, <1>3, <2>3, <2>4, <2>5, <2>6
    <2>7. CASE n # 0
      <3>1. i + 1 \in Nat /\ (i + 1) + 1 = i + 2
        OBVIOUS
      <3>2. Expect(t, "chars", name) = Before(d, i + 2)
        BY <1>1, <2>1, <2>4, <2>7, <3>1, FieldRead
      <3>3. FieldAt(t).width = n
        BY <1>1, <2>1, <2>4, <2>7, <3>1, FieldWritten
      <3>4. Size(x) = 2
        BY <1>2, <1>4, <2>7
      <3>5. ExpectString(Before(d, i), name, n) =
              Check(Before(d, i + 2), FieldAt(t).width = told)
        BY <2>3, <2>5, <2>7, <3>2
      <3>6. Check(Before(d, i + 2), FieldAt(t).width = told) = Before(d, i + 2)
        BY <2>3, <3>3, FindsIt
      <3> QED
        BY <3>4, <3>5, <3>6
    <2> QED
      BY <2>6, <2>7
  <1> QED
    BY <1>2, <1>3, <1>4, <1>5 DEF x

LEMMA NothingWritten == Written(Nothing) /\ Size(Nothing) = 0
  BY DEF Nothing, Written, Size, FieldsOf

LEMMA Scalars ==
  ASSUME NEW v
  PROVE  /\ Written(U8(v)) /\ Size(U8(v)) = 1 /\ Written(I32(v)) /\ Size(I32(v)) = 1
         /\ Written(Float(v)) /\ Size(Float(v)) = 1 /\ Written(Index(v)) /\ Size(Index(v)) = 1
         /\ \A d : \A i \in Nat :
                /\ Lies(d, i, U8(v)) => Expect(Before(d, i), "u8", v) = Before(d, i + 1)
                /\ Lies(d, i, I32(v)) => Expect(Before(d, i), "i32", v) = Before(d, i + 1)
                /\ Lies(d, i, Float(v)) => Expect(Before(d, i), "f32", v) = Before(d, i + 1)
                /\ Lies(d, i, Index(v)) =>
                        Expect(Before(d, i), "index", v % U16) = Before(d, i + 1)
  BY FieldWritten, FieldRead DEF U8, I32, Float, Index

\* A flag tells its reader what the writer meant by it.
LEMMA FlagRead ==
  ASSUME NEW set \in BOOLEAN, NEW d, NEW i \in Nat, Lies(d, i, U8(When(set, 1, 0)))
  PROVE  /\ Skip(Before(d, i), "u8") = Before(d, i + 1)
         /\ Flag(Before(d, i)) <=> set
  <1>1. /\ FieldAt(Before(d, i)).kind = "u8"
        /\ FieldAt(Before(d, i)).value = When(set, 1, 0)
    BY FieldWritten DEF U8
  <1> QED
    BY <1>1, SkipsIt DEF Flag, When

-----------------------------------------------------------------------------
(***************************************************************************)
(* What is behind the number of a request, for each type.                  *)
(***************************************************************************)
LEMMA RegistrationRead ==
  ASSUME NEW r, r.display_name \in Nat, r.connection_password \in Nat,
         r.command_password \in Nat, r.display_name < U16, r.connection_password < U16,
         r.command_password < U16,
         NEW x, x = U8(ACC_BROADCASTING_PROTOCOL_VERSION)
                    ++ WriteString("display_name", r.display_name)
                    ++ WriteString("connection_password", r.connection_password)
                    ++ I32("update_interval")
                    ++ WriteString("command_password", r.command_password)
  PROVE  /\ Written(x)
         /\ \A d : \A i \in Nat : Lies(d, i, x) =>
                ExpectRegistration(Before(d, i), r) = Before(d, i + Size(x))
  <1> DEFINE v == U8(ACC_BROADCASTING_PROTOCOL_VERSION)
             n == WriteString("display_name", r.display_name)
             p == WriteString("connection_password", r.connection_password)
             u == I32("update_interval")
             c == WriteString("command_password", r.command_password)
  <1>1. x = v ++ n ++ p ++ u ++ c
    OBVIOUS
  <1>2. /\ Written(v) /\ Written(n) /\ Written(p) /\ Written(u) /\ Written(c)
        /\ Size(v) = 1 /\ Size(u) = 1 /\ Size(n) \in Nat /\ Size(p) \in Nat /\ Size(c) \in Nat
    BY Scalars, StringRead
  <1>3. \A d : \A i \in Nat :
            /\ Lies(d, i, v) =>
                 Expect(Before(d, i), "u8", ACC_BROADCASTING_PROTOCOL_VERSION) = Before(d, i + 1)
            /\ Lies(d, i, n) =>
                 ExpectString(Before(d, i), "display_name", r.display_name)
                    = Before(d, i + Size(n))
            /\ Lies(d, i, p) =>
                 ExpectString(Before(d, i), "connection_password", r.connection_password)
                    = Before(d, i + Size(p))
            /\ Lies(d, i, u) => Expect(Before(d, i), "i32", "update_interval") = Before(d, i + 1)
            /\ Lies(d, i, c) =>
                 ExpectString(Before(d, i), "command_password", r.command_password)
                    = Before(d, i + Size(c))
    BY Scalars, StringRead
  <1> HIDE DEF v, n, p, u, c
  <1>4. /\ Written(v ++ n) /\ Written(v ++ n ++ p) /\ Written(v ++ n ++ p ++ u) /\ Written(x)
        /\ Size(v ++ n) = 1 + Size(n) /\ Size(v ++ n ++ p) = 1 + Size(n) + Size(p)
        /\ Size(v ++ n ++ p ++ u) = 1 + Size(n) + Size(p) + 1
        /\ Size(x) = 1 + Size(n) + Size(p) + 1 + Size(c)
    BY <1>1, <1>2, WrittenJoined
  <1>5. ASSUME NEW d, NEW i \in Nat, Lies(d, i, x)
        PROVE  ExpectRegistration(Before(d, i), r) = Before(d, i + Size(x))
    <2>1. /\ Lies(d, i, v ++ n ++ p ++ u) /\ Lies(d, i + Size(v ++ n ++ p ++ u), c)
      BY <1>1, <1>2, <1>4, <1>5, WrittenJoined
    <2>2. Lies(d, i, v ++ n ++ p) /\ Lies(d, i + Size(v ++ n ++ p), u)
      BY <1>2, <1>4, <2>1, WrittenJoined
    <2>3. Lies(d, i, v ++ n) /\ Lies(d, i + Size(v ++ n), p)
      BY <1>2, <1>4, <2>2, WrittenJoined
    <2>4. Lies(d, i, v) /\ Lies(d, i + 1, n)
      BY <1>2, <2>3, WrittenJoined
    <2> DEFINE j == i + 1
               k == j + Size(n)
               l == k + Size(p)
               m == l + 1
    <2>5. /\ j \in Nat /\ k \in Nat /\ l \in Nat /\ m \in Nat
          /\ i + Size(v ++ n) = k /\ i + Size(v ++ n ++ p) = l
          /\ i + Size(v ++ n ++ p ++ u) = m /\ i + Size(x) = m + Size(c)
      BY <1>2, <1>4
    <2>6. Lies(d, i, v) /\ Lies(d, j, n) /\ Lies(d, k, p) /\ Lies(d, l, u) /\ Lies(d, m, c)
      BY <2>1, <2>2, <2>3, <2>4, <2>5
    <2>7. /\ Expect(Before(d, i), "u8", ACC_BROADCASTING_PROTOCOL_VERSION) = Before(d, j)
          /\ ExpectString(Before(d, j), "display_name", r.display_name) = Before(d, k)
          /\ ExpectString(Before(d, k), "connection_password", r.connection_password)
                = Before(d, l)
          /\ Expect(Before(d, l), "i32", "update_interval") = Before(d, m)
          /\ ExpectString(Before(d, m), "command_password", r.command_password)
                = Before(d, m + Size(c))
      BY <1>3, <2>5, <2>6
    <2> HIDE DEF j, k, l, m
    <2> QED
      BY <2>5, <2>7 DEF ExpectRegistration
  <1> QED
    BY <1>4, <1>5

LEMMA ReplayRead ==
  ASSUME NEW r, r.initial_camera_set \in Nat, r.initial_camera \in Nat,
         r.initial_camera_set < U16, r.initial_camera < U16,
         NEW x, x = I32("connection_id") ++ Float("start_session_time") ++ Float("duration")
                    ++ I32("initial_focused_car_index")
                    ++ WriteString("initial_camera_set", r.initial_camera_set)
                    ++ WriteString("initial_camera", r.initial_camera)
  PROVE  /\ Written(x)
         /\ \A d : \A i \in Nat : Lies(d, i, x) =>
                ExpectReplay(Expect(Before(d, i), "i32", "connection_id"), r)
                    = Before(d, i + Size(x))
  <1> DEFINE a == I32("connection_id")
             b == Float("start_session_time")
             c == Float("duration")
             e == I32("initial_focused_car_index")
             f == WriteString("initial_camera_set", r.initial_camera_set)
             g == WriteString("initial_camera", r.initial_camera)
  <1>1. x = a ++ b ++ c ++ e ++ f ++ g
    OBVIOUS
  <1>2. /\ Written(a) /\ Written(b) /\ Written(c) /\ Written(e) /\ Written(f) /\ Written(g)
        /\ Size(a) = 1 /\ Size(b) = 1 /\ Size(c) = 1 /\ Size(e) = 1
        /\ Size(f) \in Nat /\ Size(g) \in Nat
    BY Scalars, StringRead
  <1>3. \A d : \A i \in Nat :
            /\ Lies(d, i, a) => Expect(Before(d, i), "i32", "connection_id") = Before(d, i + 1)
            /\ Lies(d, i, b) =>
                 Expect(Before(d, i), "f32", "start_session_time") = Before(d, i + 1)
            /\ Lies(d, i, c) => Expect(Before(d, i), "f32", "duration") = Before(d, i + 1)
            /\ Lies(d, i, e) =>
                 Expect(Before(d, i), "i32", "initial_focused_car_index") = Before(d, i + 1)
            /\ Lies(d, i, f) =>
                 ExpectString(Before(d, i), "initial_camera_set", r.initial_camera_set)
                    = Before(d, i + Size(f))
            /\ Lies(d, i, g) =>
                 ExpectString(Before(d, i), "initial_camera", r.initial_camera)
                    = Before(d, i + Size(g))
    BY Scalars, StringRead
  <1> HIDE DEF a, b, c, e, f, g
  <1>4. /\ Written(a ++ b) /\ Size(a ++ b) = 2
        /\ Written(a ++ b ++ c) /\ Size(a ++ b ++ c) = 3
    BY <1>2, WrittenJoined
  <1>5. /\ Written(a ++ b ++ c ++ e) /\ Size(a ++ b ++ c ++ e) = 4
        /\ Written(a ++ b ++ c ++ e ++ f) /\ Size(a ++ b ++ c ++ e ++ f) = 4 + Size(f)
        /\ Written(x) /\ Size(x) = 4 + Size(f) + Size(g)
    BY <1>1, <1>2, <1>4, WrittenJoined
  <1>6. ASSUME NEW d, NEW i \in Nat, Lies(d, i, x)
        PROVE  ExpectReplay(Expect(Before(d, i), "i32", "connection_id"), r)
                    = Before(d, i + Size(x))
    <2>1. Lies(d, i, a ++ b ++ c ++ e ++ f) /\ Lies(d, i + (4 + Size(f)), g)
      BY <1>1, <1>2, <1>5, <1>6, WrittenJoined
    <2>2. Lies(d, i, a ++ b ++ c ++ e) /\ Lies(d, i + 4, f)
      BY <1>2, <1>5, <2>1, WrittenJoined
    <2>3. Lies(d, i, a ++ b ++ c) /\ Lies(d, i + 3, e)
      BY <1>2, <1>4, <2>2, WrittenJoined
    <2>4. Lies(d, i, a ++ b) /\ Lies(d, i + 2, c)
      BY <1>2, <1>4, <2>3, WrittenJoined
    <2>5. Lies(d, i, a) /\ Lies(d, i + 1, b)
      BY <1>2, <2>4, WrittenJoined
    <2> DEFINE m == i + (4 + Size(f))
    <2>6. /\ m \in Nat /\ (i + 4) + Size(f) = m /\ i + Size(x) = m + Size(g)
          /\ i + 1 \in Nat /\ i + 2 \in Nat /\ i + 3 \in Nat /\ i + 4 \in Nat
          /\ (i + 1) + 1 = i + 2 /\ (i + 2) + 1 = i + 3 /\ (i + 3) + 1 = i + 4
      BY <1>2, <1>5
    <2>7. /\ Expect(Before(d, i), "i32", "connection_id") = Before(d, i + 1)
          /\ Expect(Before(d, i + 1), "f32", "start_session_time") = Before(d, i + 2)
          /\ Expect(Before(d, i + 2), "f32", "duration") = Before(d, i + 3)
          /\ Expect(Before(d, i + 3), "i32", "initial_focused_car_index") = Before(d, i + 4)
          /\ ExpectString(Before(d, i + 4), "initial_camera_set", r.initial_camera_set)
                = Before(d, m)
          /\ ExpectString(Before(d, m), "initial_camera", r.initial_camera)
                = Before(d, m + Size(g))
      BY <1>3, <2>1, <2>2, <2>3, <2>4, <2>5, <2>6
    <2> HIDE DEF m
    <2> QED
      BY <2>6, <2>7 DEF ExpectReplay
  <1> QED
    BY <1>5, <1>6

\* The car index and the cameras are there when their flags are set.
LEMMA FocusRead ==
  ASSUME NEW r, r.camera_set \in Nat, r.camera \in Nat, r.car_index \in Int,
         r.camera_set < U16, r.camera < U16
  PROVE  /\ Written(WriteFocus(r))
         /\ \A d : \A i \in Nat : Lies(d, i, WriteFocus(r)) =>
                ExpectCameras(ExpectCarIndex(Expect(Before(d, i), "i32", "connection_id"), r), r)
                    = Before(d, i + Size(WriteFocus(r)))
  <1> DEFINE a == I32("connection_id")
             b == U8(When(HasCarIndex(r), 1, 0))
             c == When(HasCarIndex(r), Index(r.car_index), Nothing)
             e == U8(When(HasCameras(r), 1, 0))
             f == WriteString("camera_set", r.camera_set)
             g == WriteString("camera", r.camera)
             h == When(HasCameras(r), f ++ g, Nothing)
             x == WriteFocus(r)
  <1>1. x = a ++ b ++ c ++ e ++ h
    BY DEF WriteFocus
  <1>2. /\ Written(a) /\ Written(b) /\ Written(e) /\ Written(f) /\ Written(g)
        /\ Size(a) = 1 /\ Size(b) = 1 /\ Size(e) = 1 /\ Size(f) \in Nat /\ Size(g) \in Nat
    BY Scalars, StringRead
  <1>3. Written(c) /\ Size(c) = When(HasCarIndex(r), 1, 0)
    BY Scalars, NothingWritten DEF When
  <1>4. /\ c = When(HasCarIndex(r), Index(r.car_index), Nothing)
        /\ h = When(HasCameras(r), f ++ g, Nothing)
        /\ HasCarIndex(r) \in BOOLEAN /\ HasCameras(r) \in BOOLEAN
    BY DEF HasCarIndex, HasCameras
  <1>5. \A d : \A i \in Nat :
            /\ Lies(d, i, a) => Expect(Before(d, i), "i32", "connection_id") = Before(d, i + 1)
            /\ Lies(d, i, b) => /\ Skip(Before(d, i), "u8") = Before(d, i + 1)
                                /\ Flag(Before(d, i)) <=> HasCarIndex(r)
            /\ Lies(d, i, e) => /\ Skip(Before(d, i), "u8") = Before(d, i + 1)
                                /\ Flag(Before(d, i)) <=> HasCameras(r)
            /\ Lies(d, i, f) =>
                 ExpectString(Before(d, i), "camera_set", r.camera_set) = Before(d, i + Size(f))
            /\ Lies(d, i, g) =>
                 ExpectString(Before(d, i), "camera", r.camera) = Before(d, i + Size(g))
    BY <1>4, Scalars, StringRead, FlagRead
  <1> HIDE DEF a, b, c, e, f, g, h, x
  <1>6. /\ Written(f ++ g) /\ Size(f ++ g) = Size(f) + Size(g)
        /\ Written(h) /\ Size(h) = When(HasCameras(r), Size(f) + Size(g), 0)
        /\ Size(c) \in Nat /\ Size(h) \in Nat
    BY <1>2, <1>3, <1>4, WrittenJoined, NothingWritten DEF When
  <1>7. /\ Written(a ++ b) /\ Size(a ++ b) = 2
        /\ Written(a ++ b ++ c) /\ Size(a ++ b ++ c) = 2 + Size(c)
    BY <1>2, <1>3, <1>6, WrittenJoined
  <1>8. /\ Written(a ++ b ++ c ++ e) /\ Size(a ++ b ++ c ++ e) = 3 + Size(c)
        /\ Written(x) /\ Size(x) = 3 + Size(c) + Size(h)
    BY <1>1, <1>2, <1>6, <1>7, WrittenJoined
  <1>9. ASSUME NEW d, NEW i \in Nat, Lies(d, i, x)
        PROVE  ExpectCameras(ExpectCarIndex(Expect(Before(d, i), "i32", "connection_id"), r), r)
                    = Before(d, i + Size(x))
    <2> DEFINE k == i + (2 + Size(c))
    <2>1. Lies(d, i, a ++ b ++ c ++ e) /\ Lies(d, i + (3 + Size(c)), h)
      BY <1>1, <1>6, <1>8, <1>9, WrittenJoined
    <2>2. Lies(d, i, a ++ b ++ c) /\ Lies(d, k, e)
      BY <1>2, <1>7, <2>1, WrittenJoined
    <2>3. Lies(d, i, a ++ b) /\ Lies(d, i + 2, c)
      BY <1>3, <1>7, <2>2, WrittenJoined
    <2>4. Lies(d, i, a) /\ Lies(d, i + 1, b)
      BY <1>2, <2>3, WrittenJoined
    <2>5. /\ k \in Nat /\ i + (3 + Size(c)) = k + 1 /\ i + Size(x) = (k + 1) + Size(h)
          /\ i + 1 \in Nat /\ i + 2 \in Nat /\ (i + 1) + 1 = i + 2 /\ k = (i + 2) + Size(c)
      BY <1>6, <1>8
    <2> HIDE DEF k
    <2>6. Expect(Before(d, i), "i32", "connection_id") = Before(d, i + 1)
      BY <1>5, <2>4
    <2>7. ExpectCarIndex(Before(d, i + 1), r) = Before(d, k)
      <3> DEFINE s == Before(d, i + 1)
                 t == Check(Skip(s, "u8"), Flag(s) <=> r.car_index >= 0)
      <3>1. Skip(s, "u8") = Before(d, i + 2) /\ (Flag(s) <=> r.car_index >= 0)
        BY <1>5, <2>4, <2>5 DEF HasCarIndex
      <3>2. t = Before(d, i + 2)
        BY <3>1, FindsIt
      <3>3. ExpectCarIndex(s, r) = IF Flag(s) THEN Expect(t, "index", r.car_index % U16) ELSE t
        BY DEF ExpectCarIndex
      <3> HIDE DEF s, t
      <3>4. CASE HasCarIndex(r)
        <4>1. Lies(d, i + 2, Index(r.car_index)) /\ Size(c) = 1
          BY <1>3, <1>4, <2>3, <3>4 DEF When
        <4>2. Expect(Before(d, i + 2), "index", r.car_index % U16) = Before(d, (i + 2) + 1)
          BY <2>5, <4>1, Scalars
        <4> QED
          BY <2>5, <3>1, <3>2, <3>3, <3>4, <4>1, <4>2 DEF HasCarIndex, s
      <3>5. CASE ~HasCarIndex(r)
        <4>1. Size(c) = 0
          BY <1>3, <3>5 DEF When
        <4> QED
          BY <2>5, <3>1, <3>2, <3>3, <3>5, <4>1 DEF HasCarIndex, s
      <3> QED
        BY <3>4, <3>5
    <2>8. ExpectCameras(Before(d, k), r) = Before(d, i + Size(x))
      <3> DEFINE s == Before(d, k)
                 t == Skip(s, "u8")
      <3>1. t = Before(d, k + 1) /\ (Flag(s) <=> HasCameras(r))
        BY <1>5, <2>2, <2>5
      <3>2. ExpectCameras(s, r) =
              IF Flag(s)
              THEN ExpectString(ExpectString(t, "camera_set", r.camera_set), "camera", r.camera)
              ELSE Check(t, r.camera_set = 0 /\ r.camera = 0)
        BY DEF ExpectCameras
      <3> HIDE DEF s, t
      <3>3. CASE HasCameras(r)
        <4>1. /\ Lies(d, k + 1, f ++ g) /\ Size(h) = Size(f) + Size(g)
              /\ k + 1 \in Nat /\ (k + 1) + Size(f) \in Nat
          BY <1>2, <1>4, <1>6, <2>1, <2>5, <3>3 DEF When
        <4>2. Lies(d, k + 1, f) /\ Lies(d, (k + 1) + Size(f), g)
          BY <1>2, <4>1, WrittenJoined
        <4>3. /\ ExpectString(Before(d, k + 1), "camera_set", r.camera_set)
                    = Before(d, (k + 1) + Size(f))
              /\ ExpectString(Before(d, (k + 1) + Size(f)), "camera", r.camera)
                    = Before(d, ((k + 1) + Size(f)) + Size(g))
          BY <1>5, <4>1, <4>2
        <4>4. ((k + 1) + Size(f)) + Size(g) = i + Size(x)
          BY <1>2, <2>5, <4>1
        <4> QED
          BY <3>1, <3>2, <3>3, <4>3, <4>4 DEF s
      <3>4. CASE ~HasCameras(r)
        <4>1. r.camera_set = 0 /\ r.camera = 0
          BY <3>4 DEF HasCameras
        <4>2. Size(h) = 0 /\ i + Size(x) = k + 1
          BY <1>6, <2>5, <3>4 DEF When
        <4>3. Check(Before(d, k + 1), r.camera_set = 0 /\ r.camera = 0) = Before(d, k + 1)
          BY <4>1, FindsIt
        <4> QED
          BY <3>1, <3>2, <3>4, <4>2, <4>3 DEF s
      <3> QED
        BY <3>3, <3>4
    <2> QED
      BY <2>6, <2>7, <2>8
  <1> QED
    BY <1>8, <1>9 DEF x

LEMMA ReadByType ==
  ASSUME NEW s, NEW r
  PROVE  LET t == Expect(s, "i32", "connection_id") IN
         /\ r.type = "REGISTER_COMMAND_APPLICATION" => ExpectRequest(s, r) = ExpectRegistration(s, r)
         /\ r.type = "UNREGISTER_COMMAND_APPLICATION" => ExpectRequest(s, r) = s
         /\ r.type = "REQUEST_ENTRY_LIST" => ExpectRequest(s, r) = t
         /\ r.type = "REQUEST_TRACK_DATA" => ExpectRequest(s, r) = t
         /\ r.type = "CHANGE_HUD_PAGE" => ExpectRequest(s, r) = ExpectString(t, "hud_page", r.hud_page)
         /\ r.type = "CHANGE_FOCUS" => ExpectRequest(s, r) = ExpectCameras(ExpectCarIndex(t, r), r)
         /\ r.type = "INSTANT_REPLAY_REQUEST" => ExpectRequest(s, r) = ExpectReplay(t, r)
  BY Zenon DEF ExpectRequest

LEMMA HudPageRead ==
  ASSUME NEW r, r.hud_page \in Nat, r.hud_page < U16,
         NEW x, x = I32("connection_id") ++ WriteString("hud_page", r.hud_page)
  PROVE  /\ Written(x)
         /\ \A d : \A i \in Nat : Lies(d, i, x) =>
                ExpectString(Expect(Before(d, i), "i32", "connection_id"), "hud_page", r.hud_page)
                    = Before(d, i + Size(x))
  <1> DEFINE a == I32("connection_id")
             w == WriteString("hud_page", r.hud_page)
  <1>1. /\ Written(a) /\ Size(a) = 1 /\ Written(w) /\ Size(w) \in Nat /\ x = a ++ w
        /\ \A d : \A i \in Nat :
             /\ Lies(d, i, a) => Expect(Before(d, i), "i32", "connection_id") = Before(d, i + 1)
             /\ Lies(d, i, w) =>
                  ExpectString(Before(d, i), "hud_page", r.hud_page) = Before(d, i + Size(w))
    BY Scalars, StringRead
  <1> HIDE DEF a, w
  <1>2. Written(x) /\ Size(x) = 1 + Size(w)
    BY <1>1, WrittenJoined
  <1>3. ASSUME NEW d, NEW i \in Nat, Lies(d, i, x)
        PROVE  ExpectString(Expect(Before(d, i), "i32", "connection_id"), "hud_page", r.hud_page)
                    = Before(d, i + Size(x))
    <2>1. Lies(d, i, a) /\ Lies(d, i + 1, w)
      BY <1>1, <1>3, WrittenJoined
    <2>2. i + 1 \in Nat /\ (i + 1) + Size(w) = i + Size(x)
      BY <1>1, <1>2
    <2> QED
      BY <1>1, <2>1, <2>2
  <1> QED
    BY <1>2, <1>3

\* What the request's data is read as, behind its number.
LEMMA DataRead ==
  ASSUME NEW r \in Request, WriteRequest(r).total < U16
  PROVE  \E x : /\ WriteRequest(r).written = U8(Number[r.type]) ++ x /\ Written(x)
                /\ \A d : \A i \in Nat :
                        Lies(d, i, x) => ExpectRequest(Before(d, i), r) = Before(d, i + Size(x))
  <1> USE SwitchedByType, ReadByType DEF Passes
  <1>1. CASE r.type = "REGISTER_COMMAND_APPLICATION"
    <2> DEFINE x == U8(ACC_BROADCASTING_PROTOCOL_VERSION)
                    ++ WriteString("display_name", r.display_name)
                    ++ WriteString("connection_password", r.connection_password)
                    ++ I32("update_interval")
                    ++ WriteString("command_password", r.command_password)
    <2>1. /\ r.display_name \in Nat /\ r.connection_password \in Nat
          /\ r.command_password \in Nat
      BY <1>1, RequestCases
    <2>2. WriteRequest(r).written = U8(Number[r.type]) ++ x
      BY <1>1 DEF WriteRegisterApplication
    <2>3. /\ r.display_name < U16 /\ r.connection_password < U16 /\ r.command_password < U16
      BY <1>1, <2>1 DEF WriteRegisterApplication, U16
    <2>4. /\ Written(x)
          /\ \A d : \A i \in Nat : Lies(d, i, x) =>
                ExpectRegistration(Before(d, i), r) = Before(d, i + Size(x))
      BY <2>1, <2>3, RegistrationRead
    <2> HIDE DEF x
    <2> QED
      BY <1>1, <2>2, <2>4
  <1>2. CASE r.type = "UNREGISTER_COMMAND_APPLICATION"
    <2>1. WriteRequest(r).written = U8(Number[r.type]) ++ Nothing
      BY <1>2 DEF WriteUnregisterApplication
    <2>2. \A i \in Nat : i + Size(Nothing) = i
      BY NothingWritten
    <2> QED
      BY <1>2, <2>1, <2>2, NothingWritten
  <1>3. CASE r.type = "REQUEST_ENTRY_LIST" \/ r.type = "REQUEST_TRACK_DATA"
    <2> DEFINE x == I32("connection_id")
    <2>1. WriteRequest(r).written = U8(Number[r.type]) ++ x
      BY <1>3 DEF WriteRequestEntryList, WriteRequestTrackData
    <2>2. /\ Written(x) /\ Size(x) = 1
          /\ \A d : \A i \in Nat :
               Lies(d, i, x) => Expect(Before(d, i), "i32", "connection_id") = Before(d, i + 1)
      BY Scalars
    <2> HIDE DEF x
    <2> QED
      BY <1>3, <2>1, <2>2
  <1>4. CASE r.type = "CHANGE_HUD_PAGE"
    <2> DEFINE x == I32("connection_id") ++ WriteString("hud_page", r.hud_page)
    <2>1. r.hud_page \in Nat /\ r.hud_page < U16
      BY <1>4, RequestCases DEF WriteChangeHudPage, U16
    <2>2. WriteRequest(r).written = U8(Number[r.type]) ++ x
      BY <1>4 DEF WriteChangeHudPage
    <2>3. /\ Written(x)
          /\ \A d : \A i \in Nat : Lies(d, i, x) =>
                ExpectString(Expect(Before(d, i), "i32", "connection_id"), "hud_page", r.hud_page)
                    = Before(d, i + Size(x))
      BY <2>1, HudPageRead
    <2> HIDE DEF x
    <2> QED
      BY <1>4, <2>2, <2>3
  <1>5. CASE r.type = "CHANGE_FOCUS"
    <2>1. r.car_index \in Int /\ r.camera_set \in Nat /\ r.camera \in Nat
      BY <1>5, RequestCases
    <2>2. r.camera_set < U16 /\ r.camera < U16
      BY <1>5, <2>1 DEF WriteChangeFocus, FocusTotal, When, HasCarIndex, HasCameras, U16
    <2>3. WriteRequest(r).written = U8(Number[r.type]) ++ WriteFocus(r)
      BY <1>5 DEF WriteChangeFocus
    <2> QED
      BY <1>5, <2>1, <2>2, <2>3, FocusRead
  <1>6. CASE r.type = "INSTANT_REPLAY_REQUEST"
    <2> DEFINE x == I32("connection_id") ++ Float("start_session_time") ++ Float("duration")
                    ++ I32("initial_focused_car_index")
                    ++ WriteString("initial_camera_set", r.initial_camera_set)
                    ++ WriteString("initial_camera", r.initial_camera)
    <2>1. r.initial_camera_set \in Nat /\ r.initial_camera \in Nat
      BY <1>6, RequestCases
    <2>2. WriteRequest(r).written = U8(Number[r.type]) ++ x
      BY <1>6 DEF WriteInstantReplayRequest
    <2>3. r.initial_camera_set < U16 /\ r.initial_camera < U16
      BY <1>6, <2>1 DEF WriteInstantReplayRequest, U16
    <2>4. /\ Written(x)
          /\ \A d : \A i \in Nat : Lies(d, i, x) =>
                ExpectReplay(Expect(Before(d, i), "i32", "connection_id"), r)
                    = Before(d, i + Size(x))
      BY <2>1, <2>3, ReplayRead
    <2> HIDE DEF x
    <2> QED
      BY <1>6, <2>2, <2>4
  <1> QED
    BY <1>1, <1>2, <1>3, <1>4, <1>5, <1>6, RequestCases

(***************************************************************************)
(* A request that fits a datagram gives a reader the whole request back:   *)
(* each string in its place and of its length, the car index's 16 bits and *)
(* the cameras where the flags say they are, and nothing left over.        *)
(***************************************************************************)
THEOREM WhatFitsIsUnderstood ==
  ASSUME NEW r \in Request, WriteRequest(r).total < U16
  PROVE  Understood(r, WriteRequest(r).written.fields)
  <1> DEFINE d == WriteRequest(r).written.fields
             n == U8(Number[r.type])
  <1>1. PICK x : /\ WriteRequest(r).written = n ++ x /\ Written(x)
                 /\ \A e : \A i \in Nat :
                        Lies(e, i, x) => ExpectRequest(Before(e, i), r) = Before(e, i + Size(x))
    BY DataRead
  <1>2. Written(n) /\ Size(n) = 1
    BY Scalars
  <1>3. Written(n ++ x) /\ Size(n ++ x) = 1 + Size(x) /\ Len(d) = Size(n ++ x)
    BY <1>1, <1>2, WrittenJoined DEF Size
  <1>4. Lies(d, 1, n ++ x)
    <2>1. d \in Seq(FieldsOf(n ++ x)) /\ d = (n ++ x).fields
      BY <1>1, <1>3 DEF Written
    <2>2. DOMAIN d = 1 .. Size(n ++ x) /\ Size(n ++ x) \in Nat
      BY <1>3, <2>1
    <2> HIDE DEF d, n
    <2>3. \A k \in 1 .. Size(n ++ x) : (1 - 1) + k = k
      BY <2>2
    <2> QED
      BY <2>1, <2>2, <2>3 DEF Lies
  <1>5. Lies(d, 1, n) /\ Lies(d, 2, x)
    BY <1>1, <1>2, <1>4, WrittenJoined
  <1>6. Expect(Before(d, 1), "u8", Number[r.type]) = Before(d, 2)
    BY <1>5, Scalars
  <1> HIDE DEF d, n
  <1>7. ExpectRequest(Before(d, 2), r) = Before(d, 2 + Size(x))
    BY <1>1, <1>5
  <1>8. 2 + Size(x) = Len(d) + 1
    <2>1. Size(x) \in Nat
      BY <1>1 DEF Written, Size
    <2> QED
      BY <1>3, <2>1
  <1>9. NewReader(d) = Before(d, 1) /\ Before(d, 2 + Size(x)).ok
        /\ Before(d, 2 + Size(x)).at = 2 + Size(x)
    BY DEF NewReader, Before
  <1>10. Understood(r, d)
    BY <1>6, <1>7, <1>8, <1>9 DEF Understood
  <1> QED
    BY <1>10 DEF d
=============================================================================
