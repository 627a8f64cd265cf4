------------------------- MODULE AccResponseProofs --------------------------
(***************************************************************************)
(* Proofs about the response that AccReader builds: which of its members   *)
(* have been read and which blocks it owns, for any counts, lengths and    *)
(* sizes of datagrams.                                                     *)
(***************************************************************************)
EXTENDS AccReaderProofs, SequenceTheorems

-----------------------------------------------------------------------------
(***************************************************************************)
(* The items of a layout as a set, and the paths that items of some kinds  *)
(* have, the elements that a loop has still to read included.              *)
(***************************************************************************)
IsSeq(s) == s \in Seq({s[i] : i \in DOMAIN s})

Items(s) == {s[i] : i \in DOMAIN s}

LastOf(p) == p[Len(p)]

\* What an array of each name holds.
ElementOf == [
    splits |-> "int32_t", indexes |-> "uint16_t",
    driver_infos |-> "acc_driver_info_t", camera_sets |-> "acc_camera_set_t",
    hud_pages |-> "string_t", cameras |-> "string_t"]

OfKind(K, X) == {x.path : x \in {y \in X : y.kind \in K}}

ElementPaths(K, p, from, size) ==
    {(p \o <<k>>) \o m : k \in from .. size - 1,
                         m \in OfKind(K, Items(Element[ElementOf[LastOf(p)]]))}

PathsOf(K, x) ==
    IF x.kind = "loop" THEN ElementPaths(K, x.path, x.index, x.size)
    ELSE IF x.kind \in K THEN {x.path} ELSE {}

Pending(K, X) == UNION {PathsOf(K, x) : x \in X}

\* The paths of these kinds that a response of type t has in all, as far as the
\* sizes z of its arrays are known.
ArrayPaths(K, z) == UNION {ElementPaths(K, p, 0, z[p]) : p \in DOMAIN z}

Expected(K, t, z) == Pending(K, Items(Layout[t])) \cup ArrayPaths(K, z)

ArrayKinds  == {"array"}
BlockKinds  == {"string", "array"}
MemberKinds == DOMAIN Width \cup {"string", "array", "replay", "lap_type"}

-----------------------------------------------------------------------------
(***************************************************************************)
(* Which paths an item may read, itself or by the items that replace it,   *)
(* and which it may assign: the end of a lap makes up splits.              *)
(***************************************************************************)
Extends(q, p) == IsSeq(q) /\ Len(p) <= Len(q) /\ \A i \in 1 .. Len(p) : q[i] = p[i]

Reads(x, q) ==
    CASE x.kind = "array" -> Extends(q, x.path)
      [] x.kind = "loop" ->
            /\ Extends(q, x.path) /\ Len(q) > Len(x.path)
            /\ q[Len(x.path) + 1] \in Nat /\ q[Len(x.path) + 1] >= x.index
      [] x.kind = "replay" -> q = x.path \/ q \in OfKind({"f32"}, Items(ReplayTimes))
      [] OTHER -> q = x.path

SplitsOf(x) == [x.path EXCEPT ![2] = "splits"]

Writes(x, q) ==
    \/ Reads(x, q)
    \/ x.kind = "lap_type" /\ Extends(q, SplitsOf(x))

Clear(x, y) == \A q : ~(Writes(x, q) /\ Reads(y, q))

Ordered(s) == \A i, j \in DOMAIN s : i < j => Clear(s[i], s[j])

Unread(s, m) == Ordered(s) /\ \A x \in Items(s), q \in m : ~Reads(x, q)

-----------------------------------------------------------------------------
(***************************************************************************)
(* The inductive invariant: of a response of type t, what its parse has    *)
(* done and what it has still to do make up the whole of it.  s is todo,   *)
(* z, m and h are the response's sizes, members and heap.                  *)
(***************************************************************************)
IsArrayPath(p) == IsSeq(p) /\ p # <<>> /\ LastOf(p) \in DOMAIN ElementOf

FieldsOfKind(kind) ==
    {"path", "kind"} \cup CASE kind = "array" -> {"count", "element"}
                           [] kind = "loop"  -> {"element", "index", "size"}
                           [] OTHER -> {}

ItemOK(x, t, z) ==
    /\ x.kind \in MemberKinds \cup {"loop"}
    /\ DOMAIN x = FieldsOfKind(x.kind)
    /\ IsSeq(x.path)
    /\ x.kind \in {"array", "loop"} =>
        IsArrayPath(x.path) /\ x.element = ElementOf[LastOf(x.path)]
    /\ x.kind = "array" /\ t # "ENTRY_LIST" => x.count = "u8"
    /\ x.kind = "array" /\ t = "ENTRY_LIST" => x.count = "u16"
    /\ x.kind = "loop" =>
        /\ x.path \in DOMAIN z
        /\ x.index \in Nat /\ x.size \in Nat /\ x.size <= z[x.path]
        /\ t # "ENTRY_LIST" => x.size < IndexRange
    /\ x.kind = "replay" => x.path = <<"is_replay_playing">>
    /\ x.kind = "lap_type" => Len(x.path) = 2

\* Only the loop of an entry list may be overlong.
EntryListOK(s, z) ==
    \/ DOMAIN z = {} /\ s \in {EntryList, Tail(EntryList)}
    \/ \A x \in Items(s) : \/ x.kind = "u16"
                           \/ x.kind = "loop" /\ x.element = "uint16_t"

Exact(t, z) == t = "ENTRY_LIST" => \A p \in DOMAIN z : z[p] < IndexRange

WellFormed(t, s, z, m) ==
    /\ t \in DOMAIN Layout
    /\ IsSeq(s) /\ \A x \in Items(s) : ItemOK(x, t, z)
    /\ DOMAIN z \subseteq m
    /\ \A p \in DOMAIN z : IsArrayPath(p) /\ z[p] \in Nat
    /\ t = "ENTRY_LIST" => EntryListOK(s, z)

Accounts(t, s, z, m, h) ==
    /\ h \cup Pending(BlockKinds, Items(s)) = {<<>>} \cup Expected(BlockKinds, t, z)
    /\ DOMAIN z \cup Pending(ArrayKinds, Items(s)) = Expected(ArrayKinds, t, z)
    /\ Expected(MemberKinds, t, z) \subseteq m \cup Pending(MemberKinds, Items(s))

Body(t, s, z, m, h) ==
    /\ WellFormed(t, s, z, m)
    /\ Exact(t, z) => Unread(s, m)
    /\ Accounts(t, s, z, m, h)

ResponseInv ==
    /\ receiving = "parse" \/ ready => Body(type, todo, sizes, members, heap)
    /\ ready => todo = <<>>
    /\ receiving = "idle" /\ ~ready => DOMAIN sizes = {} /\ members = {}

-----------------------------------------------------------------------------
(***************************************************************************)
(* Sequences of any elements.                                              *)
(***************************************************************************)
LEMMA SeqFacts ==
  ASSUME NEW s, IsSeq(s)
  PROVE  /\ Len(s) \in Nat /\ DOMAIN s = 1 .. Len(s)
         /\ s \in Seq(Items(s))
         /\ \A S : Items(s) \subseteq S => s \in Seq(S)
  BY SeqMonotonic DEF IsSeq, Items

LEMMA IsSeqIntro ==
  ASSUME NEW s, NEW n \in Nat, NEW S, s \in [1 .. n -> S]
  PROVE  IsSeq(s) /\ Len(s) = n
  <1>1. s \in [1 .. n -> Items(s)]
    BY DEF Items
  <1>2. \A T : s \in [1 .. n -> T] => s \in Seq(T)
    BY SeqDef
  <1> QED
    BY <1>1, <1>2 DEF IsSeq, Items

LEMMA SeqIsSeq == ASSUME NEW S, NEW s \in Seq(S) PROVE IsSeq(s)
  <1>1. Len(s) \in Nat /\ s \in [1 .. Len(s) -> S]
    BY LenProperties
  <1> QED
    BY <1>1, IsSeqIntro

LEMMA Tuples ==
  /\ IsSeq(<<>>) /\ Items(<<>>) = {} /\ Len(<<>>) = 0
  /\ \A a : /\ IsSeq(<<a>>) /\ Items(<<a>>) = {a} /\ Len(<<a>>) = 1
            /\ <<a>>[1] = a /\ <<a>> # <<>> /\ DOMAIN <<a>> = {1}
  <1>1. ASSUME NEW a
        PROVE  /\ IsSeq(<<a>>) /\ Items(<<a>>) = {a} /\ Len(<<a>>) = 1
               /\ <<a>>[1] = a /\ <<a>> # <<>> /\ DOMAIN <<a>> = {1}
    <2>1. <<a>> \in Seq({a}) /\ DOMAIN <<a>> = {1}
      OBVIOUS
    <2>2. IsSeq(<<a>>)
      BY <2>1, SeqIsSeq
    <2>3. <<a>>[1] = a /\ <<a>> # <<>> /\ Len(<<a>>) = 1
      OBVIOUS
    <2> QED
      BY <2>1, <2>2, <2>3 DEF Items
  <1>2. IsSeq(<<>>)
    <2>1. <<>> \in Seq({})
      OBVIOUS
    <2> QED
      BY <2>1, SeqIsSeq
  <1>3. Items(<<>>) = {} /\ Len(<<>>) = 0
    BY DEF Items
  <1> QED
    BY <1>1, <1>2, <1>3

LEMMA Joined ==
  ASSUME NEW a, NEW b, IsSeq(a), IsSeq(b)
  PROVE  /\ IsSeq(a \o b) /\ Len(a \o b) = Len(a) + Len(b)
         /\ \A i \in 1 .. Len(a) : (a \o b)[i] = a[i]
         /\ \A i \in 1 .. Len(b) : (a \o b)[Len(a) + i] = b[i]
         /\ \A i \in 1 .. Len(a) + Len(b) : i > Len(a) =>
                (a \o b)[i] = b[i - Len(a)] /\ i - Len(a) \in 1 .. Len(b)
         /\ Items(a \o b) = Items(a) \cup Items(b)
         /\ a \o <<>> = a /\ <<>> \o a = a
  <1> DEFINE S == Items(a) \cup Items(b)
  <1>1. a \in Seq(S) /\ b \in Seq(S)
    BY SeqFacts
  <1> HIDE DEF S
  <1>2. /\ a \o b \in Seq(S) /\ Len(a \o b) = Len(a) + Len(b)
        /\ Len(a) \in Nat /\ Len(b) \in Nat
        /\ \A i \in 1 .. Len(a) + Len(b) : (a \o b)[i] =
              IF i <= Len(a) THEN a[i] ELSE b[i - Len(a)]
    BY <1>1, ConcatProperties
  <1>3. IsSeq(a \o b)
    BY <1>2, SeqIsSeq
  <1>4. /\ DOMAIN a = 1 .. Len(a) /\ DOMAIN b = 1 .. Len(b)
        /\ DOMAIN (a \o b) = 1 .. Len(a) + Len(b)
    BY <1>2, <1>3, SeqFacts
  <1>5. \A i \in 1 .. Len(b) : Len(a) + i \in 1 .. Len(a) + Len(b) /\ (a \o b)[Len(a) + i] = b[i]
    BY <1>2
  <1>6. /\ \A i \in 1 .. Len(a) : (a \o b)[i] = a[i]
        /\ \A i \in 1 .. Len(a) + Len(b) : i > Len(a) =>
              (a \o b)[i] = b[i - Len(a)] /\ i - Len(a) \in 1 .. Len(b)
    BY <1>2
  <1>7. Items(a \o b) = Items(a) \cup Items(b)
    <2>1. Items(a \o b) \subseteq Items(a) \cup Items(b)
      BY <1>2, <1>4, <1>6 DEF Items
    <2>2. Items(a) \subseteq Items(a \o b)
      BY <1>2, <1>4, <1>6 DEF Items
    <2>3. Items(b) \subseteq Items(a \o b)
      <3> SUFFICES ASSUME NEW i \in 1 .. Len(b) PROVE b[i] \in Items(a \o b)
        BY <1>4 DEF Items
      <3>1. Len(a) + i \in DOMAIN (a \o b) /\ b[i] = (a \o b)[Len(a) + i]
        BY <1>4, <1>5
      <3> QED
        BY <3>1 DEF Items
    <2> QED
      BY <2>1, <2>2, <2>3
  <1> QED
    BY <1>1, <1>2, <1>3, <1>5, <1>6, <1>7, ConcatEmptySeq

LEMMA HeadThenTail ==
  ASSUME NEW s, IsSeq(s), s # <<>>
  PROVE  /\ IsSeq(Tail(s)) /\ Len(Tail(s)) = Len(s) - 1 /\ Len(s) \in Nat /\ Len(s) >= 1
         /\ Head(s) = s[1] /\ Head(s) \in Items(s)
         /\ \A i \in 1 .. Len(Tail(s)) : Tail(s)[i] = s[i + 1]
         /\ Items(s) = {Head(s)} \cup Items(Tail(s))
  <1>1. s \in Seq(Items(s)) /\ Len(s) \in Nat /\ DOMAIN s = 1 .. Len(s)
    BY SeqFacts
  <1>2. /\ Tail(s) \in Seq(Items(s)) /\ Len(Tail(s)) = Len(s) - 1 /\ Len(s) >= 1
        /\ \A i \in 1 .. Len(Tail(s)) : Tail(s)[i] = s[i + 1]
        /\ Head(s) = s[1] /\ Head(s) \in Items(s)
    BY <1>1, HeadTailProperties, EmptySeq
  <1>3. IsSeq(Tail(s))
    BY <1>2, SeqIsSeq
  <1>4. DOMAIN Tail(s) = 1 .. Len(s) - 1
    BY <1>2, <1>3, SeqFacts
  <1>5. Items(s) \subseteq {Head(s)} \cup Items(Tail(s))
    <2> SUFFICES ASSUME NEW i \in 1 .. Len(s) PROVE s[i] \in {Head(s)} \cup Items(Tail(s))
      BY <1>1 DEF Items
    <2>1. CASE i = 1
      BY <1>2, <2>1
    <2>2. CASE i # 1
      <3>1. i - 1 \in 1 .. Len(Tail(s)) /\ (i - 1) + 1 = i
        BY <1>1, <1>2, <2>2
      <3>2. Tail(s)[i - 1] = s[i]
        BY <1>2, <3>1
      <3> QED
        BY <1>2, <1>4, <3>1, <3>2 DEF Items
    <2> QED
      BY <2>1, <2>2
  <1>6. Items(Tail(s)) \subseteq Items(s)
    <2> SUFFICES ASSUME NEW i \in 1 .. Len(s) - 1 PROVE Tail(s)[i] \in Items(s)
      BY <1>4 DEF Items
    <2>1. i + 1 \in DOMAIN s /\ Tail(s)[i] = s[i + 1]
      BY <1>1, <1>2
    <2> QED
      BY <2>1 DEF Items
  <1> QED
    BY <1>1, <1>2, <1>3, <1>5, <1>6

-----------------------------------------------------------------------------
(***************************************************************************)
(* Paths.                                                                  *)
(***************************************************************************)
LEMMA ElementPath ==
  ASSUME NEW p, IsSeq(p), NEW k
  PROVE  /\ IsSeq(p \o <<k>>) /\ Len(p \o <<k>>) = Len(p) + 1 /\ Len(p) \in Nat
         /\ (p \o <<k>>)[Len(p) + 1] = k /\ LastOf(p \o <<k>>) = k /\ p \o <<k>> # <<>>
         /\ \A i \in 1 .. Len(p) : (p \o <<k>>)[i] = p[i]
  <1> DEFINE q == p \o <<k>>
  <1>1. /\ IsSeq(<<k>>) /\ Len(<<k>>) = 1 /\ <<k>>[1] = k /\ Len(p) \in Nat
        /\ 1 \in 1 .. 1
    BY Tuples, SeqFacts
  <1>2. /\ IsSeq(q) /\ Len(q) = Len(p) + 1
        /\ \A i \in 1 .. Len(p) : q[i] = p[i]
        /\ \A i \in 1 .. 1 : q[Len(p) + i] = <<k>>[i]
    BY <1>1, Joined
  <1> HIDE DEF q
  <1>3. q[Len(p) + 1] = k
    BY <1>1, <1>2
  <1>4. q # <<>>
    BY <1>1, <1>2, Tuples
  <1> QED
    BY <1>1, <1>2, <1>3, <1>4 DEF LastOf, q

LEMMA ExtendsItself == ASSUME NEW p, IsSeq(p) PROVE Extends(p, p)
  BY SeqFacts DEF Extends

LEMMA ExtendsEmpty == ASSUME NEW q, IsSeq(q) PROVE Extends(q, <<>>)
  BY SeqFacts, Tuples DEF Extends

LEMMA ExtendsJoined == ASSUME NEW p, NEW m, IsSeq(p), IsSeq(m) PROVE Extends(p \o m, p)
  BY Joined, SeqFacts DEF Extends

LEMMA ExtendsElement ==
  ASSUME NEW p, IsSeq(p), NEW k, NEW q
  PROVE  Extends(q, p \o <<k>>) <=>
            Extends(q, p) /\ Len(q) > Len(p) /\ q[Len(p) + 1] = k
  <1> DEFINE r == p \o <<k>>
  <1>1. /\ Len(r) = Len(p) + 1 /\ Len(p) \in Nat /\ r[Len(p) + 1] = k
        /\ \A i \in 1 .. Len(p) : r[i] = p[i]
    BY ElementPath
  <1>2. IsSeq(q) => Len(q) \in Nat
    BY SeqFacts
  <1> HIDE DEF r
  <1>3. ASSUME Extends(q, r) PROVE Extends(q, p) /\ Len(q) > Len(p) /\ q[Len(p) + 1] = k
    BY <1>1, <1>2, <1>3 DEF Extends
  <1>4. ASSUME Extends(q, p), Len(q) > Len(p), q[Len(p) + 1] = k PROVE Extends(q, r)
    <2>1. \A i \in 1 .. Len(r) : i \in 1 .. Len(p) \/ i = Len(p) + 1
      BY <1>1
    <2> QED
      BY <1>1, <1>2, <1>4, <2>1 DEF Extends
  <1> QED
    BY <1>3, <1>4 DEF r

-----------------------------------------------------------------------------
(***************************************************************************)
(* What All, ArrayOf and Under make.                                       *)
(***************************************************************************)
LEMMA AllItems ==
  ASSUME NEW kind, NEW names, IsSeq(names)
  PROVE  /\ IsSeq(All(kind, names)) /\ Len(All(kind, names)) = Len(names)
         /\ \A i \in 1 .. Len(names) :
                All(kind, names)[i] = [path |-> <<names[i]>>, kind |-> kind]
         /\ Items(All(kind, names)) = {[path |-> <<n>>, kind |-> kind] : n \in Items(names)}
  <1> DEFINE s == All(kind, names)
             S == {[path |-> <<n>>, kind |-> kind] : n \in Items(names)}
  <1>1. Len(names) \in Nat /\ DOMAIN names = 1 .. Len(names)
    BY SeqFacts
  <1>2. /\ s = [i \in 1 .. Len(names) |-> [path |-> <<names[i]>>, kind |-> kind]]
        /\ \A i \in 1 .. Len(names) : s[i] = [path |-> <<names[i]>>, kind |-> kind]
        /\ DOMAIN s = 1 .. Len(names)
    BY <1>1 DEF All
  <1>3. \A i \in 1 .. Len(names) : s[i] \in S
    BY <1>1, <1>2 DEF Items
  <1>4. s \in [1 .. Len(names) -> S]
    BY <1>2, <1>3 DEF Items
  <1>5. IsSeq(s) /\ Len(s) = Len(names)
    <2> HIDE DEF s, S
    <2> QED
      BY <1>1, <1>4, IsSeqIntro
  <1>6. Items(s) = S
    <2>1. Items(s) \subseteq S
      BY <1>2, <1>3 DEF Items
    <2>2. ASSUME NEW i \in 1 .. Len(names)
          PROVE  [path |-> <<names[i]>>, kind |-> kind] \in Items(s)
      BY <1>2 DEF Items
    <2>3. S = {[path |-> <<names[i]>>, kind |-> kind] : i \in 1 .. Len(names)}
      BY <1>1 DEF Items
    <2> QED
      BY <2>1, <2>2, <2>3
  <1> QED
    BY <1>2, <1>5, <1>6

\* An item under another path.
Moved(p, x) == [x EXCEPT !.path = p \o @]

LEMMA UnderItems ==
  ASSUME NEW p, NEW items, IsSeq(items)
  PROVE  /\ IsSeq(Under(p, items)) /\ Len(Under(p, items)) = Len(items)
         /\ \A i \in 1 .. Len(items) : Under(p, items)[i] = Moved(p, items[i])
         /\ Items(Under(p, items)) = {Moved(p, x) : x \in Items(items)}
  <1> DEFINE s == Under(p, items)
             S == {Moved(p, x) : x \in Items(items)}
  <1>1. Len(items) \in Nat /\ DOMAIN items = 1 .. Len(items)
    BY SeqFacts
  <1>2. /\ s = [i \in 1 .. Len(items) |-> Moved(p, items[i])]
        /\ \A i \in 1 .. Len(items) : s[i] = Moved(p, items[i])
        /\ DOMAIN s = 1 .. Len(items)
    BY <1>1 DEF Under, Moved
  <1>3. \A i \in 1 .. Len(items) : s[i] \in S
    BY <1>1, <1>2 DEF Items
  <1>4. s \in [1 .. Len(items) -> S]
    BY <1>2, <1>3
  <1>5. IsSeq(s) /\ Len(s) = Len(items)
    <2> HIDE DEF s, S
    <2> QED
      BY <1>1, <1>4, IsSeqIntro
  <1>6. Items(s) = S
    <2>1. Items(s) \subseteq S
      BY <1>2, <1>3 DEF Items
    <2>2. ASSUME NEW i \in 1 .. Len(items) PROVE Moved(p, items[i]) \in Items(s)
      BY <1>2 DEF Items
    <2>3. S = {Moved(p, items[i]) : i \in 1 .. Len(items)}
      BY <1>1 DEF Items
    <2> QED
      BY <2>1, <2>2, <2>3
  <1> QED
    BY <1>2, <1>5, <1>6

LEMMA UnderOne == ASSUME NEW p, NEW x PROVE Under(p, <<x>>) = <<Moved(p, x)>>
  <1> DEFINE s == Under(p, <<x>>)
  <1>1. IsSeq(<<x>>) /\ Len(<<x>>) = 1 /\ <<x>>[1] = x
    BY Tuples
  <1>2. IsSeq(s) /\ Len(s) = 1 /\ \A i \in 1 .. 1 : s[i] = Moved(p, <<x>>[i])
    BY <1>1, UnderItems
  <1>3. s[1] = Moved(p, x)
    BY <1>1, <1>2
  <1> HIDE DEF s
  <1>4. s \in Seq(Items(s)) /\ Len(s) = 1
    BY <1>2, SeqFacts
  <1>5. s = <<s[1]>>
    BY <1>4
  <1> QED
    BY <1>3, <1>5 DEF s

LEMMA MovedNamed ==
  ASSUME NEW base, NEW name, NEW kind
  PROVE  LET y == Moved(base, [path |-> <<name>>, kind |-> kind]) IN
         y.path = base \o <<name>> /\ y.kind = kind /\ DOMAIN y = {"path", "kind"}
  BY DEF Moved

-----------------------------------------------------------------------------
(***************************************************************************)
(* Layouts in which nothing is read twice, put together piece by piece.    *)
(***************************************************************************)
LEMMA OrderedJoined ==
  ASSUME NEW a, NEW b, IsSeq(a), IsSeq(b), Ordered(a), Ordered(b),
         \A x \in Items(a), y \in Items(b) : Clear(x, y)
  PROVE  Ordered(a \o b)
  <1> DEFINE s == a \o b
  <1>1. /\ Len(a) \in Nat /\ Len(b) \in Nat /\ DOMAIN s = 1 .. Len(a) + Len(b)
        /\ DOMAIN a = 1 .. Len(a) /\ DOMAIN b = 1 .. Len(b)
        /\ \A i \in 1 .. Len(a) : s[i] = a[i]
        /\ \A i \in 1 .. Len(a) + Len(b) : i > Len(a) =>
              s[i] = b[i - Len(a)] /\ i - Len(a) \in 1 .. Len(b)
    BY Joined, SeqFacts
  <1> HIDE DEF s
  <1>2. ASSUME NEW i \in DOMAIN s, NEW j \in DOMAIN s, i < j PROVE Clear(s[i], s[j])
    <2>1. CASE j <= Len(a)
      BY <1>1, <1>2, <2>1 DEF Ordered
    <2>2. CASE i > Len(a)
      <3>1. /\ s[i] = b[i - Len(a)] /\ s[j] = b[j - Len(a)]
            /\ i - Len(a) \in DOMAIN b /\ j - Len(a) \in DOMAIN b /\ i - Len(a) < j - Len(a)
        BY <1>1, <1>2, <2>2
      <3> QED
        BY <3>1 DEF Ordered
    <2>3. CASE i <= Len(a) /\ j > Len(a)
      <3>1. s[i] \in Items(a) /\ s[j] \in Items(b)
        BY <1>1, <2>3 DEF Items
      <3> QED
        BY <3>1
    <2> QED
      BY <1>1, <2>1, <2>2, <2>3
  <1> QED
    BY <1>2 DEF Ordered, s

LEMMA OrderedTail ==
  ASSUME NEW s, IsSeq(s), s # <<>>, Ordered(s)
  PROVE  Ordered(Tail(s)) /\ \A y \in Items(Tail(s)) : Clear(Head(s), y)
  <1>1. /\ IsSeq(Tail(s)) /\ Len(Tail(s)) = Len(s) - 1 /\ Len(s) \in Nat /\ Len(s) >= 1
        /\ Head(s) = s[1] /\ \A i \in 1 .. Len(Tail(s)) : Tail(s)[i] = s[i + 1]
    BY HeadThenTail
  <1>2. DOMAIN s = 1 .. Len(s) /\ DOMAIN Tail(s) = 1 .. Len(s) - 1
    BY <1>1, SeqFacts
  <1>3. \A i \in DOMAIN Tail(s) : i + 1 \in DOMAIN s /\ Tail(s)[i] = s[i + 1] /\ 1 < i + 1
    BY <1>1, <1>2
  <1>4. \A i, j \in DOMAIN Tail(s) : i < j => i + 1 < j + 1
    BY <1>1, <1>2
  <1>5. Ordered(Tail(s))
    BY <1>3, <1>4 DEF Ordered
  <1>6. \A y \in Items(Tail(s)) : Clear(Head(s), y)
    BY <1>1, <1>2, <1>3 DEF Ordered, Items
  <1> QED
    BY <1>5, <1>6

LEMMA OrderedShort == ASSUME NEW s, IsSeq(s), Len(s) <= 1 PROVE Ordered(s)
  BY SeqFacts DEF Ordered

\* What holds of an item of a layout whose arrays have sizes of this width.
LayoutItem(x, count) ==
    /\ x.kind \in MemberKinds
    /\ DOMAIN x = FieldsOfKind(x.kind)
    /\ IsSeq(x.path)
    /\ x.kind = "array" =>
        IsArrayPath(x.path) /\ x.element = ElementOf[LastOf(x.path)] /\ x.count = count
    /\ x.kind = "replay" => x.path = <<"is_replay_playing">>
    /\ x.kind = "lap_type" => Len(x.path) = 2

Within(s, count, base) ==
    /\ IsSeq(s) /\ Ordered(s)
    /\ \A x \in Items(s) : LayoutItem(x, count) /\ \A q : Writes(x, q) => Extends(q, base)

\* Behind its base every path that s reads has a key of R, and every path that
\* it writes one of W.
Piece(s, count, base, R, W) ==
    /\ Within(s, count, base)
    /\ \A x \in Items(s) : \A q :
        /\ Reads(x, q) => Len(q) > Len(base) /\ q[Len(base) + 1] \in R
        /\ Writes(x, q) => Len(q) > Len(base) /\ q[Len(base) + 1] \in W

LEMMA JoinedPieces ==
  ASSUME NEW a, NEW b, NEW count, NEW base, NEW Ra, NEW Wa, NEW Rb, NEW Wb,
         Piece(a, count, base, Ra, Wa), Piece(b, count, base, Rb, Wb), Wa \cap Rb = {}
  PROVE  Piece(a \o b, count, base, Ra \cup Rb, Wa \cup Wb)
  <1>1. /\ IsSeq(a) /\ IsSeq(b) /\ Ordered(a) /\ Ordered(b)
        /\ IsSeq(a \o b) /\ Items(a \o b) = Items(a) \cup Items(b)
    BY Joined DEF Piece, Within
  <1>2. \A x \in Items(a), y \in Items(b) : Clear(x, y)
    BY DEF Piece, Clear
  <1>3. Ordered(a \o b)
    BY <1>1, <1>2, OrderedJoined
  <1> QED
    BY <1>1, <1>3 DEF Piece, Within

\* What an item of a kind that has no parts reads and writes.
LEMMA SimpleReads ==
  ASSUME NEW x, x.kind \in DOMAIN Width \cup {"string"}, NEW q
  PROVE  (Reads(x, q) <=> q = x.path) /\ (Writes(x, q) <=> q = x.path)
  BY DEF Reads, Writes, Width

LEMMA NamedPiece ==
  ASSUME NEW s, NEW base, NEW names, NEW kind \in DOMAIN Width \cup {"string"},
         IsSeq(s), IsSeq(base), IsSeq(names), Len(s) = Len(names),
         \A i \in 1 .. Len(names) :
            /\ s[i].path = base \o <<names[i]>> /\ s[i].kind = kind
            /\ DOMAIN s[i] = FieldsOfKind(kind),
         \A i, j \in 1 .. Len(names) : names[i] = names[j] => i = j,
         NEW count
  PROVE  Piece(s, count, base, Items(names), Items(names))
  <1>1. /\ DOMAIN s = 1 .. Len(names) /\ DOMAIN names = 1 .. Len(names) /\ Len(names) \in Nat
        /\ kind \in MemberKinds /\ kind # "array" /\ kind # "lap_type" /\ kind # "replay"
    BY SeqFacts DEF MemberKinds, Width
  <1>2. ASSUME NEW i \in 1 .. Len(names), NEW q
        PROVE  (Writes(s[i], q) => q = s[i].path) /\ (Reads(s[i], q) => q = s[i].path)
    <2>1. s[i].kind \in DOMAIN Width \cup {"string"}
      OBVIOUS
    <2> QED
      BY <2>1, SimpleReads
  <1>3. ASSUME NEW i \in 1 .. Len(names)
        PROVE  /\ IsSeq(s[i].path) /\ Len(s[i].path) > Len(base)
               /\ s[i].path[Len(base) + 1] = names[i] /\ Extends(s[i].path, base)
    <2>1. s[i].path = base \o <<names[i]>> /\ IsSeq(<<names[i]>>)
      BY Tuples
    <2>2. Extends(base \o <<names[i]>>, base)
      BY <2>1, ExtendsJoined
    <2>3. /\ IsSeq(base \o <<names[i]>>) /\ Len(base \o <<names[i]>>) = Len(base) + 1
          /\ Len(base) \in Nat /\ (base \o <<names[i]>>)[Len(base) + 1] = names[i]
      BY ElementPath
    <2> QED
      BY <2>1, <2>2, <2>3
  <1>4. ASSUME NEW i \in 1 .. Len(names), NEW j \in 1 .. Len(names), i < j
        PROVE  Clear(s[i], s[j])
    <2>1. s[i].path # s[j].path
      BY <1>1, <1>3, <1>4
    <2> QED
      BY <1>2, <2>1 DEF Clear
  <1>5. Ordered(s)
    BY <1>1, <1>4 DEF Ordered
  <1>6. \A i \in 1 .. Len(names) : LayoutItem(s[i], count)
    BY <1>1, <1>3 DEF LayoutItem
  <1>7. \A x \in Items(s) : \E i \in 1 .. Len(names) : x = s[i]
    BY <1>1 DEF Items
  <1>8. \A i \in 1 .. Len(names) : names[i] \in Items(names)
    BY <1>1 DEF Items
  <1>9. ASSUME NEW x \in Items(s)
        PROVE  /\ LayoutItem(x, count)
               /\ \A q : Writes(x, q) => Extends(q, base)
               /\ \A q : Writes(x, q) \/ Reads(x, q) =>
                            Len(q) > Len(base) /\ q[Len(base) + 1] \in Items(names)
    <2>1. PICK i \in 1 .. Len(names) : x = s[i]
      BY <1>7
    <2>2. LayoutItem(x, count)
      BY <1>6, <2>1
    <2>3. \A q : Writes(x, q) \/ Reads(x, q) => q = x.path
      BY <1>2, <2>1
    <2> QED
      BY <1>3, <1>8, <2>1, <2>2, <2>3
  <1> QED
    BY <1>5, <1>9 DEF Piece, Within

\* The names of an All at the head of a response, and under a base.
LEMMA AllPiece ==
  ASSUME NEW names, NEW kind \in DOMAIN Width \cup {"string"}, IsSeq(names),
         \A i, j \in 1 .. Len(names) : names[i] = names[j] => i = j,
         NEW count
  PROVE  /\ Piece(All(kind, names), count, <<>>, Items(names), Items(names))
         /\ \A base : IsSeq(base) =>
                Piece(Under(base, All(kind, names)), count, base, Items(names), Items(names))
  <1> DEFINE s == All(kind, names)
  <1>1. /\ IsSeq(s) /\ Len(s) = Len(names) /\ Len(names) \in Nat
        /\ \A i \in 1 .. Len(names) : s[i] = [path |-> <<names[i]>>, kind |-> kind]
    BY AllItems, SeqFacts
  <1>2. FieldsOfKind(kind) = {"path", "kind"}
    BY DEF FieldsOfKind, Width
  <1> HIDE DEF s
  <1>3. ASSUME NEW i \in 1 .. Len(names)
        PROVE  /\ s[i].path = <<names[i]>> /\ s[i].kind = kind
               /\ DOMAIN s[i] = FieldsOfKind(kind)
    <2>1. s[i] = [path |-> <<names[i]>>, kind |-> kind]
      BY <1>1
    <2> QED
      BY <1>2, <2>1
  <1>4. Piece(s, count, <<>>, Items(names), Items(names))
    <2>1. \A i \in 1 .. Len(names) :
            /\ s[i].path = <<>> \o <<names[i]>> /\ s[i].kind = kind
            /\ DOMAIN s[i] = FieldsOfKind(kind)
      BY <1>3, Tuples, Joined
    <2> QED
      BY <1>1, <2>1, Tuples, NamedPiece
  <1>5. ASSUME NEW base, IsSeq(base)
        PROVE  Piece(Under(base, s), count, base, Items(names), Items(names))
    <2> DEFINE u == Under(base, s)
    <2>1. /\ IsSeq(u) /\ Len(u) = Len(names)
          /\ \A i \in 1 .. Len(names) : u[i] = Moved(base, s[i])
      BY <1>1, UnderItems
    <2> HIDE DEF u
    <2>2. ASSUME NEW i \in 1 .. Len(names)
          PROVE  /\ u[i].path = base \o <<names[i]>> /\ u[i].kind = kind
                 /\ DOMAIN u[i] = FieldsOfKind(kind)
      <3>1. u[i] = Moved(base, s[i])
        BY <2>1
      <3>2. s[i] = [path |-> <<names[i]>>, kind |-> kind]
        BY <1>1
      <3> QED
        BY <1>2, <3>1, <3>2, MovedNamed
    <2>3. Piece(u, count, base, Items(names), Items(names))
      BY <1>1, <1>5, <2>1, <2>2, NamedPiece
    <2> QED
      BY <2>3 DEF u
  <1> QED
    BY <1>4, <1>5 DEF s

\* A layout of one item.
LEMMA ItemPiece ==
  ASSUME NEW x, NEW count, NEW base, NEW R, NEW W, LayoutItem(x, count),
         \A q : Reads(x, q) => q[Len(base) + 1] \in R,
         \A q : Writes(x, q) => Extends(q, base) /\ Len(q) > Len(base) /\ q[Len(base) + 1] \in W
  PROVE  Piece(<<x>>, count, base, R, W)
  <1>1. IsSeq(<<x>>) /\ Items(<<x>>) = {x} /\ Ordered(<<x>>)
    <2>1. IsSeq(<<x>>) /\ Items(<<x>>) = {x} /\ Len(<<x>>) <= 1
      BY Tuples
    <2> QED
      BY <2>1, OrderedShort
  <1>2. \A q : Reads(x, q) => Writes(x, q)
    BY DEF Writes
  <1> QED
    BY <1>1, <1>2 DEF Piece, Within

LEMMA ArrayPiece ==
  ASSUME NEW count, NEW name \in DOMAIN ElementOf
  PROVE  /\ Piece(ArrayOf(count, ElementOf[name], name), count, <<>>, {name}, {name})
         /\ \A base : IsSeq(base) =>
                Piece(Under(base, ArrayOf(count, ElementOf[name], name)), count, base,
                      {name}, {name})
  <1> DEFINE e == ElementOf[name]
             x == [path |-> <<name>>, kind |-> "array", count |-> count, element |-> e]
  <1>1. ArrayOf(count, e, name) = <<x>>
    BY DEF ArrayOf
  <1>2. /\ x.path = <<name>> /\ x.kind = "array" /\ x.count = count /\ x.element = e
        /\ DOMAIN x = {"path", "kind", "count", "element"}
    OBVIOUS
  <1>3. FieldsOfKind("array") = {"path", "kind", "count", "element"} /\ "array" \in MemberKinds
    BY DEF FieldsOfKind, MemberKinds
  <1> HIDE DEF x, e
  <1>4. ASSUME NEW base, IsSeq(base), NEW y, y.path = base \o <<name>>, y.kind = "array",
               y.count = count, y.element = e, DOMAIN y = FieldsOfKind("array")
        PROVE  Piece(<<y>>, count, base, {name}, {name})
    <2>1. /\ IsSeq(y.path) /\ y.path # <<>> /\ LastOf(y.path) = name
          /\ Len(base \o <<name>>) = Len(base) + 1
      BY <1>4, ElementPath
    <2>2. LayoutItem(y, count)
      BY <1>3, <1>4, <2>1 DEF LayoutItem, IsArrayPath, e
    <2>3. \A q : Writes(y, q) => Extends(q, base \o <<name>>)
      BY <1>4 DEF Writes, Reads
    <2>4. \A q : Writes(y, q) => Extends(q, base) /\ Len(q) > Len(base) /\ q[Len(base) + 1] = name
      BY <1>4, <2>3, ExtendsElement
    <2>5. \A q : Reads(y, q) => Writes(y, q)
      BY DEF Writes
    <2> QED
      BY <2>2, <2>4, <2>5, ItemPiece
  <1>5. Piece(<<x>>, count, <<>>, {name}, {name})
    <2>1. x.path = <<>> \o <<name>> /\ IsSeq(<<>>)
      BY <1>2, Tuples, Joined
    <2> QED
      BY <1>2, <1>3, <1>4, <2>1
  <1>6. ASSUME NEW base, IsSeq(base)
        PROVE  Piece(Under(base, <<x>>), count, base, {name}, {name})
    <2> DEFINE y == Moved(base, x)
    <2>1. Under(base, <<x>>) = <<y>>
      BY UnderOne
    <2>2. /\ y.path = base \o <<name>> /\ y.kind = "array" /\ y.count = count
          /\ y.element = e /\ DOMAIN y = FieldsOfKind("array")
      BY <1>3 DEF x, Moved
    <2> HIDE DEF y
    <2> QED
      BY <1>4, <1>6, <2>1, <2>2
  <1> QED
    BY <1>1, <1>5, <1>6 DEF e

LEMMA UnderJoined ==
  ASSUME NEW p, NEW a, NEW b, IsSeq(a), IsSeq(b)
  PROVE  Under(p, a \o b) = Under(p, a) \o Under(p, b)
  <1> DEFINE c == a \o b
             s == Under(p, c)
             u == Under(p, a)
             v == Under(p, b)
  <1>1. /\ IsSeq(c) /\ Len(c) = Len(a) + Len(b)
        /\ Len(a) \in Nat /\ Len(b) \in Nat
        /\ \A i \in 1 .. Len(a) : c[i] = a[i]
        /\ \A i \in 1 .. Len(a) + Len(b) : i > Len(a) =>
              c[i] = b[i - Len(a)] /\ i - Len(a) \in 1 .. Len(b)
    BY Joined, SeqFacts
  <1> HIDE DEF c
  <1>2. /\ IsSeq(s) /\ Len(s) = Len(a) + Len(b)
        /\ \A i \in 1 .. Len(a) + Len(b) : s[i] = Moved(p, c[i])
    BY <1>1, UnderItems
  <1>3. /\ IsSeq(u) /\ Len(u) = Len(a) /\ \A i \in 1 .. Len(a) : u[i] = Moved(p, a[i])
        /\ IsSeq(v) /\ Len(v) = Len(b) /\ \A i \in 1 .. Len(b) : v[i] = Moved(p, b[i])
    BY UnderItems
  <1> HIDE DEF s, u, v
  <1>4. /\ IsSeq(u \o v) /\ Len(u \o v) = Len(a) + Len(b)
        /\ \A i \in 1 .. Len(a) : (u \o v)[i] = u[i]
        /\ \A i \in 1 .. Len(a) + Len(b) : i > Len(a) => (u \o v)[i] = v[i - Len(a)]
    BY <1>3, Joined
  <1>5. ASSUME NEW i \in 1 .. Len(a) + Len(b) PROVE s[i] = (u \o v)[i]
    <2>1. CASE i <= Len(a)
      <3>1. i \in 1 .. Len(a)
        BY <1>1, <2>1
      <3> QED
        BY <1>1, <1>2, <1>3, <1>4, <3>1
    <2>2. CASE i > Len(a)
      BY <1>1, <1>2, <1>3, <1>4, <2>2, SMTT(30)
    <2>3. i <= Len(a) \/ i > Len(a)
      <3>1. Len(a) \in Nat /\ i \in Int
        BY <1>1
      <3> QED
        BY <3>1
    <2> QED
      BY <2>1, <2>2, <2>3
  <1>6. s = u \o v
    <2> DEFINE S == Items(s) \cup Items(u \o v)
    <2>1. s \in Seq(S) /\ u \o v \in Seq(S)
      BY <1>2, <1>4, SeqFacts
    <2> HIDE DEF S
    <2> QED
      BY <1>2, <1>4, <1>5, <2>1, SeqEqual
  <1> QED
    BY <1>6 DEF s, u, v, c

\* A sequence of different names.
Names(names, S) ==
    /\ IsSeq(names) /\ Items(names) = S
    /\ \A i, j \in 1 .. Len(names) : names[i] = names[j] => i = j

LEMMA NamesGiven ==
  /\ \A a : Names(<<a>>, {a})
  /\ \A a, b : a # b => Names(<<a, b>>, {a, b})
  /\ \A a, b, c : a # b /\ a # c /\ b # c => Names(<<a, b, c>>, {a, b, c})
  /\ \A a, b, c, d : a # b /\ a # c /\ a # d /\ b # c /\ b # d /\ c # d =>
        Names(<<a, b, c, d>>, {a, b, c, d})
  /\ \A a, b, c, d, e :
        a # b /\ a # c /\ a # d /\ a # e /\ b # c /\ b # d /\ b # e /\ c # d /\ c # e /\ d # e =>
        Names(<<a, b, c, d, e>>, {a, b, c, d, e})
  <1>1. ASSUME NEW a PROVE Names(<<a>>, {a})
    BY Tuples DEF Names
  <1>2. ASSUME NEW a, NEW b, a # b PROVE Names(<<a, b>>, {a, b})
    <2> DEFINE s == <<a, b>>
    <2>1. s \in Seq({a, b}) /\ Len(s) = 2 /\ s[1] = a /\ s[2] = b
      OBVIOUS
    <2> HIDE DEF s
    <2>2. IsSeq(s) /\ DOMAIN s = 1 .. 2
      BY <2>1, SeqIsSeq, SeqFacts
    <2>3. Items(s) = {a, b}
      BY <2>1, <2>2 DEF Items
    <2> QED
      BY <1>2, <2>1, <2>2, <2>3 DEF Names, s
  <1>3. ASSUME NEW a, NEW b, NEW c, a # b, a # c, b # c PROVE Names(<<a, b, c>>, {a, b, c})
    <2> DEFINE s == <<a, b, c>>
    <2>1. s \in Seq({a, b, c}) /\ Len(s) = 3 /\ s[1] = a /\ s[2] = b /\ s[3] = c
      OBVIOUS
    <2> HIDE DEF s
    <2>2. IsSeq(s) /\ DOMAIN s = 1 .. 3
      BY <2>1, SeqIsSeq, SeqFacts
    <2>3. Items(s) = {a, b, c}
      BY <2>1, <2>2 DEF Items
    <2> QED
      BY <1>3, <2>1, <2>2, <2>3 DEF Names, s
  <1>4. ASSUME NEW a, NEW b, NEW c, NEW d, a # b, a # c, a # d, b # c, b # d, c # d
        PROVE  Names(<<a, b, c, d>>, {a, b, c, d})
    <2> DEFINE s == <<a, b, c, d>>
    <2>1. s \in Seq({a, b, c, d}) /\ Len(s) = 4 /\ s[1] = a /\ s[2] = b /\ s[3] = c /\ s[4] = d
      OBVIOUS
    <2> HIDE DEF s
    <2>2. IsSeq(s) /\ DOMAIN s = 1 .. 4
      BY <2>1, SeqIsSeq, SeqFacts
    <2>3. Items(s) = {a, b, c, d}
      BY <2>1, <2>2 DEF Items
    <2> QED
      BY <1>4, <2>1, <2>2, <2>3 DEF Names, s
  <1>5. ASSUME NEW a, NEW b, NEW c, NEW d, NEW e, a # b, a # c, a # d, a # e,
               b # c, b # d, b # e, c # d, c # e, d # e
        PROVE  Names(<<a, b, c, d, e>>, {a, b, c, d, e})
    <2> DEFINE s == <<a, b, c, d, e>>
    <2>1. /\ s \in Seq({a, b, c, d, e}) /\ Len(s) = 5
          /\ s[1] = a /\ s[2] = b /\ s[3] = c /\ s[4] = d /\ s[5] = e
      OBVIOUS
    <2> HIDE DEF s
    <2>2. IsSeq(s) /\ DOMAIN s = 1 .. 5
      BY <2>1, SeqIsSeq, SeqFacts
    <2>3. Items(s) = {a, b, c, d, e}
      BY <2>1, <2>2 DEF Items
    <2> QED
      BY <1>5, <2>1, <2>2, <2>3 DEF Names, s
  <1> QED
    BY <1>1, <1>2, <1>3, <1>4, <1>5

LEMMA AllPieces ==
  ASSUME NEW kind \in DOMAIN Width \cup {"string"}, NEW names, NEW S, Names(names, S), NEW count
  PROVE  /\ Piece(All(kind, names), count, <<>>, S, S)
         /\ \A base : IsSeq(base) => Piece(Under(base, All(kind, names)), count, base, S, S)
  BY AllPiece DEF Names

LEMMA HasKind ==
  ASSUME NEW K, NEW X, NEW q
  PROVE  q \in OfKind(K, X) <=> \E x \in X : x.kind \in K /\ q = x.path
  BY DEF OfKind

LEMMA MovedFields ==
  ASSUME NEW p, NEW x, {"path", "kind"} \subseteq DOMAIN x
  PROVE  /\ Moved(p, x).path = p \o x.path /\ Moved(p, x).kind = x.kind
         /\ DOMAIN Moved(p, x) = DOMAIN x
         /\ "element" \in DOMAIN x => Moved(p, x).element = x.element
         /\ "count" \in DOMAIN x => Moved(p, x).count = x.count
  BY DEF Moved

\* The arrays, blocks and members that the items of a layout name.
Contents(s, A, B, M) ==
    /\ IsSeq(s)
    /\ \A x \in Items(s) : {"path", "kind"} \subseteq DOMAIN x /\ x.kind # "loop"
    /\ OfKind(ArrayKinds, Items(s)) = A
    /\ OfKind(BlockKinds, Items(s)) = B
    /\ OfKind(MemberKinds, Items(s)) = M

LEMMA JoinedContents ==
  ASSUME NEW a, NEW b, NEW A, NEW B, NEW M, NEW A1, NEW B1, NEW M1,
         Contents(a, A, B, M), Contents(b, A1, B1, M1)
  PROVE  Contents(a \o b, A \cup A1, B \cup B1, M \cup M1)
  <1>1. /\ IsSeq(a) /\ IsSeq(b) /\ IsSeq(a \o b)
        /\ Items(a \o b) = Items(a) \cup Items(b)
    BY Joined DEF Contents
  <1>2. \A K, X, Y : OfKind(K, X \cup Y) = OfKind(K, X) \cup OfKind(K, Y)
    BY DEF OfKind
  <1> QED
    BY <1>1, <1>2 DEF Contents

LEMMA MovedContents ==
  ASSUME NEW p, NEW s, NEW A, NEW B, NEW M, Contents(s, A, B, M)
  PROVE  Contents(Under(p, s), {p \o m : m \in A}, {p \o m : m \in B}, {p \o m : m \in M})
  <1>1. /\ IsSeq(s) /\ IsSeq(Under(p, s))
        /\ Items(Under(p, s)) = {Moved(p, x) : x \in Items(s)}
    BY UnderItems DEF Contents
  <1>2. ASSUME NEW x \in Items(s)
        PROVE  /\ Moved(p, x).path = p \o x.path /\ Moved(p, x).kind = x.kind
               /\ DOMAIN Moved(p, x) = DOMAIN x
    BY MovedFields DEF Contents
  <1>3. ASSUME NEW K
        PROVE  OfKind(K, Items(Under(p, s))) = {p \o m : m \in OfKind(K, Items(s))}
    <2>1. ASSUME NEW q \in OfKind(K, Items(Under(p, s)))
          PROVE  q \in {p \o m : m \in OfKind(K, Items(s))}
      <3>1. PICK y \in Items(Under(p, s)) : y.kind \in K /\ q = y.path
        BY <2>1, HasKind
      <3>2. PICK x \in Items(s) : y = Moved(p, x)
        BY <1>1, <3>1
      <3>3. q = p \o x.path /\ x.path \in OfKind(K, Items(s))
        BY <1>2, <3>1, <3>2, HasKind
      <3> QED
        BY <3>3
    <2>2. ASSUME NEW m \in OfKind(K, Items(s))
          PROVE  p \o m \in OfKind(K, Items(Under(p, s)))
      <3>1. PICK x \in Items(s) : x.kind \in K /\ m = x.path
        BY <2>2, HasKind
      <3>2. Moved(p, x) \in Items(Under(p, s))
        BY <1>1, <3>1
      <3> QED
        BY <1>2, <3>1, <3>2, HasKind
    <2> QED
      BY <2>1, <2>2
  <1> QED
    BY <1>1, <1>2, <1>3 DEF Contents

LEMMA AllContents ==
  ASSUME NEW kind \in MemberKinds \ {"array"}, NEW names, NEW S, Names(names, S)
  PROVE  Contents(All(kind, names), {}, IF kind = "string" THEN Single(S) ELSE {}, Single(S))
  <1>1. /\ IsSeq(All(kind, names))
        /\ Items(All(kind, names)) = {[path |-> <<n>>, kind |-> kind] : n \in S}
    BY AllItems DEF Names
  <1>2. ASSUME NEW K
        PROVE  OfKind(K, Items(All(kind, names))) = IF kind \in K THEN Single(S) ELSE {}
    <2> DEFINE X == Items(All(kind, names))
    <2>1. ASSUME NEW q \in OfKind(K, X) PROVE kind \in K /\ q \in Single(S)
      <3>1. PICK x \in X : x.kind \in K /\ q = x.path
        BY <2>1, HasKind
      <3>2. PICK n \in S : x = [path |-> <<n>>, kind |-> kind]
        BY <1>1, <3>1
      <3> QED
        BY <3>1, <3>2 DEF Single
    <2>2. ASSUME kind \in K, NEW n \in S PROVE <<n>> \in OfKind(K, X)
      <3> DEFINE x == [path |-> <<n>>, kind |-> kind]
      <3>1. x \in X /\ x.kind = kind /\ x.path = <<n>>
        BY <1>1
      <3> QED
        BY <2>2, <3>1, HasKind
    <2>3. CASE kind \in K
      BY <2>1, <2>2, <2>3 DEF Single
    <2>4. CASE kind \notin K
      BY <2>1, <2>4
    <2> QED
      BY <2>3, <2>4
  <1>3. kind \notin ArrayKinds /\ (kind \in BlockKinds <=> kind = "string") /\ kind \in MemberKinds
    BY DEF ArrayKinds, BlockKinds, MemberKinds
  <1>4. kind # "loop"
    BY DEF MemberKinds, Width
  <1> QED
    BY <1>1, <1>2, <1>3, <1>4 DEF Contents

LEMMA ArrayContents ==
  ASSUME NEW count, NEW element, NEW name
  PROVE  Contents(ArrayOf(count, element, name), {<<name>>}, {<<name>>}, {<<name>>})
  <1> DEFINE x == [path |-> <<name>>, kind |-> "array", count |-> count, element |-> element]
  <1>1. /\ ArrayOf(count, element, name) = <<x>> /\ IsSeq(<<x>>) /\ Items(<<x>>) = {x}
        /\ x.kind = "array" /\ x.path = <<name>> /\ {"path", "kind"} \subseteq DOMAIN x
    BY Tuples DEF ArrayOf
  <1> HIDE DEF x
  <1>2. \A K : "array" \in K => OfKind(K, {x}) = {<<name>>}
    BY <1>1 DEF OfKind
  <1> QED
    BY <1>1, <1>2 DEF Contents, ArrayKinds, BlockKinds, MemberKinds

-----------------------------------------------------------------------------
(***************************************************************************)
(* The layouts of acc/reader.c.                                            *)
(***************************************************************************)
LEMMA PairOf == ASSUME NEW a, NEW b PROVE <<a>> \o <<b>> = <<a, b>>
  <1> DEFINE p == <<a>>
             q == <<a, b>>
             S == {a, b}
  <1>1. IsSeq(p) /\ Len(p) = 1 /\ p[1] = a /\ p \in Seq(S)
    BY Tuples
  <1>2. q \in Seq(S) /\ Len(q) = 2 /\ q[1] = a /\ q[2] = b
    OBVIOUS
  <1> HIDE DEF p, q
  <1>3. IsSeq(p \o <<b>>) /\ Len(p \o <<b>>) = 2 /\ (p \o <<b>>)[2] = b /\ (p \o <<b>>)[1] = a
    <2> DEFINE r == p \o <<b>>
    <2>1. /\ IsSeq(r) /\ Len(r) = Len(p) + 1 /\ r[Len(p) + 1] = b
          /\ \A i \in 1 .. Len(p) : r[i] = p[i]
      BY <1>1, ElementPath, Zenon
    <2> HIDE DEF r
    <2>2. IsSeq(r) /\ Len(r) = 2 /\ r[2] = b /\ r[1] = a
      BY <1>1, <2>1
    <2> QED
      BY <2>2 DEF r
  <1>4. p \o <<b>> \in Seq(S)
    <2>1. <<b>> \in Seq(S)
      OBVIOUS
    <2> HIDE DEF S
    <2> QED
      BY <1>1, <2>1, ConcatProperties
  <1> HIDE DEF S
  <1>5. \A i \in 1 .. 2 : (p \o <<b>>)[i] = q[i]
    BY <1>2, <1>3
  <1>6. p \o <<b>> = q
    BY <1>2, <1>3, <1>4, <1>5, SeqEqual
  <1> QED
    BY <1>6 DEF p, q

\* A lap's members are behind its name.
LEMMA BehindName ==
  ASSUME NEW s, NEW count, NEW name, Within(s, count, <<name>>)
  PROVE  Piece(s, count, <<>>, {name}, {name})
  <1>1. ASSUME NEW q, Extends(q, <<name>>)
        PROVE  Extends(q, <<>>) /\ Len(q) > 0 /\ q[1] = name
    <2>1. IsSeq(q) /\ Len(q) >= 1 /\ q[1] = name
      BY <1>1, Tuples, SeqFacts DEF Extends
    <2> QED
      BY <2>1, ExtendsEmpty
  <1>2. \A x, q : Reads(x, q) => Writes(x, q)
    BY DEF Writes
  <1>3. Len(<<>>) = 0
    BY Tuples
  <1> QED
    BY <1>1, <1>2, <1>3 DEF Within, Piece

LapFields == {"lap_time", "car_index", "driver_index", "splits", "is_invalid",
              "is_valid_for_best", "is_outlap", "is_inlap", "lap_type"}

LEMMA LapTypePiece ==
  ASSUME NEW name
  PROVE  Piece(Under(<<name>>, All("lap_type", <<"lap_type">>)), "u8", <<name>>,
               {"lap_type"}, {"lap_type", "splits"})
  <1> DEFINE x == [path |-> <<"lap_type">>, kind |-> "lap_type"]
             y == Moved(<<name>>, x)
  <1>1. All("lap_type", <<"lap_type">>) = <<x>>
    BY DEF All
  <1>2. Under(<<name>>, <<x>>) = <<y>>
    BY UnderOne
  <1>3. y.path = <<name>> \o <<"lap_type">> /\ y.kind = "lap_type" /\ DOMAIN y = {"path", "kind"}
    BY MovedNamed
  <1> HIDE DEF x, y
  <1>4. y.path = <<name, "lap_type">> /\ <<name>> \o <<"splits">> = <<name, "splits">>
    BY <1>3, PairOf
  <1>5. [y.path EXCEPT ![2] = "splits"] = <<name, "splits">>
    BY <1>4
  <1>6. IsSeq(<<name>>) /\ Len(<<name>>) = 1
    BY Tuples
  <1>7. IsSeq(y.path) /\ Len(y.path) = 2
    BY <1>3, <1>6, ElementPath
  <1>8. LayoutItem(y, "u8")
    BY <1>3, <1>7 DEF LayoutItem, MemberKinds, FieldsOfKind
  <1>9. ASSUME NEW q, Extends(q, <<name>> \o <<"splits">>)
        PROVE  Extends(q, <<name>>) /\ Len(q) > 1 /\ q[2] = "splits"
    <2>1. /\ Extends(q, <<name>>) /\ Len(q) > Len(<<name>>)
          /\ q[Len(<<name>>) + 1] = "splits"
      BY <1>6, <1>9, ExtendsElement, Zenon
    <2> QED
      BY <1>6, <2>1
  <1>10. ASSUME NEW q, q = <<name>> \o <<"lap_type">>
         PROVE  Extends(q, <<name>>) /\ Len(q) > 1 /\ q[2] = "lap_type"
    <2>1. IsSeq(q) /\ Len(q) = 2 /\ q[2] = "lap_type"
      BY <1>6, <1>10, ElementPath
    <2>2. Extends(q, <<name>>)
      BY <1>6, <1>10, Tuples, ExtendsJoined
    <2> QED
      BY <2>1, <2>2
  <1>11. \A q : Reads(y, q) => q = y.path
    BY <1>3 DEF Reads
  <1>12. \A q : Writes(y, q) => q = y.path \/ Extends(q, <<name>> \o <<"splits">>)
    BY <1>4, <1>5, <1>11 DEF Writes, SplitsOf
  <1>13. Piece(<<y>>, "u8", <<name>>, {"lap_type"}, {"lap_type", "splits"})
    BY <1>3, <1>6, <1>8, <1>9, <1>10, <1>11, <1>12, ItemPiece
  <1> QED
    BY <1>1, <1>2, <1>13

LEMMA LapPiece == ASSUME NEW name PROVE Within(Lap(name), "u8", <<name>>)
  <1> DEFINE base == <<name>>
             a == All("i32", <<"lap_time">>)
             b == All("u16", <<"car_index", "driver_index">>)
             c == ArrayOf("u8", "int32_t", "splits")
             d == All("bool", <<"is_invalid", "is_valid_for_best", "is_outlap", "is_inlap">>)
             e == All("lap_type", <<"lap_type">>)
             P(s, R, W) == Piece(Under(base, s), "u8", base, R, W)
             D == {"is_invalid", "is_valid_for_best", "is_outlap", "is_inlap"}
  <1>1. IsSeq(base)
    BY Tuples
  <1>2. /\ IsSeq(a) /\ P(a, {"lap_time"}, {"lap_time"})
        /\ IsSeq(b) /\ P(b, {"car_index", "driver_index"}, {"car_index", "driver_index"})
        /\ IsSeq(d) /\ P(d, D, D)
    <2>1. /\ Names(<<"lap_time">>, {"lap_time"})
          /\ Names(<<"car_index", "driver_index">>, {"car_index", "driver_index"})
          /\ Names(<<"is_invalid", "is_valid_for_best", "is_outlap", "is_inlap">>, D)
      BY NamesGiven
    <2>2. {"i32", "u16", "bool"} \subseteq DOMAIN Width \cup {"string"}
      BY DEF Width
    <2> HIDE DEF D
    <2>3. /\ P(a, {"lap_time"}, {"lap_time"})
          /\ P(b, {"car_index", "driver_index"}, {"car_index", "driver_index"}) /\ P(d, D, D)
      BY <1>1, <2>1, <2>2, AllPieces
    <2>4. IsSeq(a) /\ IsSeq(b) /\ IsSeq(d)
      BY <2>1, AllItems DEF Names
    <2> QED
      BY <2>3, <2>4
  <1>3. IsSeq(c) /\ P(c, {"splits"}, {"splits"})
    <2>1. "splits" \in DOMAIN ElementOf /\ ElementOf["splits"] = "int32_t"
      BY DEF ElementOf
    <2> QED
      BY <1>1, <2>1, ArrayPiece, ArrayContents DEF Contents
  <1>4. IsSeq(e) /\ P(e, {"lap_type"}, {"lap_type", "splits"})
    BY LapTypePiece, NamesGiven, AllItems DEF Names
  <1> DEFINE ab == a \o b
             abc == ab \o c
             abcd == abc \o d
  <1>5. IsSeq(ab) /\ IsSeq(abc) /\ IsSeq(abcd)
    <2> HIDE DEF a, b, c, d
    <2> QED
      BY <1>2, <1>3, Joined
  <1>6. Lap(name) = Under(base, abcd \o e)
    BY DEF Lap
  <1> HIDE DEF a, b, c, d, e, base
  <1>7. \E R, W : P(ab, R, W) /\ R \cup W \subseteq {"lap_time", "car_index", "driver_index"}
    <2>1. Under(base, ab) = Under(base, a) \o Under(base, b)
      BY <1>2, UnderJoined
    <2>2. {"lap_time"} \cap {"car_index", "driver_index"} = {}
      OBVIOUS
    <2> DEFINE S == {"lap_time"} \cup {"car_index", "driver_index"}
    <2>3. P(ab, S, S)
      BY <1>2, <2>1, <2>2, JoinedPieces
    <2> QED
      BY <2>3
  <1> HIDE DEF ab
  <1>8. \E R, W : P(abc, R, W) /\ R \cup W \subseteq {"lap_time", "car_index", "driver_index", "splits"}
    <2>1. Under(base, abc) = Under(base, ab) \o Under(base, c)
      BY <1>3, <1>5, UnderJoined
    <2>2. PICK R, W : P(ab, R, W) /\ R \cup W \subseteq {"lap_time", "car_index", "driver_index"}
      BY <1>7
    <2>3. W \cap {"splits"} = {}
      BY <2>2
    <2>4. P(abc, R \cup {"splits"}, W \cup {"splits"})
      BY <1>3, <2>1, <2>2, <2>3, JoinedPieces
    <2> QED
      BY <2>2, <2>4
  <1> HIDE DEF abc
  <1>9. \E R, W : P(abcd, R, W) /\ W \cap {"lap_type"} = {}
    <2>1. Under(base, abcd) = Under(base, abc) \o Under(base, d)
      BY <1>2, <1>5, UnderJoined
    <2>2. PICK R, W : P(abc, R, W)
                      /\ R \cup W \subseteq {"lap_time", "car_index", "driver_index", "splits"}
      BY <1>8
    <2>3. W \cap D = {} /\ (W \cup D) \cap {"lap_type"} = {}
      BY <2>2
    <2> HIDE DEF D
    <2>4. P(abcd, R \cup D, W \cup D)
      BY <1>2, <2>1, <2>2, <2>3, JoinedPieces
    <2> QED
      BY <2>3, <2>4
  <1> HIDE DEF abcd
  <1>10. PICK R, W : P(abcd, R, W) /\ W \cap {"lap_type"} = {}
    BY <1>9
  <1>11. Under(base, abcd \o e) = Under(base, abcd) \o Under(base, e)
    BY <1>4, <1>5, UnderJoined
  <1>12. Piece(Under(base, abcd \o e), "u8", base, R \cup {"lap_type"},
               W \cup {"lap_type", "splits"})
    BY <1>4, <1>10, <1>11, JoinedPieces
  <1>13. Piece(Lap(name), "u8", base, R \cup {"lap_type"}, W \cup {"lap_type", "splits"})
    BY <1>6, <1>12
  <1> QED
    BY <1>13 DEF Piece, base

LEMMA LapContents ==
  ASSUME NEW name
  PROVE  Contents(Lap(name), {<<name, "splits">>}, {<<name, "splits">>},
                  {<<name, m>> : m \in LapFields})
  <1> DEFINE a == All("i32", <<"lap_time">>)
             b == All("u16", <<"car_index", "driver_index">>)
             c == ArrayOf("u8", "int32_t", "splits")
             d == All("bool", <<"is_invalid", "is_valid_for_best", "is_outlap", "is_inlap">>)
             e == All("lap_type", <<"lap_type">>)
             D == {"is_invalid", "is_valid_for_best", "is_outlap", "is_inlap"}
             s == a \o b \o c \o d \o e
             M == Single({"lap_time"}) \cup Single({"car_index", "driver_index"})
                  \cup {<<"splits">>} \cup Single(D) \cup Single({"lap_type"})
  <1>1. /\ Names(<<"lap_time">>, {"lap_time"})
        /\ Names(<<"car_index", "driver_index">>, {"car_index", "driver_index"})
        /\ Names(<<"is_invalid", "is_valid_for_best", "is_outlap", "is_inlap">>, D)
        /\ Names(<<"lap_type">>, {"lap_type"})
    BY NamesGiven
  <1>2. {"i32", "u16", "bool", "lap_type"} \subseteq MemberKinds \ {"array", "string"}
    BY DEF MemberKinds, Width
  <1> HIDE DEF D
  <1>3. /\ Contents(a, {}, {}, Single({"lap_time"}))
        /\ Contents(b, {}, {}, Single({"car_index", "driver_index"}))
        /\ Contents(d, {}, {}, Single(D))
        /\ Contents(e, {}, {}, Single({"lap_type"}))
    BY <1>1, <1>2, AllContents
  <1>4. Contents(c, {<<"splits">>}, {<<"splits">>}, {<<"splits">>})
    BY ArrayContents
  <1>5. Lap(name) = Under(<<name>>, s)
    BY DEF Lap
  <1> HIDE DEF a, b, c, d, e
  <1>6. Contents(s, {<<"splits">>}, {<<"splits">>}, M)
    <2>1. Contents(a \o b, {}, {}, Single({"lap_time"}) \cup Single({"car_index", "driver_index"}))
      BY <1>3, JoinedContents
    <2>2. Contents(a \o b \o c, {<<"splits">>}, {<<"splits">>},
                   Single({"lap_time"}) \cup Single({"car_index", "driver_index"})
                   \cup {<<"splits">>})
      BY <1>4, <2>1, JoinedContents
    <2>3. Contents(a \o b \o c \o d, {<<"splits">>}, {<<"splits">>},
                   Single({"lap_time"}) \cup Single({"car_index", "driver_index"})
                   \cup {<<"splits">>} \cup Single(D))
      BY <1>3, <2>2, JoinedContents
    <2> QED
      BY <1>3, <2>3, JoinedContents
  <1> HIDE DEF s
  <1>7. M = Single(LapFields)
    BY DEF D, Single, LapFields
  <1> HIDE DEF M
  <1>8. Contents(Under(<<name>>, s), {<<name>> \o m : m \in {<<"splits">>}},
                 {<<name>> \o m : m \in {<<"splits">>}}, {<<name>> \o m : m \in M})
    BY <1>6, MovedContents
  <1>9. /\ {<<name>> \o m : m \in {<<"splits">>}} = {<<name, "splits">>}
        /\ {<<name>> \o m : m \in M} = {<<name, m>> : m \in LapFields}
    <2> DEFINE f(m) == <<name>> \o m
               g(m) == <<m>>
               h(m) == <<name, m>>
    <2>1. \A m : f(g(m)) = h(m)
      BY PairOf
    <2>2. M = {g(m) : m \in LapFields}
      BY <1>7 DEF Single
    <2> HIDE DEF f, g, h
    <2>3. {f(m) : m \in {g("splits")}} = {h("splits")}
      BY <2>1
    <2>4. {f(m) : m \in M} = {h(m) : m \in LapFields}
      BY <2>1, <2>2
    <2> QED
      BY <2>3, <2>4 DEF f, g, h
  <1> QED
    BY <1>5, <1>8, <1>9

\* A layout from the head of a response, or a part of one.
Top(s, count, S, A, B, M) == Piece(s, count, <<>>, S, S) /\ Contents(s, A, B, M)

LEMMA JoinedTops ==
  ASSUME NEW a, NEW b, NEW count,
         NEW S, NEW A, NEW B, NEW M, NEW S1, NEW A1, NEW B1, NEW M1,
         Top(a, count, S, A, B, M), Top(b, count, S1, A1, B1, M1), S \cap S1 = {}
  PROVE  Top(a \o b, count, S \cup S1, A \cup A1, B \cup B1, M \cup M1)
  BY JoinedPieces, JoinedContents DEF Top

LEMMA AllTop ==
  ASSUME NEW kind \in DOMAIN Width \cup {"string"}, NEW names, NEW S, Names(names, S), NEW count
  PROVE  Top(All(kind, names), count, S, {}, IF kind = "string" THEN Single(S) ELSE {}, Single(S))
  <1>1. kind \in MemberKinds \ {"array"}
    BY DEF MemberKinds, Width
  <1> QED
    BY <1>1, AllPieces, AllContents DEF Top

LEMMA ArrayTop ==
  ASSUME NEW name \in DOMAIN ElementOf, NEW count
  PROVE  Top(ArrayOf(count, ElementOf[name], name), count, {name}, {<<name>>}, {<<name>>}, {<<name>>})
  BY ArrayPiece, ArrayContents DEF Top

LapParts(laps) == {<<lap, m>> : lap \in laps, m \in LapFields}

LEMMA LapTop ==
  ASSUME NEW name
  PROVE  Top(Lap(name), "u8", {name}, {<<name, "splits">>}, {<<name, "splits">>}, LapParts({name}))
  <1>1. LapParts({name}) = {<<name, m>> : m \in LapFields}
    BY DEF LapParts
  <1> QED
    BY <1>1, LapPiece, BehindName, LapContents DEF Top

ReplayNames == {"replay_session_time", "replay_remaining_time"}

LEMMA ReplayItems ==
  /\ Top(ReplayTimes, "u8", ReplayNames, {}, {}, Single(ReplayNames))
  /\ Len(ReplayTimes) = 2
  /\ \A x \in Items(ReplayTimes) : x.kind = "f32" /\ x.path \in Single(ReplayNames)
  /\ OfKind({"f32"}, Items(ReplayTimes)) = Single(ReplayNames)
  <1> DEFINE names == <<"replay_session_time", "replay_remaining_time">>
  <1>1. Names(names, ReplayNames) /\ Len(names) = 2
    BY NamesGiven DEF ReplayNames
  <1>2. "f32" \in DOMAIN Width
    BY DEF Width
  <1>3. ReplayTimes = All("f32", names)
    BY DEF ReplayTimes
  <1> HIDE DEF names
  <1>4. Top(ReplayTimes, "u8", ReplayNames, {}, {}, Single(ReplayNames))
    BY <1>1, <1>2, <1>3, AllTop
  <1>5. /\ Len(ReplayTimes) = 2
        /\ Items(ReplayTimes) = {[path |-> <<n>>, kind |-> "f32"] : n \in ReplayNames}
    BY <1>1, <1>3, AllItems DEF Names
  <1>6. \A x \in Items(ReplayTimes) : x.kind = "f32" /\ x.path \in Single(ReplayNames)
    BY <1>5 DEF Single
  <1>7. \A x \in Items(ReplayTimes) : x.kind \in MemberKinds <=> x.kind \in {"f32"}
    BY <1>2, <1>6 DEF MemberKinds
  <1>8. OfKind({"f32"}, Items(ReplayTimes)) = OfKind(MemberKinds, Items(ReplayTimes))
    BY <1>7 DEF OfKind
  <1> QED
    BY <1>4, <1>5, <1>6, <1>8 DEF Top, Contents

LEMMA ReplayTop ==
  Top(All("replay", <<"is_replay_playing">>), "u8", {"is_replay_playing"} \cup ReplayNames,
      {}, {}, Single({"is_replay_playing"}))
  <1> DEFINE x == [path |-> <<"is_replay_playing">>, kind |-> "replay"]
             S == {"is_replay_playing"} \cup ReplayNames
  <1>1. All("replay", <<"is_replay_playing">>) = <<x>>
    BY DEF All
  <1>2. /\ x.path = <<"is_replay_playing">> /\ x.kind = "replay" /\ DOMAIN x = {"path", "kind"}
    OBVIOUS
  <1> HIDE DEF x
  <1>3. LayoutItem(x, "u8")
    BY <1>2, Tuples DEF LayoutItem, MemberKinds, FieldsOfKind
  <1>4. \A q : Writes(x, q) => q \in Single(S)
    BY <1>2, ReplayItems DEF Writes, Reads, Single
  <1>5. \A q \in Single(S) : IsSeq(q) /\ Len(q) = 1 /\ q[1] \in S
    BY Tuples DEF Single
  <1> HIDE DEF S
  <1>6. ASSUME NEW q, Writes(x, q)
        PROVE  Extends(q, <<>>) /\ Len(q) > Len(<<>>) /\ q[Len(<<>>) + 1] \in S
    <2>1. IsSeq(q) /\ Len(q) = 1 /\ q[1] \in S /\ Len(<<>>) = 0
      BY <1>4, <1>5, <1>6, Tuples
    <2> QED
      BY <2>1, ExtendsEmpty
  <1>7. \A q : Reads(x, q) => Writes(x, q)
    BY DEF Writes
  <1>8. Piece(<<x>>, "u8", <<>>, S, S)
    BY <1>3, <1>6, <1>7, ItemPiece
  <1>9. Contents(All("replay", <<"is_replay_playing">>), {}, {}, Single({"is_replay_playing"}))
    <2>1. "replay" \in MemberKinds \ {"array"}
      BY DEF MemberKinds
    <2>2. Names(<<"is_replay_playing">>, {"is_replay_playing"})
      BY NamesGiven
    <2> QED
      BY <2>1, <2>2, AllContents
  <1> QED
    BY <1>1, <1>8, <1>9 DEF Top, S

LEMMA RegistrationResultTop ==
  \E S : Top(RegistrationResult, "u8", S, {}, Single({"error_message"}),
             Single({"connection_id", "connection_success", "is_read_only", "error_message"}))
  <1> DEFINE a == All("i32", <<"connection_id">>)
             b == All("bool", <<"connection_success", "is_read_only">>)
             c == All("string", <<"error_message">>)
             A == {"connection_id"}
             B == {"connection_success", "is_read_only"}
             C == {"error_message"}
  <1>1. /\ Names(<<"connection_id">>, A) /\ Names(<<"connection_success", "is_read_only">>, B)
        /\ Names(<<"error_message">>, C)
    BY NamesGiven
  <1>2. {"i32", "bool", "string"} \subseteq DOMAIN Width \cup {"string"}
    BY DEF Width
  <1>3. A \cap B = {} /\ (A \cup B) \cap C = {}
    OBVIOUS
  <1>4. RegistrationResult = a \o b \o c
    BY DEF RegistrationResult
  <1>5. /\ Single(A \cup B \cup C) = Single(A) \cup Single(B) \cup Single(C)
        /\ A \cup B \cup C =
              {"connection_id", "connection_success", "is_read_only", "error_message"}
    BY DEF Single
  <1> HIDE DEF A, B, C
  <1>6. /\ Top(a, "u8", A, {}, {}, Single(A)) /\ Top(b, "u8", B, {}, {}, Single(B))
        /\ Top(c, "u8", C, {}, Single(C), Single(C))
    BY <1>1, <1>2, AllTop
  <1> HIDE DEF a, b, c
  <1>7. Top(a \o b, "u8", A \cup B, {}, {}, Single(A) \cup Single(B))
    BY <1>3, <1>6, JoinedTops
  <1>8. Top(a \o b \o c, "u8", A \cup B \cup C, {}, Single(C),
            Single(A) \cup Single(B) \cup Single(C))
    BY <1>3, <1>6, <1>7, JoinedTops
  <1> QED
    BY <1>4, <1>5, <1>8 DEF C

LEMMA RealTimeUpdateTop ==
  \E S : Top(RealTimeUpdate, "u8", S,
             {<<"best_session_lap", "splits">>},
             {<<"active_camera_set">>, <<"active_camera">>, <<"current_hud_page">>,
              <<"best_session_lap", "splits">>},
             Single({"event_index", "session_index", "session_type", "phase",
                    "session_time", "session_end_time", "focused_car_index",
                    "active_camera_set", "active_camera", "current_hud_page",
                    "is_replay_playing", "time_of_day", "ambient_temperature",
                    "track_temperature", "cloud_level", "rain_level", "wetness_level"})
             \cup LapParts({"best_session_lap"}))
  <1> DEFINE a1 == All("u16", <<"event_index", "session_index">>)
             a2 == All("u8", <<"session_type", "phase">>)
             a3 == All("f32", <<"session_time", "session_end_time">>)
             a4 == All("i32", <<"focused_car_index">>)
             a5 == All("string", <<"active_camera_set", "active_camera",
                                   "current_hud_page">>)
             a6 == All("replay", <<"is_replay_playing">>)
             a7 == All("f32", <<"time_of_day">>)
             a8 == All("u8", <<"ambient_temperature", "track_temperature", "cloud_level",
                               "rain_level", "wetness_level">>)
             a9 == Lap("best_session_lap")
             S1 == {"event_index", "session_index"}
             S2 == {"session_type", "phase"}
             S3 == {"session_time", "session_end_time"}
             S4 == {"focused_car_index"}
             S5 == {"active_camera_set", "active_camera", "current_hud_page"}
             S6 == {"is_replay_playing"} \cup ReplayNames
             S7 == {"time_of_day"}
             S8 == {"ambient_temperature", "track_temperature", "cloud_level",
                    "rain_level", "wetness_level"}
             S9 == {"best_session_lap"}
             b2 == a1 \o a2
             b3 == b2 \o a3
             b4 == b3 \o a4
             b5 == b4 \o a5
             b6 == b5 \o a6
             b7 == b6 \o a7
             b8 == b7 \o a8
             T2 == S1 \cup S2
             T3 == T2 \cup S3
             T4 == T3 \cup S4
             T5 == T4 \cup S5
             T6 == T5 \cup S6
             T7 == T6 \cup S7
             T8 == T7 \cup S8
  <1>1. RealTimeUpdate = b8 \o a9
    BY DEF RealTimeUpdate
  <1>2. /\ Names(<<"event_index", "session_index">>, S1)
        /\ Names(<<"session_type", "phase">>, S2)
        /\ Names(<<"session_time", "session_end_time">>, S3)
        /\ Names(<<"focused_car_index">>, S4)
        /\ Names(<<"active_camera_set", "active_camera", "current_hud_page">>, S5)
        /\ Names(<<"time_of_day">>, S7)
        /\ Names(<<"ambient_temperature", "track_temperature", "cloud_level",
                   "rain_level", "wetness_level">>, S8)
    BY NamesGiven
  <1>3. /\ S1 \cap S2 = {}
        /\ T2 \cap S3 = {}
        /\ T3 \cap S4 = {}
        /\ T4 \cap S5 = {}
        /\ T5 \cap S6 = {}
        /\ T6 \cap S7 = {}
        /\ T7 \cap S8 = {}
        /\ T8 \cap S9 = {}
    BY DEF ReplayNames
  <1>4. {"f32", "i32", "string", "u16", "u8"} \subseteq DOMAIN Width \cup {"string"}
    BY DEF Width
  <1> DEFINE A == {<<"best_session_lap", "splits">>}
             B == Single(S5) \cup {<<"best_session_lap", "splits">>}
             M == Single(S1) \cup Single(S2) \cup Single(S3) \cup Single(S4) \cup Single(S5)
                  \cup Single({"is_replay_playing"}) \cup Single(S7) \cup Single(S8)
                  \cup LapParts({"best_session_lap"})
  <1>6. A = {<<"best_session_lap", "splits">>}
    OBVIOUS
  <1>7. B = {<<"active_camera_set">>, <<"active_camera">>, <<"current_hud_page">>,
             <<"best_session_lap", "splits">>}
    BY DEF Single
  <1>8. M = Single({"event_index", "session_index", "session_type", "phase",
                    "session_time", "session_end_time", "focused_car_index",
                    "active_camera_set", "active_camera", "current_hud_page",
                    "is_replay_playing", "time_of_day", "ambient_temperature",
                    "track_temperature", "cloud_level", "rain_level", "wetness_level"})
             \cup LapParts({"best_session_lap"})
    BY DEF Single, LapParts
  <1> HIDE DEF S1, S2, S3, S4, S5, S6, S7, S8, S9
  <1>9. /\ Top(a1, "u8", S1, {}, {}, Single(S1))
        /\ Top(a2, "u8", S2, {}, {}, Single(S2))
        /\ Top(a3, "u8", S3, {}, {}, Single(S3))
        /\ Top(a4, "u8", S4, {}, {}, Single(S4))
        /\ Top(a5, "u8", S5, {}, Single(S5), Single(S5))
        /\ Top(a6, "u8", S6, {}, {}, Single({"is_replay_playing"}))
        /\ Top(a7, "u8", S7, {}, {}, Single(S7))
        /\ Top(a8, "u8", S8, {}, {}, Single(S8))
        /\ Top(a9, "u8", S9, {<<"best_session_lap", "splits">>}, {<<"best_session_lap",
                                                                    "splits">>},
             LapParts({"best_session_lap"}))
    BY <1>2, <1>4, AllTop, LapTop, ReplayTop DEF S6, S9
  <1> HIDE DEF a1, a2, a3, a4, a5, a6, a7, a8, a9
  <1>10. Top(b2, "u8", T2, {}, {},
             Single(S1) \cup Single(S2))
    BY <1>3, <1>9, JoinedTops
  <1> HIDE DEF b2, T2
  <1>11. Top(b3, "u8", T3, {}, {},
             Single(S1) \cup Single(S2) \cup Single(S3))
    BY <1>3, <1>9, <1>10, JoinedTops
  <1> HIDE DEF b3, T3
  <1>12. Top(b4, "u8", T4, {}, {},
             Single(S1) \cup Single(S2) \cup Single(S3) \cup Single(S4))
    BY <1>3, <1>9, <1>11, JoinedTops
  <1> HIDE DEF b4, T4
  <1>13. Top(b5, "u8", T5, {}, Single(S5),
             Single(S1) \cup Single(S2) \cup Single(S3) \cup Single(S4) \cup Single(S5))
    BY <1>3, <1>9, <1>12, JoinedTops
  <1> HIDE DEF b5, T5
  <1>14. Top(b6, "u8", T6, {}, Single(S5),
             Single(S1) \cup Single(S2) \cup Single(S3) \cup Single(S4) \cup Single(S5)
             \cup Single({"is_replay_playing"}))
    BY <1>3, <1>9, <1>13, JoinedTops
  <1> HIDE DEF b6, T6
  <1>15. Top(b7, "u8", T7, {}, Single(S5),
             Single(S1) \cup Single(S2) \cup Single(S3) \cup Single(S4) \cup Single(S5)
             \cup Single({"is_replay_playing"}) \cup Single(S7))
    BY <1>3, <1>9, <1>14, JoinedTops
  <1> HIDE DEF b7, T7
  <1>16. Top(b8, "u8", T8, {}, Single(S5),
             Single(S1) \cup Single(S2) \cup Single(S3) \cup Single(S4) \cup Single(S5)
             \cup Single({"is_replay_playing"}) \cup Single(S7) \cup Single(S8))
    BY <1>3, <1>9, <1>15, JoinedTops
  <1> HIDE DEF b8, T8
  <1>17. Top(b8 \o a9, "u8", T8 \cup S9, A, B, M)
    BY <1>3, <1>9, <1>16, JoinedTops
  <1> QED
    BY <1>1, <1>6, <1>7, <1>8, <1>17

LEMMA RealTimeCarUpdateTop ==
  \E S : Top(RealTimeCarUpdate, "u8", S,
             {<<"best_session_lap", "splits">>, <<"last_lap", "splits">>,
              <<"current_lap", "splits">>},
             {<<"best_session_lap", "splits">>, <<"last_lap", "splits">>,
              <<"current_lap", "splits">>},
             Single({"car_index", "driver_index", "driver_count", "gear",
                    "world_position_x", "world_position_y", "yaw", "car_location", "speed",
                    "position", "cup_position", "track_position", "spline_position",
                    "laps", "delta"})
             \cup LapParts({"best_session_lap", "last_lap", "current_lap"}))
  <1> DEFINE a1 == All("u16", <<"car_index", "driver_index">>)
             a2 == All("u8", <<"driver_count", "gear">>)
             a3 == All("f32", <<"world_position_x", "world_position_y", "yaw">>)
             a4 == All("u8", <<"car_location">>)
             a5 == All("u16", <<"speed", "position", "cup_position", "track_position">>)
             a6 == All("f32", <<"spline_position">>)
             a7 == All("u16", <<"laps">>)
             a8 == All("i32", <<"delta">>)
             a9 == Lap("best_session_lap")
             a10 == Lap("last_lap")
             a11 == Lap("current_lap")
             S1 == {"car_index", "driver_index"}
             S2 == {"driver_count", "gear"}
             S3 == {"world_position_x", "world_position_y", "yaw"}
             S4 == {"car_location"}
             S5 == {"speed", "position", "cup_position", "track_position"}
             S6 == {"spline_position"}
             S7 == {"laps"}
             S8 == {"delta"}
             S9 == {"best_session_lap"}
             S10 == {"last_lap"}
             S11 == {"current_lap"}
             b2 == a1 \o a2
             b3 == b2 \o a3
             b4 == b3 \o a4
             b5 == b4 \o a5
             b6 == b5 \o a6
             b7 == b6 \o a7
             b8 == b7 \o a8
             b9 == b8 \o a9
             b10 == b9 \o a10
             T2 == S1 \cup S2
             T3 == T2 \cup S3
             T4 == T3 \cup S4
             T5 == T4 \cup S5
             T6 == T5 \cup S6
             T7 == T6 \cup S7
             T8 == T7 \cup S8
             T9 == T8 \cup S9
             T10 == T9 \cup S10
  <1>1. RealTimeCarUpdate = b10 \o a11
    BY DEF RealTimeCarUpdate
  <1>2. /\ Names(<<"car_index", "driver_index">>, S1)
        /\ Names(<<"driver_count", "gear">>, S2)
        /\ Names(<<"world_position_x", "world_position_y", "yaw">>, S3)
        /\ Names(<<"car_location">>, S4)
        /\ Names(<<"speed", "position", "cup_position", "track_position">>, S5)
        /\ Names(<<"spline_position">>, S6)
        /\ Names(<<"laps">>, S7)
        /\ Names(<<"delta">>, S8)
    BY NamesGiven
  <1>3. /\ S1 \cap S2 = {}
        /\ T2 \cap S3 = {}
        /\ T3 \cap S4 = {}
        /\ T4 \cap S5 = {}
        /\ T5 \cap S6 = {}
        /\ T6 \cap S7 = {}
        /\ T7 \cap S8 = {}
        /\ T8 \cap S9 = {}
        /\ T9 \cap S10 = {}
        /\ T10 \cap S11 = {}
    OBVIOUS
  <1>4. {"f32", "i32", "u16", "u8"} \subseteq DOMAIN Width \cup {"string"}
    BY DEF Width
  <1> DEFINE A == {<<"best_session_lap", "splits">>} \cup {<<"last_lap",
                                                             "splits">>}
             \cup {<<"current_lap", "splits">>}
             B == {<<"best_session_lap", "splits">>} \cup {<<"last_lap",
                                                             "splits">>}
             \cup {<<"current_lap", "splits">>}
             M == Single(S1) \cup Single(S2) \cup Single(S3) \cup Single(S4) \cup Single(S5)
                  \cup Single(S6) \cup Single(S7) \cup Single(S8)
                  \cup LapParts({"best_session_lap"}) \cup LapParts({"last_lap"})
                  \cup LapParts({"current_lap"})
  <1>6. A = {<<"best_session_lap", "splits">>, <<"last_lap", "splits">>, <<"current_lap",
                                                                           "splits">>}
    OBVIOUS
  <1>7. B = {<<"best_session_lap", "splits">>, <<"last_lap", "splits">>, <<"current_lap",
                                                                           "splits">>}
    BY DEF Single
  <1>8. M = Single({"car_index", "driver_index", "driver_count", "gear",
                    "world_position_x", "world_position_y", "yaw", "car_location", "speed",
                    "position", "cup_position", "track_position", "spline_position",
                    "laps", "delta"})
             \cup LapParts({"best_session_lap", "last_lap", "current_lap"})
    BY DEF Single, LapParts
  <1> HIDE DEF S1, S2, S3, S4, S5, S6, S7, S8, S9, S10, S11
  <1>9. /\ Top(a1, "u8", S1, {}, {}, Single(S1))
        /\ Top(a2, "u8", S2, {}, {}, Single(S2))
        /\ Top(a3, "u8", S3, {}, {}, Single(S3))
        /\ Top(a4, "u8", S4, {}, {}, Single(S4))
        /\ Top(a5, "u8", S5, {}, {}, Single(S5))
        /\ Top(a6, "u8", S6, {}, {}, Single(S6))
        /\ Top(a7, "u8", S7, {}, {}, Single(S7))
        /\ Top(a8, "u8", S8, {}, {}, Single(S8))
        /\ Top(a9, "u8", S9, {<<"best_session_lap", "splits">>}, {<<"best_session_lap",
                                                                    "splits">>},
             LapParts({"best_session_lap"}))
        /\ Top(a10, "u8", S10, {<<"last_lap", "splits">>}, {<<"last_lap", "splits">>},
               LapParts({"last_lap"}))
        /\ Top(a11, "u8", S11, {<<"current_lap", "splits">>}, {<<"current_lap",
                                                                 "splits">>},
             LapParts({"current_lap"}))
    BY <1>2, <1>4, AllTop, LapTop DEF S9, S10, S11
  <1> HIDE DEF a1, a2, a3, a4, a5, a6, a7, a8, a9, a10, a11
  <1>10. Top(b2, "u8", T2, {}, {},
             Single(S1) \cup Single(S2))
    BY <1>3, <1>9, JoinedTops
  <1> HIDE DEF b2, T2
  <1>11. Top(b3, "u8", T3, {}, {},
             Single(S1) \cup Single(S2) \cup Single(S3))
    BY <1>3, <1>9, <1>10, JoinedTops
  <1> HIDE DEF b3, T3
  <1>12. Top(b4, "u8", T4, {}, {},
             Single(S1) \cup Single(S2) \cup Single(S3) \cup Single(S4))
    BY <1>3, <1>9, <1>11, JoinedTops
  <1> HIDE DEF b4, T4
  <1>13. Top(b5, "u8", T5, {}, {},
             Single(S1) \cup Single(S2) \cup Single(S3) \cup Single(S4) \cup Single(S5))
    BY <1>3, <1>9, <1>12, JoinedTops
  <1> HIDE DEF b5, T5
  <1>14. Top(b6, "u8", T6, {}, {},
             Single(S1) \cup Single(S2) \cup Single(S3) \cup Single(S4) \cup Single(S5)
             \cup Single(S6))
    BY <1>3, <1>9, <1>13, JoinedTops
  <1> HIDE DEF b6, T6
  <1>15. Top(b7, "u8", T7, {}, {},
             Single(S1) \cup Single(S2) \cup Single(S3) \cup Single(S4) \cup Single(S5)
             \cup Single(S6) \cup Single(S7))
    BY <1>3, <1>9, <1>14, JoinedTops
  <1> HIDE DEF b7, T7
  <1>16. Top(b8, "u8", T8, {}, {},
             Single(S1) \cup Single(S2) \cup Single(S3) \cup Single(S4) \cup Single(S5)
             \cup Single(S6) \cup Single(S7) \cup Single(S8))
    BY <1>3, <1>9, <1>15, JoinedTops
  <1> HIDE DEF b8, T8
  <1>17. Top(b9, "u8", T9, {<<"best_session_lap", "splits">>}, {<<"best_session_lap",
                                                                  "splits">>},
             Single(S1) \cup Single(S2) \cup Single(S3) \cup Single(S4) \cup Single(S5)
             \cup Single(S6) \cup Single(S7) \cup Single(S8)
             \cup LapParts({"best_session_lap"}))
    BY <1>3, <1>9, <1>16, JoinedTops
  <1> HIDE DEF b9, T9
  <1>18. Top(b10, "u8", T10, {<<"best_session_lap", "splits">>} \cup {<<"last_lap",
                                                                        "splits">>},
             {<<"best_session_lap", "splits">>} \cup {<<"last_lap", "splits">>},
             Single(S1) \cup Single(S2) \cup Single(S3) \cup Single(S4) \cup Single(S5)
             \cup Single(S6) \cup Single(S7) \cup Single(S8)
             \cup LapParts({"best_session_lap"}) \cup LapParts({"last_lap"}))
    BY <1>3, <1>9, <1>17, JoinedTops
  <1> HIDE DEF b10, T10
  <1>19. Top(b10 \o a11, "u8", T10 \cup S11, A, B, M)
    BY <1>3, <1>9, <1>18, JoinedTops
  <1> QED
    BY <1>1, <1>6, <1>7, <1>8, <1>19

LEMMA EntryListTop ==
  \E S : Top(EntryList, "u16", S,
             {<<"indexes">>},
             {<<"indexes">>},
             Single({"connection_id", "indexes"}))
  <1> DEFINE a1 == All("i32", <<"connection_id">>)
             a2 == ArrayOf("u16", "uint16_t", "indexes")
             S1 == {"connection_id"}
             S2 == {"indexes"}
  <1>1. EntryList = a1 \o a2
    BY DEF EntryList
  <1>2. /\ Names(<<"connection_id">>, S1)
    BY NamesGiven
  <1>3. /\ S1 \cap S2 = {}
    OBVIOUS
  <1>4. {"i32"} \subseteq DOMAIN Width \cup {"string"}
    BY DEF Width
  <1>5. "indexes" \in DOMAIN ElementOf /\ ElementOf["indexes"] = "uint16_t"
    BY DEF ElementOf
  <1> DEFINE A == {<<"indexes">>}
             B == {<<"indexes">>}
             M == Single(S1) \cup {<<"indexes">>}
  <1>6. A = {<<"indexes">>}
    OBVIOUS
  <1>7. B = {<<"indexes">>}
    BY DEF Single
  <1>8. M = Single({"connection_id", "indexes"})
    BY DEF Single
  <1> HIDE DEF S1, S2
  <1>9. /\ Top(a1, "u16", S1, {}, {}, Single(S1))
        /\ Top(a2, "u16", S2, {<<"indexes">>}, {<<"indexes">>}, {<<"indexes">>})
    BY <1>2, <1>4, <1>5, AllTop, ArrayTop DEF S2
  <1> HIDE DEF a1, a2
  <1>10. Top(a1 \o a2, "u16", S1 \cup S2, A, B, M)
    BY <1>3, <1>9, JoinedTops
  <1> QED
    BY <1>1, <1>6, <1>7, <1>8, <1>10

LEMMA EntryListCarTop ==
  \E S : Top(EntryListCar, "u8", S,
             {<<"driver_infos">>},
             {<<"team_name">>, <<"driver_infos">>},
             Single({"car_index", "car_model_type", "team_name", "race_number",
                    "cup_category", "current_driver_index", "nationality", "driver_infos"}))
  <1> DEFINE a1 == All("u16", <<"car_index">>)
             a2 == All("u8", <<"car_model_type">>)
             a3 == All("string", <<"team_name">>)
             a4 == All("i32", <<"race_number">>)
             a5 == All("u8", <<"cup_category", "current_driver_index">>)
             a6 == All("u16", <<"nationality">>)
             a7 == ArrayOf("u8", "acc_driver_info_t", "driver_infos")
             S1 == {"car_index"}
             S2 == {"car_model_type"}
             S3 == {"team_name"}
             S4 == {"race_number"}
             S5 == {"cup_category", "current_driver_index"}
             S6 == {"nationality"}
             S7 == {"driver_infos"}
             b2 == a1 \o a2
             b3 == b2 \o a3
             b4 == b3 \o a4
             b5 == b4 \o a5
             b6 == b5 \o a6
             T2 == S1 \cup S2
             T3 == T2 \cup S3
             T4 == T3 \cup S4
             T5 == T4 \cup S5
             T6 == T5 \cup S6
  <1>1. EntryListCar = b6 \o a7
    BY DEF EntryListCar
  <1>2. /\ Names(<<"car_index">>, S1)
        /\ Names(<<"car_model_type">>, S2)
        /\ Names(<<"team_name">>, S3)
        /\ Names(<<"race_number">>, S4)
        /\ Names(<<"cup_category", "current_driver_index">>, S5)
        /\ Names(<<"nationality">>, S6)
    BY NamesGiven
  <1>3. /\ S1 \cap S2 = {}
        /\ T2 \cap S3 = {}
        /\ T3 \cap S4 = {}
        /\ T4 \cap S5 = {}
        /\ T5 \cap S6 = {}
        /\ T6 \cap S7 = {}
    OBVIOUS
  <1>4. {"i32", "string", "u16", "u8"} \subseteq DOMAIN Width \cup {"string"}
    BY DEF Width
  <1>5. "driver_infos" \in DOMAIN ElementOf /\ ElementOf["driver_infos"] = "acc_driver_info_t"
    BY DEF ElementOf
  <1> DEFINE A == {<<"driver_infos">>}
             B == Single(S3) \cup {<<"driver_infos">>}
             M == Single(S1) \cup Single(S2) \cup Single(S3) \cup Single(S4) \cup Single(S5)
                  \cup Single(S6) \cup {<<"driver_infos">>}
  <1>6. A = {<<"driver_infos">>}
    OBVIOUS
  <1>7. B = {<<"team_name">>, <<"driver_infos">>}
    BY DEF Single
  <1>8. M = Single({"car_index", "car_model_type", "team_name", "race_number",
                    "cup_category", "current_driver_index", "nationality", "driver_infos"})
    BY DEF Single
  <1> HIDE DEF S1, S2, S3, S4, S5, S6, S7
  <1>9. /\ Top(a1, "u8", S1, {}, {}, Single(S1))
        /\ Top(a2, "u8", S2, {}, {}, Single(S2))
        /\ Top(a3, "u8", S3, {}, Single(S3), Single(S3))
        /\ Top(a4, "u8", S4, {}, {}, Single(S4))
        /\ Top(a5, "u8", S5, {}, {}, Single(S5))
        /\ Top(a6, "u8", S6, {}, {}, Single(S6))
        /\ Top(a7, "u8", S7, {<<"driver_infos">>}, {<<"driver_infos">>},
               {<<"driver_infos">>})
    BY <1>2, <1>4, <1>5, AllTop, ArrayTop DEF S7
  <1> HIDE DEF a1, a2, a3, a4, a5, a6, a7
  <1>10. Top(b2, "u8", T2, {}, {},
             Single(S1) \cup Single(S2))
    BY <1>3, <1>9, JoinedTops
  <1> HIDE DEF b2, T2
  <1>11. Top(b3, "u8", T3, {}, Single(S3),
             Single(S1) \cup Single(S2) \cup Single(S3))
    BY <1>3, <1>9, <1>10, JoinedTops
  <1> HIDE DEF b3, T3
  <1>12. Top(b4, "u8", T4, {}, Single(S3),
             Single(S1) \cup Single(S2) \cup Single(S3) \cup Single(S4))
    BY <1>3, <1>9, <1>11, JoinedTops
  <1> HIDE DEF b4, T4
  <1>13. Top(b5, "u8", T5, {}, Single(S3),
             Single(S1) \cup Single(S2) \cup Single(S3) \cup Single(S4) \cup Single(S5))
    BY <1>3, <1>9, <1>12, JoinedTops
  <1> HIDE DEF b5, T5
  <1>14. Top(b6, "u8", T6, {}, Single(S3),
             Single(S1) \cup Single(S2) \cup Single(S3) \cup Single(S4) \cup Single(S5)
             \cup Single(S6))
    BY <1>3, <1>9, <1>13, JoinedTops
  <1> HIDE DEF b6, T6
  <1>15. Top(b6 \o a7, "u8", T6 \cup S7, A, B, M)
    BY <1>3, <1>9, <1>14, JoinedTops
  <1> QED
    BY <1>1, <1>6, <1>7, <1>8, <1>15

LEMMA TrackDataTop ==
  \E S : Top(TrackData, "u8", S,
             {<<"camera_sets">>, <<"hud_pages">>},
             {<<"track_name">>, <<"camera_sets">>, <<"hud_pages">>},
             Single({"connection_id", "track_name", "track_id", "track_length",
                    "camera_sets", "hud_pages"}))
  <1> DEFINE a1 == All("i32", <<"connection_id">>)
             a2 == All("string", <<"track_name">>)
             a3 == All("i32", <<"track_id", "track_length">>)
             a4 == ArrayOf("u8", "acc_camera_set_t", "camera_sets")
             a5 == ArrayOf("u8", "string_t", "hud_pages")
             S1 == {"connection_id"}
             S2 == {"track_name"}
             S3 == {"track_id", "track_length"}
             S4 == {"camera_sets"}
             S5 == {"hud_pages"}
             b2 == a1 \o a2
             b3 == b2 \o a3
             b4 == b3 \o a4
             T2 == S1 \cup S2
             T3 == T2 \cup S3
             T4 == T3 \cup S4
  <1>1. TrackData = b4 \o a5
    BY DEF TrackData
  <1>2. /\ Names(<<"connection_id">>, S1)
        /\ Names(<<"track_name">>, S2)
        /\ Names(<<"track_id", "track_length">>, S3)
    BY NamesGiven
  <1>3. /\ S1 \cap S2 = {}
        /\ T2 \cap S3 = {}
        /\ T3 \cap S4 = {}
        /\ T4 \cap S5 = {}
    OBVIOUS
  <1>4. {"i32", "string"} \subseteq DOMAIN Width \cup {"string"}
    BY DEF Width
  <1>5. /\ "camera_sets" \in DOMAIN ElementOf /\ ElementOf["camera_sets"] = "acc_camera_set_t"
        /\ "hud_pages" \in DOMAIN ElementOf /\ ElementOf["hud_pages"] = "string_t"
    BY DEF ElementOf
  <1> DEFINE A == {<<"camera_sets">>} \cup {<<"hud_pages">>}
             B == Single(S2) \cup {<<"camera_sets">>} \cup {<<"hud_pages">>}
             M == Single(S1) \cup Single(S2) \cup Single(S3) \cup {<<"camera_sets">>}
                  \cup {<<"hud_pages">>}
  <1>6. A = {<<"camera_sets">>, <<"hud_pages">>}
    OBVIOUS
  <1>7. B = {<<"track_name">>, <<"camera_sets">>, <<"hud_pages">>}
    BY DEF Single
  <1>8. M = Single({"connection_id", "track_name", "track_id", "track_length",
                    "camera_sets", "hud_pages"})
    BY DEF Single
  <1> HIDE DEF S1, S2, S3, S4, S5
  <1>9. /\ Top(a1, "u8", S1, {}, {}, Single(S1))
        /\ Top(a2, "u8", S2, {}, Single(S2), Single(S2))
        /\ Top(a3, "u8", S3, {}, {}, Single(S3))
        /\ Top(a4, "u8", S4, {<<"camera_sets">>}, {<<"camera_sets">>}, {<<"camera_sets">>})
        /\ Top(a5, "u8", S5, {<<"hud_pages">>}, {<<"hud_pages">>}, {<<"hud_pages">>})
    BY <1>2, <1>4, <1>5, AllTop, ArrayTop DEF S4, S5
  <1> HIDE DEF a1, a2, a3, a4, a5
  <1>10. Top(b2, "u8", T2, {}, Single(S2),
             Single(S1) \cup Single(S2))
    BY <1>3, <1>9, JoinedTops
  <1> HIDE DEF b2, T2
  <1>11. Top(b3, "u8", T3, {}, Single(S2),
             Single(S1) \cup Single(S2) \cup Single(S3))
    BY <1>3, <1>9, <1>10, JoinedTops
  <1> HIDE DEF b3, T3
  <1>12. Top(b4, "u8", T4, {<<"camera_sets">>}, Single(S2) \cup {<<"camera_sets">>},
             Single(S1) \cup Single(S2) \cup Single(S3) \cup {<<"camera_sets">>})
    BY <1>3, <1>9, <1>11, JoinedTops
  <1> HIDE DEF b4, T4
  <1>13. Top(b4 \o a5, "u8", T4 \cup S5, A, B, M)
    BY <1>3, <1>9, <1>12, JoinedTops
  <1> QED
    BY <1>1, <1>6, <1>7, <1>8, <1>13

LEMMA BroadcastingEventTop ==
  \E S : Top(BroadcastingEvent, "u8", S,
             {},
             {<<"message">>},
             Single({"type", "message", "time", "car_index"}))
  <1> DEFINE a1 == All("u8", <<"type">>)
             a2 == All("string", <<"message">>)
             a3 == All("i32", <<"time", "car_index">>)
             S1 == {"type"}
             S2 == {"message"}
             S3 == {"time", "car_index"}
             b2 == a1 \o a2
             T2 == S1 \cup S2
  <1>1. BroadcastingEvent = b2 \o a3
    BY DEF BroadcastingEvent
  <1>2. /\ Names(<<"type">>, S1)
        /\ Names(<<"message">>, S2)
        /\ Names(<<"time", "car_index">>, S3)
    BY NamesGiven
  <1>3. /\ S1 \cap S2 = {}
        /\ T2 \cap S3 = {}
    OBVIOUS
  <1>4. {"i32", "string", "u8"} \subseteq DOMAIN Width \cup {"string"}
    BY DEF Width
  <1> DEFINE A == {}
             B == Single(S2)
             M == Single(S1) \cup Single(S2) \cup Single(S3)
  <1>6. A = {}
    OBVIOUS
  <1>7. B = {<<"message">>}
    BY DEF Single
  <1>8. M = Single({"type", "message", "time", "car_index"})
    BY DEF Single
  <1> HIDE DEF S1, S2, S3
  <1>9. /\ Top(a1, "u8", S1, {}, {}, Single(S1))
        /\ Top(a2, "u8", S2, {}, Single(S2), Single(S2))
        /\ Top(a3, "u8", S3, {}, {}, Single(S3))
    BY <1>2, <1>4, AllTop
  <1> HIDE DEF a1, a2, a3
  <1>10. Top(b2, "u8", T2, {}, Single(S2),
             Single(S1) \cup Single(S2))
    BY <1>3, <1>9, JoinedTops
  <1> HIDE DEF b2, T2
  <1>11. Top(b2 \o a3, "u8", T2 \cup S3, A, B, M)
    BY <1>3, <1>9, <1>10, JoinedTops
  <1> QED
    BY <1>1, <1>6, <1>7, <1>8, <1>11

CountOf(t) == IF t = "ENTRY_LIST" THEN "u16" ELSE "u8"

LEMMA LayoutGiven ==
  /\ Layout["REGISTRATION_RESULT"] = RegistrationResult
  /\ Layout["REAL_TIME_UPDATE"] = RealTimeUpdate
  /\ Layout["REAL_TIME_CAR_UPDATE"] = RealTimeCarUpdate
  /\ Layout["ENTRY_LIST"] = EntryList
  /\ Layout["ENTRY_LIST_CAR"] = EntryListCar
  /\ Layout["TRACK_DATA"] = TrackData
  /\ Layout["BROADCASTING_EVENT"] = BroadcastingEvent
  /\ DOMAIN Layout = {"REGISTRATION_RESULT", "REAL_TIME_UPDATE", "REAL_TIME_CAR_UPDATE",
                      "ENTRY_LIST", "ENTRY_LIST_CAR", "TRACK_DATA", "BROADCASTING_EVENT"}
  BY DEF Layout

LEMMA LayoutTop ==
  ASSUME NEW t \in DOMAIN Layout
  PROVE  \E S, A, B, M : Top(Layout[t], CountOf(t), S, A, B, M)
  <1>1. CASE t = "REGISTRATION_RESULT"
    BY <1>1, LayoutGiven, RegistrationResultTop DEF CountOf
  <1>2. CASE t = "REAL_TIME_UPDATE"
    BY <1>2, LayoutGiven, RealTimeUpdateTop DEF CountOf
  <1>3. CASE t = "REAL_TIME_CAR_UPDATE"
    BY <1>3, LayoutGiven, RealTimeCarUpdateTop DEF CountOf
  <1>4. CASE t = "ENTRY_LIST"
    BY <1>4, LayoutGiven, EntryListTop DEF CountOf
  <1>5. CASE t = "ENTRY_LIST_CAR"
    BY <1>5, LayoutGiven, EntryListCarTop DEF CountOf
  <1>6. CASE t = "TRACK_DATA"
    BY <1>6, LayoutGiven, TrackDataTop DEF CountOf
  <1>7. CASE t = "BROADCASTING_EVENT"
    BY <1>7, LayoutGiven, BroadcastingEventTop DEF CountOf
  <1> QED
    BY <1>1, <1>2, <1>3, <1>4, <1>5, <1>6, <1>7, LayoutGiven

-----------------------------------------------------------------------------
(***************************************************************************)
(* The elements of arrays.                                                 *)
(***************************************************************************)
LEMMA EachWithin ==
  ASSUME NEW kind \in {"i32", "u16", "string"}, NEW base, IsSeq(base)
  PROVE  /\ Within(Under(base, Each(kind)), "u8", base)
         /\ Contents(Each(kind), {}, IF kind = "string" THEN {<<>>} ELSE {}, {<<>>})
  <1> DEFINE x == [path |-> <<>>, kind |-> kind]
             y == Moved(base, x)
  <1>1. /\ Each(kind) = <<x>> /\ IsSeq(<<x>>) /\ Items(<<x>>) = {x}
        /\ Under(base, Each(kind)) = <<y>> /\ IsSeq(<<y>>) /\ Items(<<y>>) = {y}
        /\ Len(<<y>>) <= 1
    BY UnderOne, Tuples DEF Each
  <1>2. /\ kind \in DOMAIN Width \cup {"string"} /\ kind \in MemberKinds
        /\ kind # "array" /\ kind # "loop" /\ kind # "replay" /\ kind # "lap_type"
        /\ FieldsOfKind(kind) = {"path", "kind"} /\ kind \notin ArrayKinds
        /\ (kind \in BlockKinds <=> kind = "string")
    BY DEF Width, MemberKinds, ArrayKinds, BlockKinds, FieldsOfKind
  <1>3. /\ y.path = base \o <<>> /\ y.kind = kind /\ DOMAIN y = {"path", "kind"}
        /\ x.path = <<>> /\ x.kind = kind /\ {"path", "kind"} \subseteq DOMAIN x
    BY DEF Moved
  <1> HIDE DEF x, y
  <1>4. y.path = base
    BY <1>3, Tuples, Joined
  <1>5. \A q : Writes(y, q) => Extends(q, base)
    BY <1>2, <1>3, <1>4, SimpleReads, ExtendsItself
  <1>6. LayoutItem(y, "u8")
    BY <1>2, <1>3, <1>4 DEF LayoutItem
  <1>7. Within(<<y>>, "u8", base)
    BY <1>1, <1>5, <1>6, OrderedShort DEF Within
  <1>8. \A K : OfKind(K, {x}) = IF kind \in K THEN {<<>>} ELSE {}
    BY <1>3 DEF OfKind
  <1>9. Contents(<<x>>, {}, IF kind = "string" THEN {<<>>} ELSE {}, {<<>>})
    BY <1>1, <1>2, <1>3, <1>8 DEF Contents
  <1> QED
    BY <1>1, <1>7, <1>9

DriverNames == {"first_name", "last_name", "short_name"}

LEMMA DriverInfoWithin ==
  /\ \A base : IsSeq(base) => Within(Under(base, DriverInfo), "u8", base)
  /\ Contents(DriverInfo, {}, Single(DriverNames),
              Single(DriverNames) \cup Single({"category"}) \cup Single({"nationality"}))
  <1> DEFINE a == All("string", <<"first_name", "last_name", "short_name">>)
             b == All("u8", <<"category">>)
             c == All("u16", <<"nationality">>)
  <1>1. /\ Names(<<"first_name", "last_name", "short_name">>, DriverNames)
        /\ Names(<<"category">>, {"category"}) /\ Names(<<"nationality">>, {"nationality"})
    BY NamesGiven DEF DriverNames
  <1>2. {"string", "u8", "u16"} \subseteq DOMAIN Width \cup {"string"}
    BY DEF Width
  <1>3. DriverInfo = a \o b \o c
    BY DEF DriverInfo
  <1>4. /\ Top(a, "u8", DriverNames, {}, Single(DriverNames), Single(DriverNames))
        /\ Top(b, "u8", {"category"}, {}, {}, Single({"category"}))
        /\ Top(c, "u8", {"nationality"}, {}, {}, Single({"nationality"}))
    BY <1>1, <1>2, AllTop
  <1>5. \A base : IsSeq(base) =>
            /\ Piece(Under(base, a), "u8", base, DriverNames, DriverNames)
            /\ Piece(Under(base, b), "u8", base, {"category"}, {"category"})
            /\ Piece(Under(base, c), "u8", base, {"nationality"}, {"nationality"})
    BY <1>1, <1>2, AllPieces
  <1> HIDE DEF a, b, c
  <1>6. /\ DriverNames \cap {"category"} = {}
        /\ (DriverNames \cup {"category"}) \cap {"nationality"} = {}
    BY DEF DriverNames
  <1>7. Contents(a \o b \o c, {}, Single(DriverNames),
                 Single(DriverNames) \cup Single({"category"}) \cup Single({"nationality"}))
    <2>1. Contents(a \o b, {}, Single(DriverNames), Single(DriverNames) \cup Single({"category"}))
      BY <1>4, JoinedContents DEF Top
    <2> QED
      BY <1>4, <2>1, JoinedContents DEF Top
  <1>8. ASSUME NEW base, IsSeq(base) PROVE Within(Under(base, a \o b \o c), "u8", base)
    <2>1. IsSeq(a) /\ IsSeq(b) /\ IsSeq(c) /\ IsSeq(a \o b)
      BY <1>4, Joined DEF Top, Contents
    <2>2. Under(base, a \o b \o c) = Under(base, a) \o Under(base, b) \o Under(base, c)
      <3>1. Under(base, a \o b) = Under(base, a) \o Under(base, b)
        BY <2>1, UnderJoined
      <3> DEFINE ab == a \o b
      <3>2. IsSeq(ab)
        BY <2>1
      <3> HIDE DEF ab
      <3>3. Under(base, ab \o c) = Under(base, ab) \o Under(base, c)
        BY <2>1, <3>2, UnderJoined
      <3> QED
        BY <3>1, <3>3 DEF ab
    <2>3. Piece(Under(base, a) \o Under(base, b), "u8", base,
                DriverNames \cup {"category"}, DriverNames \cup {"category"})
      BY <1>5, <1>6, <1>8, JoinedPieces
    <2>4. Piece(Under(base, a) \o Under(base, b) \o Under(base, c), "u8", base,
                DriverNames \cup {"category"} \cup {"nationality"},
                DriverNames \cup {"category"} \cup {"nationality"})
      BY <1>5, <1>6, <1>8, <2>3, JoinedPieces
    <2> QED
      BY <2>2, <2>4 DEF Piece
  <1> QED
    BY <1>3, <1>7, <1>8

LEMMA CameraSetWithin ==
  /\ \A base : IsSeq(base) => Within(Under(base, CameraSet), "u8", base)
  /\ Contents(CameraSet, {<<"cameras">>}, {<<"camera_set">>, <<"cameras">>},
              {<<"camera_set">>, <<"cameras">>})
  <1> DEFINE a == All("string", <<"camera_set">>)
             b == ArrayOf("u8", "string_t", "cameras")
  <1>1. Names(<<"camera_set">>, {"camera_set"})
    BY NamesGiven
  <1>2. "cameras" \in DOMAIN ElementOf /\ ElementOf["cameras"] = "string_t"
    BY DEF ElementOf
  <1>3. CameraSet = a \o b
    BY DEF CameraSet
  <1>4. Contents(a, {}, Single({"camera_set"}), Single({"camera_set"}))
    BY <1>1, AllTop DEF Top
  <1>5. Contents(b, {<<"cameras">>}, {<<"cameras">>}, {<<"cameras">>})
    BY ArrayContents
  <1>6. ASSUME NEW base, IsSeq(base)
        PROVE  /\ Piece(Under(base, a), "u8", base, {"camera_set"}, {"camera_set"})
               /\ Piece(Under(base, b), "u8", base, {"cameras"}, {"cameras"})
    BY <1>1, <1>2, <1>6, AllPieces, ArrayPiece
  <1> HIDE DEF a, b
  <1>7. Contents(a \o b, {<<"cameras">>}, {<<"camera_set">>, <<"cameras">>},
                 {<<"camera_set">>, <<"cameras">>})
    <2>1. /\ {} \cup {<<"cameras">>} = {<<"cameras">>}
          /\ Single({"camera_set"}) \cup {<<"cameras">>} = {<<"camera_set">>, <<"cameras">>}
      BY DEF Single
    <2>2. Contents(a \o b, {} \cup {<<"cameras">>}, Single({"camera_set"}) \cup {<<"cameras">>},
                   Single({"camera_set"}) \cup {<<"cameras">>})
      BY <1>4, <1>5, JoinedContents
    <2> QED
      BY <2>1, <2>2
  <1>8. ASSUME NEW base, IsSeq(base) PROVE Within(Under(base, a \o b), "u8", base)
    <2>1. IsSeq(a) /\ IsSeq(b)
      BY <1>4, <1>5 DEF Contents
    <2>2. Under(base, a \o b) = Under(base, a) \o Under(base, b)
      BY <2>1, UnderJoined
    <2>3. {"camera_set"} \cap {"cameras"} = {}
      OBVIOUS
    <2>4. \E R, W : Piece(Under(base, a) \o Under(base, b), "u8", base, R, W)
      BY <1>6, <1>8, <2>3, JoinedPieces, Zenon
    <2> QED
      BY <2>2, <2>4 DEF Piece
  <1> QED
    BY <1>3, <1>7, <1>8

LEMMA ElementGiven ==
  /\ Element["int32_t"] = Each("i32") /\ Element["uint16_t"] = Each("u16")
  /\ Element["string_t"] = Each("string") /\ Element["acc_driver_info_t"] = DriverInfo
  /\ Element["acc_camera_set_t"] = CameraSet
  /\ DOMAIN Element = {"int32_t", "uint16_t", "string_t", "acc_driver_info_t", "acc_camera_set_t"}
  BY DEF Element

LEMMA ElementWithin ==
  ASSUME NEW e \in DOMAIN Element
  PROVE  /\ \A base : IsSeq(base) => Within(Under(base, Element[e]), "u8", base)
         /\ \E A, B, M : Contents(Element[e], A, B, M)
  <1>1. CASE e = "int32_t"
    BY <1>1, ElementGiven, EachWithin, Tuples
  <1>2. CASE e = "uint16_t"
    BY <1>2, ElementGiven, EachWithin, Tuples
  <1>3. CASE e = "string_t"
    BY <1>3, ElementGiven, EachWithin, Tuples
  <1>4. CASE e = "acc_driver_info_t"
    BY <1>4, ElementGiven, DriverInfoWithin
  <1>5. CASE e = "acc_camera_set_t"
    BY <1>5, ElementGiven, CameraSetWithin
  <1> QED
    BY <1>1, <1>2, <1>3, <1>4, <1>5, ElementGiven

-----------------------------------------------------------------------------
(***************************************************************************)
(* What one item accounts for.                                             *)
(***************************************************************************)
LEMMA PathsGiven ==
  ASSUME NEW K \in SUBSET MemberKinds, NEW x
  PROVE  /\ x.kind = "loop" => PathsOf(K, x) = ElementPaths(K, x.path, x.index, x.size)
         /\ x.kind # "loop" /\ x.kind \in K => PathsOf(K, x) = {x.path}
         /\ x.kind # "loop" /\ x.kind \notin K => PathsOf(K, x) = {}
  BY DEF PathsOf

LEMMA PendingOf ==
  ASSUME NEW K \in SUBSET MemberKinds
  PROVE  /\ Pending(K, {}) = {}
         /\ \A x : Pending(K, {x}) = PathsOf(K, x)
         /\ \A X, Y : Pending(K, X \cup Y) = Pending(K, X) \cup Pending(K, Y)
  BY DEF Pending

\* A layout has no loops.
LEMMA PendingLayout ==
  ASSUME NEW K \in SUBSET MemberKinds, NEW X, \A x \in X : x.kind # "loop"
  PROVE  Pending(K, X) = OfKind(K, X)
  <1>1. ASSUME NEW q \in Pending(K, X) PROVE q \in OfKind(K, X)
    <2>1. PICK x \in X : q \in PathsOf(K, x)
      BY <1>1 DEF Pending
    <2>2. x.kind \in K /\ q = x.path
      BY <2>1, PathsGiven
    <2> QED
      BY <2>2, HasKind
  <1>2. ASSUME NEW q \in OfKind(K, X) PROVE q \in Pending(K, X)
    <2>1. PICK x \in X : x.kind \in K /\ q = x.path
      BY <1>2, HasKind
    <2>2. q \in PathsOf(K, x)
      BY <2>1, PathsGiven
    <2> QED
      BY <2>2 DEF Pending
  <1> QED
    BY <1>1, <1>2

LEMMA KindSets ==
  /\ ArrayKinds \in SUBSET MemberKinds /\ BlockKinds \in SUBSET MemberKinds
  /\ MemberKinds \in SUBSET MemberKinds /\ "loop" \notin MemberKinds
  /\ DOMAIN Width = {"u8", "bool", "u16", "i32", "f32"}
  BY DEF ArrayKinds, BlockKinds, MemberKinds, Width

\* An item is replaced by others: what it accounted for, and what is found to
\* be expected on the way, has been done or is accounted for by these.
LEMMA AccountsKept ==
  ASSUME NEW t, NEW s, NEW z, NEW m, NEW h, Accounts(t, s, z, m, h), IsSeq(s), s # <<>>,
         NEW N, IsSeq(N), NEW z1, NEW Z, NEW M, NEW H, NEW DA, NEW DB, NEW DM,
         DOMAIN z1 = DOMAIN z \cup Z,
         Expected(ArrayKinds, t, z1) = Expected(ArrayKinds, t, z) \cup DA,
         Expected(BlockKinds, t, z1) = Expected(BlockKinds, t, z) \cup DB,
         Expected(MemberKinds, t, z1) = Expected(MemberKinds, t, z) \cup DM,
         PathsOf(ArrayKinds, Head(s)) \cup DA = Z \cup Pending(ArrayKinds, Items(N)),
         PathsOf(BlockKinds, Head(s)) \cup DB = H \cup Pending(BlockKinds, Items(N)),
         PathsOf(MemberKinds, Head(s)) \cup DM \subseteq M \cup Pending(MemberKinds, Items(N))
  PROVE  Accounts(t, N \o Tail(s), z1, m \cup M, h \cup H)
  <1> DEFINE x == Head(s)
             T == Items(Tail(s))
  <1>1. Items(s) = {x} \cup T /\ Items(N \o Tail(s)) = Items(N) \cup T
    BY HeadThenTail, Joined
  <1> HIDE DEF T
  <1>2. ASSUME NEW K \in {ArrayKinds, BlockKinds, MemberKinds}
        PROVE  /\ Pending(K, Items(s)) = PathsOf(K, x) \cup Pending(K, T)
               /\ Pending(K, Items(N \o Tail(s))) = Pending(K, Items(N)) \cup Pending(K, T)
    <2>1. K \in SUBSET MemberKinds
      BY KindSets
    <2> HIDE DEF x
    <2>2. \A y : Pending(K, {y}) = PathsOf(K, y)
      BY <2>1, PendingOf
    <2>3. \A X, Y : Pending(K, X \cup Y) = Pending(K, X) \cup Pending(K, Y)
      BY <2>1, PendingOf
    <2>4. Pending(K, {x} \cup T) = Pending(K, {x}) \cup Pending(K, T)
      BY <2>3, Zenon
    <2>5. Pending(K, Items(N) \cup T) = Pending(K, Items(N)) \cup Pending(K, T)
      BY <2>3, Zenon
    <2>6. Pending(K, {x}) = PathsOf(K, x)
      BY <2>2, Zenon
    <2> QED
      BY <1>1, <2>4, <2>5, <2>6, Zenon
  <1>3. /\ Pending(ArrayKinds, Items(s)) = PathsOf(ArrayKinds, x) \cup Pending(ArrayKinds, T)
        /\ Pending(ArrayKinds, Items(N \o Tail(s))) =
              Pending(ArrayKinds, Items(N)) \cup Pending(ArrayKinds, T)
        /\ Pending(BlockKinds, Items(s)) = PathsOf(BlockKinds, x) \cup Pending(BlockKinds, T)
        /\ Pending(BlockKinds, Items(N \o Tail(s))) =
              Pending(BlockKinds, Items(N)) \cup Pending(BlockKinds, T)
        /\ Pending(MemberKinds, Items(s)) = PathsOf(MemberKinds, x) \cup Pending(MemberKinds, T)
        /\ Pending(MemberKinds, Items(N \o Tail(s))) =
              Pending(MemberKinds, Items(N)) \cup Pending(MemberKinds, T)
    BY <1>2
  <1> QED
    BY <1>3 DEF Accounts, x

\* Nothing is read again by the items that replace one.
LEMMA UnreadKept ==
  ASSUME NEW s, NEW m, IsSeq(s), s # <<>>, Unread(s, m), NEW N, IsSeq(N), Ordered(N),
         \A n \in Items(N) : \A q :
            (Reads(n, q) => Reads(Head(s), q)) /\ (Writes(n, q) => Writes(Head(s), q)),
         NEW M, \A q \in M : Writes(Head(s), q) /\ \A n \in Items(N) : ~Reads(n, q)
  PROVE  Unread(N \o Tail(s), m \cup M)
  <1> DEFINE x == Head(s)
             r == Tail(s)
  <1>1. /\ IsSeq(r) /\ Items(s) = {x} \cup Items(r) /\ Items(N \o r) = Items(N) \cup Items(r)
        /\ Ordered(r) /\ \A y \in Items(r) : Clear(x, y)
    BY HeadThenTail, Joined, OrderedTail DEF Unread
  <1> HIDE DEF x, r
  <1>2. \A n \in Items(N), y \in Items(r) : Clear(n, y)
    BY <1>1 DEF Clear, x
  <1>3. Ordered(N \o r)
    BY <1>1, <1>2, OrderedJoined
  <1>4. ASSUME NEW y \in Items(N \o r), NEW q \in m \cup M PROVE ~Reads(y, q)
    <2>1. CASE q \in m
      BY <1>1, <1>4, <2>1 DEF Unread, x
    <2>2. CASE q \in M
      BY <1>1, <1>4, <2>2 DEF Clear, x
    <2> QED
      BY <2>1, <2>2
  <1> QED
    BY <1>3, <1>4 DEF Unread, r

LEMMA WellFormedKept ==
  ASSUME NEW t, NEW s, NEW z, NEW m, WellFormed(t, s, z, m), s # <<>>,
         NEW N, IsSeq(N), NEW z1, NEW M,
         DOMAIN z \subseteq DOMAIN z1, DOMAIN z1 \subseteq m \cup M,
         \A p \in DOMAIN z1 : IsArrayPath(p) /\ z1[p] \in Nat,
         \A p \in DOMAIN z : z[p] <= z1[p],
         \A n \in Items(N) : ItemOK(n, t, z1),
         t = "ENTRY_LIST" => EntryListOK(N \o Tail(s), z1)
  PROVE  WellFormed(t, N \o Tail(s), z1, m \cup M)
  <1>1. /\ IsSeq(Tail(s)) /\ Items(Tail(s)) \subseteq Items(s)
        /\ IsSeq(N \o Tail(s)) /\ Items(N \o Tail(s)) = Items(N) \cup Items(Tail(s))
    BY HeadThenTail, Joined DEF WellFormed
  <1>2. ASSUME NEW x \in Items(Tail(s)) PROVE ItemOK(x, t, z1)
    <2>1. ItemOK(x, t, z)
      BY <1>1 DEF WellFormed
    <2>2. ASSUME x.kind = "loop" PROVE x.path \in DOMAIN z1 /\ x.size <= z1[x.path]
      <3>1. x.path \in DOMAIN z /\ x.size <= z[x.path] /\ x.size \in Nat /\ z[x.path] \in Nat
        BY <2>1, <2>2 DEF ItemOK, WellFormed
      <3>2. z[x.path] <= z1[x.path] /\ z1[x.path] \in Nat /\ x.path \in DOMAIN z1
        BY <3>1
      <3> QED
        BY <3>1, <3>2
    <2> QED
      BY <2>1, <2>2 DEF ItemOK
  <1> QED
    BY <1>1, <1>2 DEF WellFormed

LEMMA EntryListItems ==
  \E a, b : /\ EntryList = <<a, b>> /\ a.kind = "i32"
            /\ b.kind = "array" /\ b.element = "uint16_t"
            /\ Head(EntryList) = a /\ Tail(EntryList) = <<b>>
            /\ Head(<<b>>) = b /\ Tail(<<b>>) = <<>>
  <1> DEFINE a == [path |-> <<"connection_id">>, kind |-> "i32"]
             b == [path |-> <<"indexes">>, kind |-> "array", count |-> "u16",
                   element |-> "uint16_t"]
  <1>1. All("i32", <<"connection_id">>) = <<a>>
    BY DEF All
  <1>2. ArrayOf("u16", "uint16_t", "indexes") = <<b>>
    BY DEF ArrayOf
  <1>3. a.kind = "i32" /\ b.kind = "array" /\ b.element = "uint16_t"
    OBVIOUS
  <1> HIDE DEF a, b
  <1>4. EntryList = <<a, b>>
    BY <1>1, <1>2, PairOf DEF EntryList
  <1>5. /\ Head(<<a, b>>) = a /\ Tail(<<a, b>>) = <<b>>
        /\ Head(<<b>>) = b /\ Tail(<<b>>) = <<>>
    OBVIOUS
  <1> QED
    BY <1>3, <1>4, <1>5

LEMMA EntryListNext ==
  ASSUME NEW s, NEW z, EntryListOK(s, z), IsSeq(s), s # <<>>
  PROVE  \/ Head(s).kind = "i32" /\ EntryListOK(Tail(s), z)
         \/ /\ Head(s).kind = "array" /\ Head(s).element = "uint16_t"
            /\ DOMAIN z = {} /\ Tail(s) = <<>>
         \/ /\ \/ Head(s).kind = "u16"
               \/ Head(s).kind = "loop" /\ Head(s).element = "uint16_t"
            /\ \A x \in Items(Tail(s)) : \/ x.kind = "u16"
                                         \/ x.kind = "loop" /\ x.element = "uint16_t"
  <1>1. PICK a, b : /\ EntryList = <<a, b>> /\ a.kind = "i32"
                    /\ b.kind = "array" /\ b.element = "uint16_t"
                    /\ Head(EntryList) = a /\ Tail(EntryList) = <<b>>
                    /\ Head(<<b>>) = b /\ Tail(<<b>>) = <<>>
    BY EntryListItems
  <1>2. CASE DOMAIN z = {} /\ s = EntryList
    BY <1>1, <1>2 DEF EntryListOK
  <1>3. CASE DOMAIN z = {} /\ s = Tail(EntryList)
    BY <1>1, <1>3
  <1>4. CASE \A x \in Items(s) : \/ x.kind = "u16"
                                 \/ x.kind = "loop" /\ x.element = "uint16_t"
    BY <1>4, HeadThenTail
  <1> QED
    BY <1>2, <1>3, <1>4 DEF EntryListOK

\* The items of a layout are well-formed whatever has been read.
LEMMA LayoutItemOK ==
  ASSUME NEW x, NEW t, LayoutItem(x, CountOf(t)), NEW z
  PROVE  ItemOK(x, t, z)
  <1>1. x.kind # "loop"
    BY KindSets DEF LayoutItem
  <1> QED
    BY <1>1 DEF LayoutItem, ItemOK, CountOf

-----------------------------------------------------------------------------
(***************************************************************************)
(* The steps of a parse.                                                   *)
(***************************************************************************)
LEMMA HeadOK ==
  ASSUME NEW t, NEW s, NEW z, NEW m, WellFormed(t, s, z, m), s # <<>>
  PROVE  /\ IsSeq(s) /\ Head(s) \in Items(s) /\ ItemOK(Head(s), t, z)
         /\ IsSeq(Tail(s)) /\ <<>> \o Tail(s) = Tail(s)
         /\ IsSeq(<<>>) /\ Items(<<>>) = {} /\ Ordered(<<>>)
  <1>1. IsSeq(<<>>) /\ Items(<<>>) = {} /\ Len(<<>>) <= 1
    BY Tuples
  <1>2. Ordered(<<>>)
    BY <1>1, OrderedShort
  <1> QED
    BY <1>1, <1>2, HeadThenTail, Joined DEF WellFormed

\* acc_read_uint8_t, its siblings and acc_read_string.
LEMMA SimpleStep ==
  ASSUME NEW t, NEW s, NEW z, NEW m, NEW h, Body(t, s, z, m, h), s # <<>>,
         Head(s).kind \in DOMAIN Width \cup {"string"},
         NEW H, H = IF Head(s).kind = "string" THEN {Head(s).path} ELSE {}
  PROVE  Body(t, <<>> \o Tail(s), z, m \cup {Head(s).path}, h \cup H)
  <1> DEFINE x == Head(s)
             M == {x.path}
  <1>1. /\ IsSeq(s) /\ x \in Items(s) /\ ItemOK(x, t, z) /\ <<>> \o Tail(s) = Tail(s)
        /\ IsSeq(<<>>) /\ Items(<<>>) = {} /\ Ordered(<<>>) /\ WellFormed(t, s, z, m)
    BY HeadOK DEF Body
  <1>2. /\ x.kind \in MemberKinds /\ x.kind # "loop" /\ x.kind # "array"
        /\ (x.kind \in BlockKinds <=> x.kind = "string") /\ x.kind \notin ArrayKinds
    BY KindSets DEF MemberKinds, BlockKinds, ArrayKinds
  <1>3. ASSUME t = "ENTRY_LIST" PROVE EntryListOK(<<>> \o Tail(s), z)
    <2>1. EntryListOK(s, z)
      BY <1>1, <1>3 DEF WellFormed
    <2> QED
      BY <1>1, <1>2, <2>1, EntryListNext DEF EntryListOK
  <1>4. WellFormed(t, <<>> \o Tail(s), z, m \cup M)
    <2>1. /\ DOMAIN z \subseteq m \cup M
          /\ \A p \in DOMAIN z : IsArrayPath(p) /\ z[p] \in Nat /\ z[p] <= z[p]
          /\ \A n \in Items(<<>>) : ItemOK(n, t, z)
      BY <1>1 DEF WellFormed
    <2> HIDE DEF M, x
    <2> QED
      BY <1>1, <1>3, <2>1, WellFormedKept
  <1>5. Accounts(t, <<>> \o Tail(s), z, m \cup M, h \cup H)
    <2>1. /\ PathsOf(ArrayKinds, x) = {} /\ PathsOf(BlockKinds, x) = H
          /\ PathsOf(MemberKinds, x) = M
      BY <1>2, KindSets, PathsGiven
    <2>2. \A K \in {ArrayKinds, BlockKinds, MemberKinds} : Pending(K, Items(<<>>)) = {}
      BY <1>1, KindSets, PendingOf
    <2> HIDE DEF M
    <2>3. /\ DOMAIN z = DOMAIN z \cup {}
          /\ \A K : Expected(K, t, z) = Expected(K, t, z) \cup {}
          /\ PathsOf(ArrayKinds, x) \cup {} = {} \cup Pending(ArrayKinds, Items(<<>>))
          /\ PathsOf(BlockKinds, x) \cup {} = H \cup Pending(BlockKinds, Items(<<>>))
          /\ PathsOf(MemberKinds, x) \cup {} \subseteq M \cup Pending(MemberKinds, Items(<<>>))
      BY <2>1, <2>2
    <2> QED
      BY <1>1, <2>3, AccountsKept, ZenonT(30) DEF Body
  <1>6. ASSUME Exact(t, z) PROVE Unread(<<>> \o Tail(s), m \cup M)
    <2>1. Unread(s, m)
      BY <1>6 DEF Body
    <2>2. \A q \in M : Writes(x, q) /\ \A n \in Items(<<>>) : ~Reads(n, q)
      BY <1>1, SimpleReads
    <2> HIDE DEF M
    <2> QED
      BY <1>1, <2>1, <2>2, UnreadKept
  <1> QED
    BY <1>4, <1>5, <1>6 DEF Body

\* is_replay_playing, and the times that may follow it.
LEMMA ReplayStep ==
  ASSUME NEW t, NEW s, NEW z, NEW m, NEW h, Body(t, s, z, m, h), s # <<>>,
         Head(s).kind = "replay", NEW N \in {ReplayTimes, <<>>}
  PROVE  Body(t, N \o Tail(s), z, m \cup {Head(s).path}, h)
  <1> DEFINE x == Head(s)
             M == {x.path}
  <1>1. /\ IsSeq(s) /\ x \in Items(s) /\ ItemOK(x, t, z)
        /\ IsSeq(<<>>) /\ Items(<<>>) = {} /\ Ordered(<<>>) /\ WellFormed(t, s, z, m)
    BY HeadOK DEF Body
  <1>2. /\ x.path = <<"is_replay_playing">> /\ x.kind = "replay"
        /\ x.kind \in MemberKinds /\ x.kind \notin BlockKinds /\ x.kind \notin ArrayKinds
    BY <1>1 DEF MemberKinds, BlockKinds, ArrayKinds, ItemOK
  <1>3. t # "ENTRY_LIST"
    <2> SUFFICES ASSUME t = "ENTRY_LIST" PROVE FALSE
      OBVIOUS
    <2>1. EntryListOK(s, z)
      BY <1>1 DEF WellFormed
    <2> QED
      BY <1>1, <1>2, <2>1, EntryListNext
  <1>4. /\ IsSeq(N) /\ Ordered(N)
        /\ \A n \in Items(N) : /\ LayoutItem(n, "u8") /\ n.kind = "f32"
                               /\ n.path \in Single(ReplayNames)
    BY <1>1, ReplayItems DEF Top, Piece, Within
  <1>5. WellFormed(t, N \o Tail(s), z, m \cup M)
    <2>1. /\ DOMAIN z \subseteq m \cup M
          /\ \A p \in DOMAIN z : IsArrayPath(p) /\ z[p] \in Nat /\ z[p] <= z[p]
      BY <1>1 DEF WellFormed
    <2>2. \A n \in Items(N) : ItemOK(n, t, z)
      BY <1>3, <1>4, LayoutItemOK DEF CountOf
    <2> HIDE DEF M, x
    <2> QED
      BY <1>1, <1>3, <1>4, <2>1, <2>2, WellFormedKept
  <1>6. Accounts(t, N \o Tail(s), z, m \cup M, h)
    <2>1. /\ PathsOf(ArrayKinds, x) = {} /\ PathsOf(BlockKinds, x) = {}
          /\ PathsOf(MemberKinds, x) = M
      BY <1>2, KindSets, PathsGiven
    <2>2. /\ Pending(ArrayKinds, Items(N)) = {} /\ Pending(BlockKinds, Items(N)) = {}
      <3>1. \A n \in Items(N) : n.kind = "f32" /\ n.kind \notin ArrayKinds
                                /\ n.kind \notin BlockKinds /\ n.kind # "loop"
        BY <1>4 DEF ArrayKinds, BlockKinds
      <3>2. OfKind(ArrayKinds, Items(N)) = {} /\ OfKind(BlockKinds, Items(N)) = {}
        BY <3>1 DEF OfKind
      <3> QED
        BY <3>1, <3>2, KindSets, PendingLayout
    <2> HIDE DEF M
    <2>3. /\ DOMAIN z = DOMAIN z \cup {}
          /\ \A K : Expected(K, t, z) = Expected(K, t, z) \cup {}
          /\ PathsOf(ArrayKinds, x) \cup {} = {} \cup Pending(ArrayKinds, Items(N))
          /\ PathsOf(BlockKinds, x) \cup {} = {} \cup Pending(BlockKinds, Items(N))
          /\ PathsOf(MemberKinds, x) \cup {} \subseteq M \cup Pending(MemberKinds, Items(N))
      BY <2>1, <2>2
    <2>4. Accounts(t, N \o Tail(s), z, m \cup M, h \cup {})
      BY <1>1, <1>4, <2>3, AccountsKept DEF Body
    <2> QED
      BY <2>4 DEF Accounts
  <1>7. ASSUME Exact(t, z) PROVE Unread(N \o Tail(s), m \cup M)
    <2>1. Unread(s, m)
      BY <1>7 DEF Body
    <2>2. ASSUME NEW n \in Items(N), NEW q
          PROVE  /\ Reads(n, q) => q = n.path /\ q \in Single(ReplayNames)
                 /\ Writes(n, q) => q = n.path /\ q \in Single(ReplayNames)
      <3>1. n.kind \in DOMAIN Width \cup {"string"}
        BY <1>4, KindSets
      <3> QED
        BY <1>4, <3>1, SimpleReads
    <2>3. \A q \in Single(ReplayNames) : Reads(x, q) /\ Writes(x, q)
      BY <1>2, ReplayItems DEF Reads, Writes
    <2>4. Writes(x, x.path)
      BY <1>2 DEF Reads, Writes
    <2>5. x.path \notin Single(ReplayNames)
      BY <1>2 DEF Single, ReplayNames
    <2>6. \A q \in M : Writes(x, q) /\ \A n \in Items(N) : ~Reads(n, q)
      BY <2>2, <2>4, <2>5
    <2>7. \A n \in Items(N) : \A q : (Reads(n, q) => Reads(x, q)) /\ (Writes(n, q) => Writes(x, q))
      BY <2>2, <2>3
    <2> HIDE DEF M
    <2> QED
      BY <1>1, <1>4, <2>1, <2>6, <2>7, UnreadKept
  <1> QED
    BY <1>5, <1>6, <1>7 DEF Body

LoopOver(x, n) ==
    [path |-> x.path, kind |-> "loop", element |-> x.element, index |-> 0, size |-> n]

WithSize(z, path, n) == [p \in DOMAIN z \cup {path} |-> IF p = path THEN n ELSE z[p]]

\* An array's size is read: its elements follow.
LEMMA ArrayStep ==
  ASSUME NEW t, NEW s, NEW z, NEW m, NEW h, Body(t, s, z, m, h), s # <<>>,
         Head(s).kind = "array", NEW n \in CountsOf(Head(s).count)
  PROVE  Body(t, <<LoopOver(Head(s), n)>> \o Tail(s), WithSize(z, Head(s).path, n),
              m \cup {Head(s).path}, h \cup {Head(s).path})
  <1> DEFINE x == Head(s)
             path == x.path
             y == [path |-> x.path, kind |-> "loop", element |-> x.element,
                   index |-> 0, size |-> n]
             z1 == [p \in DOMAIN z \cup {x.path} |-> IF p = x.path THEN n ELSE z[p]]
  <1>1. /\ IsSeq(s) /\ x \in Items(s) /\ ItemOK(x, t, z) /\ WellFormed(t, s, z, m)
    BY HeadOK DEF Body
  <1>2. /\ x.kind = "array" /\ x.kind \in MemberKinds /\ x.kind \in BlockKinds
        /\ x.kind \in ArrayKinds /\ x.kind # "loop"
    BY DEF MemberKinds, BlockKinds, ArrayKinds
  <1>3. /\ IsSeq(path) /\ IsArrayPath(path) /\ x.element = ElementOf[LastOf(path)]
        /\ Len(path) \in Nat
    BY <1>1, <1>2, SeqFacts DEF ItemOK
  <1>4. n \in Nat /\ (t # "ENTRY_LIST" => n < IndexRange)
    <2>1. t # "ENTRY_LIST" => x.count = "u8"
      BY <1>1, <1>2 DEF ItemOK
    <2>2. IndexRange \in Nat /\ Counts \subseteq 0 .. IndexRange - 1 /\ LongCounts \subseteq Nat
      BY AccReaderAssumption
    <2>3. (x.count = "u8" => n \in Counts) /\ (n \in Counts \/ n \in LongCounts)
      BY DEF CountsOf
    <2>4. n \in Counts => n \in 0 .. IndexRange - 1
      BY <2>2
    <2>5. n \in Counts => n \in Nat /\ n < IndexRange
      BY <2>2, <2>4
    <2>6. n \in LongCounts => n \in Nat
      BY <2>2
    <2> QED
      BY <2>1, <2>3, <2>5, <2>6
  <1>5. /\ Exact(t, z)
        /\ t = "ENTRY_LIST" => x.element = "uint16_t" /\ DOMAIN z = {} /\ Tail(s) = <<>>
    <2>1. ASSUME t = "ENTRY_LIST" PROVE x.element = "uint16_t" /\ DOMAIN z = {} /\ Tail(s) = <<>>
      <3>1. EntryListOK(s, z)
        BY <1>1, <2>1 DEF WellFormed
      <3> QED
        BY <1>1, <1>2, <3>1, EntryListNext
    <2> QED
      BY <2>1 DEF Exact
  <1>6. Unread(s, m)
    BY <1>5 DEF Body
  <1>7. path \notin DOMAIN z
    <2>1. Reads(x, path)
      BY <1>2, <1>3, ExtendsItself DEF Reads
    <2> QED
      BY <1>1, <1>6, <2>1 DEF Unread, WellFormed
  <1>8. /\ y.path = path /\ y.kind = "loop" /\ y.element = x.element /\ y.index = 0 /\ y.size = n
        /\ DOMAIN y = {"path", "kind", "element", "index", "size"}
    OBVIOUS
  <1>9. /\ DOMAIN z1 = DOMAIN z \cup {path} /\ z1[path] = n
        /\ \A p \in DOMAIN z : z1[p] = z[p]
    BY <1>7
  <1>10. ASSUME NEW K
         PROVE  Expected(K, t, z1) = Expected(K, t, z) \cup ElementPaths(K, path, 0, n)
    <2> HIDE DEF z1, path
    <2>1. ArrayPaths(K, z1) = ArrayPaths(K, z) \cup ElementPaths(K, path, 0, n)
      BY <1>7, <1>9 DEF ArrayPaths
    <2> QED
      BY <2>1 DEF Expected
  <1>11. IsSeq(<<y>>) /\ Items(<<y>>) = {y} /\ Ordered(<<y>>)
    <2>1. IsSeq(<<y>>) /\ Items(<<y>>) = {y} /\ Len(<<y>>) <= 1
      BY Tuples
    <2> QED
      BY <2>1, OrderedShort
  <1> HIDE DEF y, z1
  <1>12. WellFormed(t, <<y>> \o Tail(s), z1, m \cup {path})
    <2>1. /\ DOMAIN z \subseteq DOMAIN z1 /\ DOMAIN z1 \subseteq m \cup {path}
          /\ \A p \in DOMAIN z1 : IsArrayPath(p) /\ z1[p] \in Nat
          /\ \A p \in DOMAIN z : z[p] <= z1[p]
      BY <1>1, <1>3, <1>4, <1>7, <1>9 DEF WellFormed
    <2>2. ItemOK(y, t, z1)
      <3>1. FieldsOfKind("loop") = {"path", "kind", "element", "index", "size"}
        BY DEF FieldsOfKind
      <3> QED
        BY <1>3, <1>4, <1>8, <1>9, <3>1 DEF ItemOK
    <2>3. ASSUME t = "ENTRY_LIST" PROVE EntryListOK(<<y>> \o Tail(s), z1)
      <3>1. <<y>> \o Tail(s) = <<y>>
        BY <1>5, <1>11, <2>3, Joined, Tuples
      <3> QED
        BY <1>5, <1>8, <1>11, <2>3, <3>1 DEF EntryListOK
    <2> HIDE DEF path
    <2>4. \A u \in Items(<<y>>) : ItemOK(u, t, z1)
      BY <1>11, <2>2
    <2> QED
      BY <1>1, <1>11, <2>1, <2>3, <2>4, WellFormedKept
  <1>13. Accounts(t, <<y>> \o Tail(s), z1, m \cup {path}, h \cup {path})
    <2>1. ASSUME NEW K \in {ArrayKinds, BlockKinds, MemberKinds}
          PROVE  /\ PathsOf(K, x) = {path}
                 /\ Pending(K, Items(<<y>>)) = ElementPaths(K, path, 0, n)
      <3>1. K \in SUBSET MemberKinds /\ x.kind \in K
        BY <1>2, KindSets
      <3>2. PathsOf(K, x) = {path}
        BY <1>2, <3>1, PathsGiven
      <3>3. PathsOf(K, y) = ElementPaths(K, path, 0, n)
        BY <1>8, <3>1, PathsGiven, Zenon
      <3> QED
        BY <1>11, <3>1, <3>2, <3>3, PendingOf
    <2> DEFINE D(K) == ElementPaths(K, path, 0, n)
    <2> HIDE DEF path
    <2>2. /\ Expected(ArrayKinds, t, z1) = Expected(ArrayKinds, t, z) \cup D(ArrayKinds)
          /\ Expected(BlockKinds, t, z1) = Expected(BlockKinds, t, z) \cup D(BlockKinds)
          /\ Expected(MemberKinds, t, z1) = Expected(MemberKinds, t, z) \cup D(MemberKinds)
      BY <1>10
    <2>3. /\ PathsOf(ArrayKinds, x) \cup D(ArrayKinds) = {path} \cup Pending(ArrayKinds, Items(<<y>>))
          /\ PathsOf(BlockKinds, x) \cup D(BlockKinds) = {path} \cup Pending(BlockKinds, Items(<<y>>))
          /\ PathsOf(MemberKinds, x) \cup D(MemberKinds) \subseteq
                {path} \cup Pending(MemberKinds, Items(<<y>>))
      BY <2>1
    <2> HIDE DEF D
    <2> QED
      BY <1>1, <1>9, <1>11, <2>2, <2>3, AccountsKept, ZenonT(30) DEF Body
  <1>14. Unread(<<y>> \o Tail(s), m \cup {path})
    <2>1. \A q : Reads(y, q) => Extends(q, path) /\ Len(q) > Len(path)
      BY <1>8 DEF Reads
    <2>2. \A q : Extends(q, path) => Reads(x, q) /\ Writes(x, q)
      BY <1>2 DEF Reads, Writes
    <2>3. \A q : Writes(y, q) <=> Reads(y, q)
      BY <1>8 DEF Writes
    <2>4. \A q \in {path} : Writes(x, q) /\ \A u \in Items(<<y>>) : ~Reads(u, q)
      BY <1>3, <1>11, <2>1, <2>2, ExtendsItself
    <2>5. \A u \in Items(<<y>>) : \A q :
            (Reads(u, q) => Reads(x, q)) /\ (Writes(u, q) => Writes(x, q))
      BY <1>11, <2>1, <2>2, <2>3
    <2> HIDE DEF path
    <2> QED
      BY <1>1, <1>6, <1>11, <2>4, <2>5, UnreadKept
  <1> QED
    BY <1>12, <1>13, <1>14 DEF Body, y, z1, LoopOver, WithSize

\* A loop comes to its end.
LEMMA LoopEnds ==
  ASSUME NEW t, NEW s, NEW z, NEW m, NEW h, Body(t, s, z, m, h), s # <<>>,
         Head(s).kind = "loop", Head(s).index >= Head(s).size
  PROVE  Body(t, <<>> \o Tail(s), z, m, h)
  <1> DEFINE x == Head(s)
  <1>1. /\ IsSeq(s) /\ x \in Items(s) /\ ItemOK(x, t, z) /\ <<>> \o Tail(s) = Tail(s)
        /\ IsSeq(<<>>) /\ Items(<<>>) = {} /\ Ordered(<<>>) /\ WellFormed(t, s, z, m)
    BY HeadOK DEF Body
  <1>2. x.index \in Nat /\ x.size \in Nat /\ x.index >= x.size
    BY <1>1 DEF ItemOK
  <1>3. ASSUME t = "ENTRY_LIST" PROVE EntryListOK(<<>> \o Tail(s), z)
    <2>1. EntryListOK(s, z)
      BY <1>1, <1>3 DEF WellFormed
    <2> QED
      BY <1>1, <2>1, EntryListNext DEF EntryListOK
  <1>4. WellFormed(t, <<>> \o Tail(s), z, m \cup {})
    <2>1. /\ DOMAIN z \subseteq m \cup {}
          /\ \A p \in DOMAIN z : IsArrayPath(p) /\ z[p] \in Nat /\ z[p] <= z[p]
          /\ \A n \in Items(<<>>) : ItemOK(n, t, z)
      BY <1>1 DEF WellFormed
    <2> HIDE DEF x
    <2> QED
      BY <1>1, <1>3, <2>1, WellFormedKept
  <1>5. Accounts(t, <<>> \o Tail(s), z, m \cup {}, h \cup {})
    <2>1. x.index .. x.size - 1 = {}
      BY <1>2
    <2>2. \A K \in {ArrayKinds, BlockKinds, MemberKinds} :
            PathsOf(K, x) = {} /\ Pending(K, Items(<<>>)) = {}
      <3> SUFFICES ASSUME NEW K \in {ArrayKinds, BlockKinds, MemberKinds}
                   PROVE  PathsOf(K, x) = {} /\ Pending(K, Items(<<>>)) = {}
        OBVIOUS
      <3>1. K \in SUBSET MemberKinds
        BY KindSets
      <3>2. PathsOf(K, x) = ElementPaths(K, x.path, x.index, x.size)
        BY <3>1, PathsGiven
      <3>3. ElementPaths(K, x.path, x.index, x.size) = {}
        <4> DEFINE R == x.index .. x.size - 1
                   C == OfKind(K, Items(Element[ElementOf[LastOf(x.path)]]))
                   f(k, q) == (x.path \o <<k>>) \o q
        <4>1. ElementPaths(K, x.path, x.index, x.size) = {f(k, q) : k \in R, q \in C}
          BY DEF ElementPaths
        <4> HIDE DEF R, C, f
        <4>2. R = {}
          BY <2>1 DEF R
        <4> QED
          BY <4>1, <4>2
      <3> QED
        BY <1>1, <3>1, <3>2, <3>3, PendingOf
    <2>3. /\ DOMAIN z = DOMAIN z \cup {}
          /\ \A K : Expected(K, t, z) = Expected(K, t, z) \cup {}
          /\ PathsOf(ArrayKinds, x) \cup {} = {} \cup Pending(ArrayKinds, Items(<<>>))
          /\ PathsOf(BlockKinds, x) \cup {} = {} \cup Pending(BlockKinds, Items(<<>>))
          /\ PathsOf(MemberKinds, x) \cup {} \subseteq {} \cup Pending(MemberKinds, Items(<<>>))
      BY <2>2
    <2> QED
      BY <1>1, <2>3, AccountsKept DEF Body
  <1>6. ASSUME Exact(t, z) PROVE Unread(<<>> \o Tail(s), m \cup {})
    <2>1. Unread(s, m)
      BY <1>6 DEF Body
    <2> QED
      BY <1>1, <2>1, UnreadKept
  <1>7. m \cup {} = m /\ h \cup {} = h
    OBVIOUS
  <1> QED
    BY <1>4, <1>5, <1>6, <1>7 DEF Body

Behind(base, S) == {base \o p : p \in S}

LEMMA LoopPaths ==
  ASSUME NEW K, NEW p, NEW k \in Nat, NEW size \in Nat, k < size, NEW j \in Nat, j <= k + 1,
         NEW S, S = OfKind(K, Items(Element[ElementOf[LastOf(p)]]))
  PROVE  /\ ElementPaths(K, p, k, size) \subseteq
                Behind(p \o <<k>>, S) \cup ElementPaths(K, p, j, size)
         /\ j = k + 1 \/ S = {} =>
                ElementPaths(K, p, k, size) =
                    Behind(p \o <<k>>, S) \cup ElementPaths(K, p, j, size)
  <1> DEFINE f(i, m) == (p \o <<i>>) \o m
             E(from) == ElementPaths(K, p, from, size)
  <1>1. \A from, q : q \in E(from) <=> \E i \in from .. size - 1 : \E m \in S : q = f(i, m)
    <2>1. \A from : E(from) = {f(i, m) : i \in from .. size - 1, m \in S}
      BY DEF ElementPaths
    <2> HIDE DEF f, E
    <2> QED
      BY <2>1
  <1>2. /\ \A i \in k .. size - 1 : i = k \/ i \in j .. size - 1
        /\ k \in k .. size - 1
        /\ j = k + 1 => \A i \in j .. size - 1 : i \in k .. size - 1
    OBVIOUS
  <1>3. Behind(p \o <<k>>, S) = {f(k, m) : m \in S}
    BY DEF Behind
  <1> HIDE DEF f, E
  <1>4. E(k) \subseteq {f(k, m) : m \in S} \cup E(j)
    BY <1>1, <1>2
  <1>5. ASSUME j = k + 1 \/ S = {} PROVE {f(k, m) : m \in S} \cup E(j) \subseteq E(k)
    <2>1. CASE S = {}
      BY <1>1, <2>1
    <2>2. CASE j = k + 1
      BY <1>1, <1>2, <2>2
    <2> QED
      BY <1>5, <2>1, <2>2
  <1>6. E(k) = ElementPaths(K, p, k, size) /\ E(j) = ElementPaths(K, p, j, size)
    BY DEF E
  <1> QED
    BY <1>3, <1>4, <1>5, <1>6

\* The loop over an array goes on to the next element.
LEMMA LoopStep ==
  ASSUME NEW t, NEW s, NEW z, NEW m, NEW h, Body(t, s, z, m, h), s # <<>>,
         Head(s).kind = "loop", Head(s).index < Head(s).size
  PROVE  Body(t, (Under(Head(s).path \o <<Head(s).index>>, Element[Head(s).element])
                  \o <<[Head(s) EXCEPT !.index = (@ + 1) % IndexRange]>>) \o Tail(s), z, m, h)
  <1> DEFINE x == Head(s)
             e == x.element
             base == x.path \o <<x.index>>
             u == Under(base, Element[e])
             y == [x EXCEPT !.index = (@ + 1) % IndexRange]
             N == u \o <<y>>
  <1>1. /\ IsSeq(s) /\ x \in Items(s) /\ ItemOK(x, t, z) /\ WellFormed(t, s, z, m)
    BY HeadOK DEF Body
  <1>2. /\ x.kind = "loop" /\ DOMAIN x = {"path", "kind", "element", "index", "size"}
        /\ IsSeq(x.path) /\ IsArrayPath(x.path) /\ e = ElementOf[LastOf(x.path)]
        /\ x.path \in DOMAIN z /\ x.index \in Nat /\ x.size \in Nat /\ x.size <= z[x.path]
        /\ x.index < x.size /\ (t # "ENTRY_LIST" => x.size < IndexRange)
    BY <1>1 DEF ItemOK, FieldsOfKind
  <1>3. e \in DOMAIN Element
    BY <1>2, ElementGiven DEF IsArrayPath, ElementOf
  <1>4. /\ y.path = x.path /\ y.kind = "loop" /\ y.element = e /\ y.size = x.size
        /\ y.index = (x.index + 1) % IndexRange /\ DOMAIN y = DOMAIN x
    BY <1>2
  <1>5. /\ y.index \in Nat /\ y.index <= x.index + 1
        /\ x.size < IndexRange => y.index = x.index + 1
    <2> DEFINE i == x.index + 1
    <2>1. i \in Nat /\ IndexRange \in Nat \ {0} /\ (x.size < IndexRange => i < IndexRange)
      BY <1>2, AccReaderAssumption
    <2> HIDE DEF i
    <2>2. ASSUME NEW b \in Nat \ {0}, NEW n \in Nat
          PROVE  n % b \in Nat /\ n % b < b /\ (n < b => n % b = n)
      OBVIOUS
    <2>3. i % IndexRange \in Nat /\ (i < IndexRange => i % IndexRange = i) /\ i % IndexRange < IndexRange
      BY <2>1, <2>2
    <2>4. i % IndexRange <= i
      BY <2>1, <2>3
    <2> QED
      BY <1>4, <2>1, <2>3, <2>4 DEF i
  <1>6. t = "ENTRY_LIST" => e = "uint16_t"
    <2> SUFFICES ASSUME t = "ENTRY_LIST" PROVE e = "uint16_t"
      OBVIOUS
    <2>1. EntryListOK(s, z)
      BY <1>1 DEF WellFormed
    <2> QED
      BY <1>1, <1>2, <2>1, EntryListNext
  <1>7. /\ IsSeq(base) /\ Len(base) = Len(x.path) + 1 /\ Len(x.path) \in Nat
    BY <1>2, ElementPath
  <1>8. /\ Within(u, "u8", base) /\ IsSeq(u) /\ IsSeq(<<y>>) /\ Items(<<y>>) = {y}
        /\ Ordered(<<y>>)
    <2>1. IsSeq(<<y>>) /\ Items(<<y>>) = {y} /\ Len(<<y>>) <= 1
      BY Tuples
    <2>2. Within(u, "u8", base)
      BY <1>3, <1>7, ElementWithin
    <2> QED
      BY <2>1, <2>2, OrderedShort DEF Within
  <1>9. IsSeq(N) /\ Items(N) = Items(u) \cup {y}
    BY <1>8, Joined
  <1>10. e = "uint16_t" => \A n \in Items(u) : n.kind = "u16"
    <2> SUFFICES ASSUME e = "uint16_t", NEW n \in Items(u) PROVE n.kind = "u16"
      OBVIOUS
    <2>1. Element[e] = <<[path |-> <<>>, kind |-> "u16"]>>
      BY ElementGiven DEF Each
    <2>2. u = <<Moved(base, [path |-> <<>>, kind |-> "u16"])>>
      BY <2>1, UnderOne
    <2>3. n = Moved(base, [path |-> <<>>, kind |-> "u16"])
      BY <2>2, Tuples
    <2> QED
      BY <2>3 DEF Moved
  <1> HIDE DEF y, u, N, base
  <1>11. WellFormed(t, N \o Tail(s), z, m \cup {})
    <2>1. /\ DOMAIN z \subseteq m \cup {}
          /\ \A p \in DOMAIN z : IsArrayPath(p) /\ z[p] \in Nat /\ z[p] <= z[p]
      BY <1>1 DEF WellFormed
    <2>2. ItemOK(y, t, z)
      BY <1>2, <1>4, <1>5 DEF ItemOK, FieldsOfKind
    <2>3. ASSUME NEW n \in Items(u) PROVE ItemOK(n, t, z)
      <3>1. LayoutItem(n, "u8")
        BY <1>8 DEF Within
      <3>2. CASE t # "ENTRY_LIST"
        BY <3>1, <3>2, LayoutItemOK DEF CountOf
      <3>3. CASE t = "ENTRY_LIST"
        BY <1>6, <1>10, <3>1, <3>3 DEF LayoutItem, ItemOK
      <3> QED
        BY <3>2, <3>3
    <2>4. ASSUME t = "ENTRY_LIST" PROVE EntryListOK(N \o Tail(s), z)
      <3>1. EntryListOK(s, z)
        BY <1>1, <2>4 DEF WellFormed
      <3>2. \A n \in Items(Tail(s)) : \/ n.kind = "u16"
                                      \/ n.kind = "loop" /\ n.element = "uint16_t"
        BY <1>1, <1>2, <3>1, EntryListNext
      <3>3. Items(N \o Tail(s)) = Items(u) \cup {y} \cup Items(Tail(s))
        BY <1>1, <1>9, HeadThenTail, Joined
      <3> QED
        BY <1>4, <1>6, <1>10, <2>4, <3>2, <3>3 DEF EntryListOK
    <2>5. \A n \in Items(N) : ItemOK(n, t, z)
      BY <1>9, <2>2, <2>3
    <2> HIDE DEF x
    <2> QED
      BY <1>1, <1>9, <2>1, <2>4, <2>5, WellFormedKept
  <1>12. Accounts(t, N \o Tail(s), z, m \cup {}, h \cup {})
    <2> DEFINE Part(K) == Behind(base, OfKind(K, Items(Element[e])))
    <2>1. ASSUME NEW K \in {ArrayKinds, BlockKinds, MemberKinds}
          PROVE  /\ PathsOf(K, x) = ElementPaths(K, x.path, x.index, x.size)
                 /\ Pending(K, Items(N)) = Part(K) \cup ElementPaths(K, x.path, y.index, x.size)
      <3>1. K \in SUBSET MemberKinds
        BY KindSets
      <3>2. /\ PathsOf(K, x) = ElementPaths(K, x.path, x.index, x.size)
            /\ PathsOf(K, y) = ElementPaths(K, x.path, y.index, x.size)
        BY <1>2, <1>4 DEF PathsOf
      <3>3. Pending(K, {y}) = PathsOf(K, y)
        BY <3>1, PendingOf, Zenon
      <3>4. Pending(K, Items(u) \cup {y}) = Pending(K, Items(u)) \cup Pending(K, {y})
        <4>1. \A X, Y : Pending(K, X \cup Y) = Pending(K, X) \cup Pending(K, Y)
          BY <3>1, PendingOf
        <4> QED
          BY <4>1, Zenon
      <3>5. Pending(K, Items(u)) = Part(K)
        <4>1. PICK A, B, M : Contents(Element[e], A, B, M)
          BY <1>3, ElementWithin
        <4>2. Contents(u, {base \o p : p \in A}, {base \o p : p \in B}, {base \o p : p \in M})
          BY <4>1, MovedContents DEF u
        <4>3. OfKind(K, Items(u)) = Part(K)
          BY <4>1, <4>2 DEF Contents, Behind
        <4>4. \A n \in Items(u) : n.kind # "loop"
          BY <4>2 DEF Contents
        <4> QED
          BY <3>1, <4>3, <4>4, PendingLayout
      <3> QED
        BY <1>9, <3>2, <3>3, <3>4, <3>5
    <2>2. ASSUME NEW K
          PROVE  /\ ElementPaths(K, x.path, x.index, x.size) \subseteq
                        Part(K) \cup ElementPaths(K, x.path, y.index, x.size)
                 /\ y.index = x.index + 1 \/ OfKind(K, Items(Element[e])) = {} =>
                        ElementPaths(K, x.path, x.index, x.size) =
                            Part(K) \cup ElementPaths(K, x.path, y.index, x.size)
      <3> DEFINE S == OfKind(K, Items(Element[e]))
                 p == x.path
                 k == x.index
                 j == y.index
                 size == x.size
      <3>1. /\ S = OfKind(K, Items(Element[ElementOf[LastOf(p)]]))
            /\ k \in Nat /\ size \in Nat /\ k < size /\ j \in Nat /\ j <= k + 1
        BY <1>2, <1>5
      <3> HIDE DEF S, p, k, j, size
      <3>2. /\ ElementPaths(K, p, k, size) \subseteq
                    Behind(p \o <<k>>, S) \cup ElementPaths(K, p, j, size)
            /\ j = k + 1 \/ S = {} =>
                    ElementPaths(K, p, k, size) =
                        Behind(p \o <<k>>, S) \cup ElementPaths(K, p, j, size)
        BY <3>1, LoopPaths
      <3> QED
        BY <3>2 DEF base, S, p, k, j, size
    <2>3. \/ y.index = x.index + 1
          \/ OfKind(ArrayKinds, Items(Element[e])) = {} /\ OfKind(BlockKinds, Items(Element[e])) = {}
      <3>1. CASE t # "ENTRY_LIST"
        BY <1>2, <1>5, <3>1
      <3>2. CASE t = "ENTRY_LIST"
        <4>1. Contents(Each("u16"), {}, {}, {<<>>})
          BY EachWithin, Tuples
        <4> QED
          BY <1>6, <3>2, <4>1, ElementGiven DEF Contents
      <3> QED
        BY <3>1, <3>2
    <2> HIDE DEF Part, x
    <2>4. /\ PathsOf(ArrayKinds, x) \cup {} = {} \cup Pending(ArrayKinds, Items(N))
          /\ PathsOf(BlockKinds, x) \cup {} = {} \cup Pending(BlockKinds, Items(N))
          /\ PathsOf(MemberKinds, x) \cup {} \subseteq {} \cup Pending(MemberKinds, Items(N))
      BY <2>1, <2>2, <2>3
    <2>5. /\ DOMAIN z = DOMAIN z \cup {}
          /\ \A K : Expected(K, t, z) = Expected(K, t, z) \cup {}
      OBVIOUS
    <2> QED
      BY <1>1, <1>9, <2>4, <2>5, AccountsKept, ZenonT(30) DEF Body, x
  <1>13. ASSUME Exact(t, z) PROVE Unread(N \o Tail(s), m \cup {})
    <2>1. Unread(s, m)
      BY <1>13 DEF Body
    <2>2. y.index = x.index + 1
      <3>1. CASE t # "ENTRY_LIST"
        BY <1>2, <1>5, <3>1
      <3>2. CASE t = "ENTRY_LIST"
        <4>1. z[x.path] < IndexRange /\ z[x.path] \in Nat /\ IndexRange \in Nat
          BY <1>1, <1>2, <1>13, <3>2, AccReaderAssumption DEF Exact, WellFormed
        <4> QED
          BY <1>2, <1>5, <4>1
      <3> QED
        BY <3>1, <3>2
    <2>3. ASSUME NEW q, Extends(q, base)
          PROVE  Extends(q, x.path) /\ Len(q) > Len(x.path) /\ q[Len(x.path) + 1] = x.index
      BY <1>2, <2>3, ExtendsElement DEF base
    <2>4. \A q : Reads(x, q) <=>
            /\ Extends(q, x.path) /\ Len(q) > Len(x.path)
            /\ q[Len(x.path) + 1] \in Nat /\ q[Len(x.path) + 1] >= x.index
      BY <1>2 DEF Reads
    <2>5. \A q : (Writes(y, q) <=> Reads(y, q)) /\ (Reads(y, q) <=>
            /\ Extends(q, x.path) /\ Len(q) > Len(x.path)
            /\ q[Len(x.path) + 1] \in Nat /\ q[Len(x.path) + 1] >= x.index + 1)
      BY <1>4, <2>2 DEF Reads, Writes
    <2>6. ASSUME NEW n \in Items(u), NEW q, Writes(n, q) \/ Reads(n, q)
          PROVE  Reads(x, q) /\ ~Reads(y, q)
      <3>1. Extends(q, base)
        BY <1>8, <2>6 DEF Within, Writes
      <3> QED
        BY <1>2, <2>3, <2>4, <2>5, <3>1
    <2>7. \A q : Reads(y, q) => Reads(x, q)
      BY <1>2, <2>4, <2>5
    <2>8. Ordered(N)
      <3>1. \A n \in Items(u), v \in Items(<<y>>) : Clear(n, v)
        BY <1>8, <2>6 DEF Clear
      <3>2. Ordered(u)
        BY <1>8 DEF Within
      <3> QED
        BY <1>8, <3>1, <3>2, OrderedJoined DEF N
    <2>9. \A n \in Items(N) : \A q :
            (Reads(n, q) => Reads(x, q)) /\ (Writes(n, q) => Writes(x, q))
      BY <1>9, <2>5, <2>6, <2>7 DEF Writes
    <2> QED
      BY <1>1, <1>9, <2>1, <2>8, <2>9, UnreadKept
  <1>14. m \cup {} = m /\ h \cup {} = h
    OBVIOUS
  <1>15. Body(t, N \o Tail(s), z, m, h)
    BY <1>11, <1>12, <1>13, <1>14 DEF Body
  <1> QED
    BY <1>15 DEF N, u, y, base

ElementsFrom(p, from, size) == {p \o <<i>> : i \in from .. size - 1}

\* The paths of a lap's splits: an int32_t owns nothing.
LEMMA SplitsPaths ==
  ASSUME NEW p, IsSeq(p), LastOf(p) = "splits", NEW from, NEW size
  PROVE  /\ ElementPaths(ArrayKinds, p, from, size) = {}
         /\ ElementPaths(BlockKinds, p, from, size) = {}
         /\ ElementPaths(MemberKinds, p, from, size) = ElementsFrom(p, from, size)
  <1> DEFINE R == from .. size - 1
             C(K) == OfKind(K, Items(Element[ElementOf[LastOf(p)]]))
  <1>1. C(ArrayKinds) = {} /\ C(BlockKinds) = {} /\ C(MemberKinds) = {<<>>}
    <2>1. ElementOf[LastOf(p)] = "int32_t"
      BY DEF ElementOf
    <2>2. Contents(Each("i32"), {}, {}, {<<>>})
      BY EachWithin, Tuples
    <2> QED
      BY <2>1, <2>2, ElementGiven DEF Contents
  <1> DEFINE g(i) == p \o <<i>>
             f(i, q) == g(i) \o q
             E(K) == ElementPaths(K, p, from, size)
  <1>2. \A K : E(K) = {f(i, q) : i \in R, q \in C(K)}
    BY DEF ElementPaths
  <1>3. \A i : f(i, <<>>) = g(i)
    BY ElementPath, Joined
  <1>4. ElementsFrom(p, from, size) = {g(i) : i \in R}
    BY DEF ElementsFrom
  <1> HIDE DEF R, C, f, g, E
  <1>5. \A K, r : r \in E(K) <=> \E i \in R : \E q \in C(K) : r = f(i, q)
    BY <1>2
  <1>6. E(ArrayKinds) = {} /\ E(BlockKinds) = {}
    BY <1>1, <1>5
  <1>7. E(MemberKinds) = {g(i) : i \in R}
    BY <1>1, <1>3, <1>5
  <1> QED
    BY <1>4, <1>6, <1>7 DEF E

LEMMA SplitsPath ==
  ASSUME NEW p, IsSeq(p), Len(p) = 2
  PROVE  /\ IsSeq([p EXCEPT ![2] = "splits"])
         /\ LastOf([p EXCEPT ![2] = "splits"]) = "splits"
  <1> DEFINE q == [p EXCEPT ![2] = "splits"]
             S == Items(p) \cup {"splits"}
  <1>1. DOMAIN p = 1 .. 2
    BY SeqFacts
  <1>2. q = [i \in 1 .. 2 |-> IF i = 2 THEN "splits" ELSE p[i]]
    <2>1. q = [i \in DOMAIN p |-> IF i = 2 THEN "splits" ELSE p[i]]
      BY Zenon
    <2> QED
      BY <1>1, <2>1, Zenon
  <1> HIDE DEF q
  <1>5. \A i \in 1 .. 2 : q[i] \in S
    BY <1>1, <1>2 DEF Items
  <1>6. q \in [1 .. 2 -> S]
    <2> HIDE DEF S
    <2> QED
      BY <1>2, <1>5
  <1>7. q[2] = "splits"
    BY <1>2
  <1> HIDE DEF S
  <1>3. IsSeq(q) /\ Len(q) = 2
    BY <1>6, IsSeqIntro
  <1>4. IsSeq(q) /\ LastOf(q) = "splits"
    BY <1>3, <1>7 DEF LastOf
  <1> QED
    BY <1>4 DEF q

\* Splits are made up: three are expected.
LEMMA SplitsRaised ==
  ASSUME NEW z, NEW z1, NEW p, IsSeq(p), LastOf(p) = "splits", DOMAIN z1 = DOMAIN z,
         \A q \in DOMAIN z : z[q] \in Nat /\ (q # p => z1[q] = z[q]),
         p \in DOMAIN z => z1[p] = IF z[p] < 3 THEN 3 ELSE z[p], NEW t
  PROVE  \E DM \in SUBSET ElementsFrom(p, z[p], 3) :
            /\ Expected(MemberKinds, t, z1) = Expected(MemberKinds, t, z) \cup DM
            /\ Expected(ArrayKinds, t, z1) = Expected(ArrayKinds, t, z)
            /\ Expected(BlockKinds, t, z1) = Expected(BlockKinds, t, z)
  <1> DEFINE New == ElementsFrom(p, z[p], 3)
             Rest(K) == UNION {ElementPaths(K, q, 0, z[q]) : q \in DOMAIN z \ {p}}
  <1>1. CASE p \notin DOMAIN z
    <2>1. \A q \in DOMAIN z : z1[q] = z[q]
      BY <1>1
    <2>2. \A K : ArrayPaths(K, z1) = ArrayPaths(K, z)
      BY <2>1 DEF ArrayPaths
    <2>3. \A K : Expected(K, t, z1) = Expected(K, t, z)
      BY <2>2 DEF Expected
    <2> WITNESS {} \in SUBSET New
    <2> QED
      BY <2>3
  <1>2. CASE p \in DOMAIN z
    <2> DEFINE n == z[p]
               n1 == z1[p]
               E(K, k) == ElementPaths(K, p, 0, k)
    <2>1. n \in Nat /\ n1 = IF n < 3 THEN 3 ELSE n
      BY <1>2
    <2>2. /\ \A K : ArrayPaths(K, z) = Rest(K) \cup E(K, n)
          /\ \A K : ArrayPaths(K, z1) = Rest(K) \cup E(K, n1)
      BY <1>2 DEF ArrayPaths
    <2> HIDE DEF n, n1
    <2>3. /\ E(ArrayKinds, n) = {} /\ E(ArrayKinds, n1) = {}
          /\ E(BlockKinds, n) = {} /\ E(BlockKinds, n1) = {}
      BY SplitsPaths
    <2>4. /\ E(MemberKinds, n1) = ElementsFrom(p, 0, n1)
          /\ E(MemberKinds, n) = ElementsFrom(p, 0, n)
      BY SplitsPaths
    <2> HIDE DEF E
    <2>5. E(MemberKinds, n1) = E(MemberKinds, n) \cup New
      <3>1. \A i : i \in 0 .. n1 - 1 <=> i \in 0 .. n - 1 \/ i \in n .. 3 - 1
        BY <2>1
      <3> DEFINE f(i) == p \o <<i>>
      <3>2. \A i, j : ElementsFrom(p, i, j) = {f(k) : k \in i .. j - 1}
        BY DEF ElementsFrom
      <3>3. New = ElementsFrom(p, n, 3)
        BY DEF n
      <3> HIDE DEF f, New
      <3>4. ElementsFrom(p, 0, n1) = ElementsFrom(p, 0, n) \cup ElementsFrom(p, n, 3)
        BY <3>1, <3>2
      <3> QED
        BY <2>4, <3>3, <3>4
    <2> HIDE DEF Rest, New
    <2>6. /\ ArrayPaths(MemberKinds, z1) = ArrayPaths(MemberKinds, z) \cup New
          /\ ArrayPaths(ArrayKinds, z1) = ArrayPaths(ArrayKinds, z)
          /\ ArrayPaths(BlockKinds, z1) = ArrayPaths(BlockKinds, z)
      BY <2>2, <2>3, <2>5
    <2>7. /\ New \in SUBSET New
          /\ Expected(MemberKinds, t, z1) = Expected(MemberKinds, t, z) \cup New
          /\ Expected(ArrayKinds, t, z1) = Expected(ArrayKinds, t, z)
          /\ Expected(BlockKinds, t, z1) = Expected(BlockKinds, t, z)
      BY <2>6 DEF Expected
    <2> QED
      BY <2>7 DEF New
  <1> QED
    BY <1>1, <1>2

\* The type of a lap, and the splits that are made up.
LEMMA LapStep ==
  ASSUME NEW t, NEW s, NEW z, NEW m, NEW h, Body(t, s, z, m, h), s # <<>>,
         Head(s).kind = "lap_type",
         NEW splits, splits = SplitsOf(Head(s)),
         NEW z1, DOMAIN z1 = DOMAIN z,
         \A p \in DOMAIN z : p # splits => z1[p] = z[p],
         splits \in DOMAIN z => z1[splits] = IF z[splits] < 3 THEN 3 ELSE z[splits]
  PROVE  Body(t, <<>> \o Tail(s), z1,
              m \cup ({Head(s).path} \cup ElementsFrom(splits, z[splits], 3)), h)
  <1> DEFINE x == Head(s)
             New == ElementsFrom(splits, z[splits], 3)
             M == {x.path} \cup New
  <1>1. /\ IsSeq(s) /\ x \in Items(s) /\ ItemOK(x, t, z) /\ <<>> \o Tail(s) = Tail(s)
        /\ IsSeq(<<>>) /\ Items(<<>>) = {} /\ Ordered(<<>>) /\ WellFormed(t, s, z, m)
    BY HeadOK DEF Body
  <1>2. /\ x.kind \in MemberKinds /\ x.kind # "loop"
        /\ x.kind \notin BlockKinds /\ x.kind \notin ArrayKinds
    BY DEF MemberKinds, BlockKinds, ArrayKinds
  <1>3. t # "ENTRY_LIST"
    <2> SUFFICES ASSUME t = "ENTRY_LIST" PROVE FALSE
      OBVIOUS
    <2>1. EntryListOK(s, z)
      BY <1>1 DEF WellFormed
    <2> QED
      BY <1>1, <2>1, EntryListNext
  <1>4. IsSeq(splits) /\ LastOf(splits) = "splits"
    BY <1>1, SplitsPath DEF SplitsOf, ItemOK
  <1>5. \A p \in DOMAIN z : IsArrayPath(p) /\ z[p] \in Nat
    BY <1>1 DEF WellFormed
  <1>6. \A p \in DOMAIN z : z1[p] \in Nat /\ z[p] <= z1[p]
    <2> SUFFICES ASSUME NEW p \in DOMAIN z PROVE z1[p] \in Nat /\ z[p] <= z1[p]
      OBVIOUS
    <2>1. CASE p = splits
      BY <1>5, <2>1
    <2>2. CASE p # splits
      BY <1>5, <2>2
    <2> QED
      BY <2>1, <2>2
  <1> HIDE DEF New
  <1>7. WellFormed(t, <<>> \o Tail(s), z1, m \cup M)
    <2>1. /\ DOMAIN z \subseteq DOMAIN z1 /\ DOMAIN z1 \subseteq m \cup M
          /\ \A p \in DOMAIN z1 : IsArrayPath(p) /\ z1[p] \in Nat
          /\ \A p \in DOMAIN z : z[p] <= z1[p]
          /\ \A n \in Items(<<>>) : ItemOK(n, t, z1)
      BY <1>1, <1>5, <1>6 DEF WellFormed
    <2> HIDE DEF x, M
    <2> QED
      BY <1>1, <1>3, <2>1, WellFormedKept
  <1>8. PICK DM \in SUBSET New :
            /\ Expected(MemberKinds, t, z1) = Expected(MemberKinds, t, z) \cup DM
            /\ Expected(ArrayKinds, t, z1) = Expected(ArrayKinds, t, z)
            /\ Expected(BlockKinds, t, z1) = Expected(BlockKinds, t, z)
    <2>1. \A q \in DOMAIN z : z[q] \in Nat /\ (q # splits => z1[q] = z[q])
      BY <1>5
    <2> QED
      BY <1>4, <2>1, SplitsRaised DEF New
  <1>9. Accounts(t, <<>> \o Tail(s), z1, m \cup M, h \cup {})
    <2>1. /\ PathsOf(ArrayKinds, x) = {} /\ PathsOf(BlockKinds, x) = {}
          /\ PathsOf(MemberKinds, x) = {x.path}
      BY <1>2, KindSets, PathsGiven
    <2>2. \A K \in {ArrayKinds, BlockKinds, MemberKinds} : Pending(K, Items(<<>>)) = {}
      BY <1>1, KindSets, PendingOf
    <2>3. /\ Expected(ArrayKinds, t, z1) = Expected(ArrayKinds, t, z) \cup {}
          /\ Expected(BlockKinds, t, z1) = Expected(BlockKinds, t, z) \cup {}
          /\ DOMAIN z1 = DOMAIN z \cup {}
          /\ PathsOf(ArrayKinds, x) \cup {} = {} \cup Pending(ArrayKinds, Items(<<>>))
          /\ PathsOf(BlockKinds, x) \cup {} = {} \cup Pending(BlockKinds, Items(<<>>))
          /\ PathsOf(MemberKinds, x) \cup DM \subseteq M \cup Pending(MemberKinds, Items(<<>>))
      BY <1>8, <2>1, <2>2
    <2> HIDE DEF x, M
    <2> QED
      BY <1>1, <1>8, <2>3, AccountsKept, ZenonT(30) DEF Body, x
  <1>10. Unread(<<>> \o Tail(s), m \cup M)
    <2>1. Unread(s, m)
      BY <1>3 DEF Body, Exact
    <2>2. ASSUME NEW q \in M PROVE Writes(x, q)
      <3>1. CASE q = x.path
        BY <3>1 DEF Writes, Reads
      <3>2. CASE q \in New
        <4>1. PICK i : q = splits \o <<i>>
          BY <3>2 DEF New, ElementsFrom
        <4>2. Extends(q, splits)
          BY <1>4, <4>1, Tuples, ExtendsJoined
        <4> QED
          BY <4>2 DEF Writes
      <3> QED
        BY <3>1, <3>2
    <2> HIDE DEF M
    <2> QED
      BY <1>1, <2>1, <2>2, UnreadKept
  <1>11. h \cup {} = h
    OBVIOUS
  <1>12. Body(t, <<>> \o Tail(s), z1, m \cup M, h)
    BY <1>7, <1>9, <1>10, <1>11 DEF Body
  <1> QED
    BY <1>12 DEF New

-----------------------------------------------------------------------------
(***************************************************************************)
(* The beginning and the end of a parse.                                   *)
(***************************************************************************)
LEMMA ParseBegins ==
  ASSUME NEW t \in DOMAIN Layout, NEW z, DOMAIN z = {}
  PROVE  Body(t, Layout[t], z, {}, {<<>>})
  <1> DEFINE s == Layout[t]
  <1>1. PICK S, A, B, M : Top(Layout[t], CountOf(t), S, A, B, M)
    BY LayoutTop
  <1>2. /\ IsSeq(s) /\ Ordered(s)
        /\ \A x \in Items(s) : LayoutItem(x, CountOf(t))
    BY <1>1 DEF Top, Piece, Within
  <1>3. t = "ENTRY_LIST" => EntryListOK(s, z)
    BY LayoutGiven DEF EntryListOK
  <1> HIDE DEF s
  <1>4. WellFormed(t, s, z, {})
    BY <1>2, <1>3, LayoutItemOK DEF WellFormed
  <1>5. Unread(s, {})
    BY <1>2 DEF Unread
  <1>6. \A K : Expected(K, t, z) = Pending(K, Items(s))
    BY DEF Expected, ArrayPaths, s
  <1>7. Accounts(t, s, z, {}, {<<>>})
    BY <1>6 DEF Accounts
  <1> QED
    BY <1>4, <1>5, <1>7 DEF Body, s

\* The arrays, blocks and members that the layout of a type names.
LayoutHolds(t, A, B, M) == \E count, S : Top(Layout[t], count, S, A, B, M)

Finished(t, z, m, h) == Body(t, <<>>, z, m, h)

\* What a response has when nothing is left to be read.
\* All that a layout and its arrays name is there.
Complete(t, A, B, M, z, m, h) ==
    /\ t \in DOMAIN Layout
    /\ \A p \in DOMAIN z : IsArrayPath(p) /\ z[p] \in Nat
    /\ h = {<<>>} \cup B \cup ArrayPaths(BlockKinds, z)
    /\ DOMAIN z = A \cup ArrayPaths(ArrayKinds, z)
    /\ M \cup ArrayPaths(MemberKinds, z) \subseteq m

LEMMA ParseEnded ==
  ASSUME NEW t, NEW z, NEW m, NEW h, Finished(t, z, m, h),
         NEW A, NEW B, NEW M, LayoutHolds(t, A, B, M)
  PROVE  Complete(t, A, B, M, z, m, h)
  <1>1. /\ OfKind(ArrayKinds, Items(Layout[t])) = A /\ OfKind(BlockKinds, Items(Layout[t])) = B
        /\ OfKind(MemberKinds, Items(Layout[t])) = M
        /\ \A x \in Items(Layout[t]) : x.kind # "loop"
    BY DEF LayoutHolds, Top, Contents
  <1>2. /\ Pending(ArrayKinds, Items(Layout[t])) = A /\ Pending(BlockKinds, Items(Layout[t])) = B
        /\ Pending(MemberKinds, Items(Layout[t])) = M
    <2>1. ASSUME NEW K \in SUBSET MemberKinds
          PROVE  Pending(K, Items(Layout[t])) = OfKind(K, Items(Layout[t]))
      BY <1>1, PendingLayout
    <2> QED
      BY <1>1, <2>1, KindSets
  <1>3. /\ Pending(ArrayKinds, Items(<<>>)) = {} /\ Pending(BlockKinds, Items(<<>>)) = {}
        /\ Pending(MemberKinds, Items(<<>>)) = {}
    BY Tuples, PendingOf, KindSets
  <1>4. Accounts(t, <<>>, z, m, h) /\ WellFormed(t, <<>>, z, m)
    BY DEF Body, Finished
  <1>5. /\ h = {<<>>} \cup Expected(BlockKinds, t, z)
        /\ DOMAIN z = Expected(ArrayKinds, t, z)
        /\ Expected(MemberKinds, t, z) \subseteq m
    BY <1>3, <1>4 DEF Accounts
  <1>6. \A K : Expected(K, t, z) = Pending(K, Items(Layout[t])) \cup ArrayPaths(K, z)
    BY DEF Expected
  <1>7. t \in DOMAIN Layout /\ \A p \in DOMAIN z : IsArrayPath(p) /\ z[p] \in Nat
    BY <1>4 DEF WellFormed
  <1> QED
    BY <1>2, <1>5, <1>6, <1>7 DEF Complete

\* What the elements of an array hold, by its name.
LEMMA ElementContents ==
  /\ \A name \in {"splits", "indexes"} :
        Contents(Element[ElementOf[name]], {}, {}, {<<>>})
  /\ \A name \in {"hud_pages", "cameras"} :
        Contents(Element[ElementOf[name]], {}, {<<>>}, {<<>>})
  /\ Contents(Element[ElementOf["driver_infos"]], {}, Single(DriverNames),
              Single(DriverNames) \cup Single({"category"}) \cup Single({"nationality"}))
  /\ Contents(Element[ElementOf["camera_sets"]], {<<"cameras">>},
              {<<"camera_set">>, <<"cameras">>}, {<<"camera_set">>, <<"cameras">>})
  /\ DOMAIN ElementOf = {"splits", "indexes", "driver_infos", "camera_sets", "hud_pages",
                         "cameras"}
  <1>1. /\ ElementOf["splits"] = "int32_t" /\ ElementOf["indexes"] = "uint16_t"
        /\ ElementOf["hud_pages"] = "string_t" /\ ElementOf["cameras"] = "string_t"
        /\ ElementOf["driver_infos"] = "acc_driver_info_t"
        /\ ElementOf["camera_sets"] = "acc_camera_set_t"
        /\ DOMAIN ElementOf = {"splits", "indexes", "driver_infos", "camera_sets", "hud_pages",
                               "cameras"}
    BY DEF ElementOf
  <1>2. /\ Contents(Each("i32"), {}, {}, {<<>>}) /\ Contents(Each("u16"), {}, {}, {<<>>})
        /\ Contents(Each("string"), {}, {<<>>}, {<<>>})
    BY EachWithin, Tuples
  <1> QED
    BY <1>1, <1>2, ElementGiven, DriverInfoWithin, CameraSetWithin

\* The arrays and blocks that the elements of an array of n name.
ElementPathOf(p, n, q) == \E k \in 0 .. n - 1 : q = p \o <<k>>

DriverPathOf(p, n, q) ==
    \E k \in 0 .. n - 1 : \E name \in DriverNames : q = (p \o <<k>>) \o <<name>>

NamedPathOf(p, n, q, name) == \E k \in 0 .. n - 1 : q = (p \o <<k>>) \o <<name>>

LEMMA HasArrayPath ==
  ASSUME NEW p, IsArrayPath(p), NEW size, NEW q
  PROVE  q \in ElementPaths(ArrayKinds, p, 0, size) <=>
            /\ LastOf(p) = "camera_sets"
            /\ NamedPathOf(p, size, q, "cameras")
  <1> DEFINE R == 0 .. size - 1
             C == OfKind(ArrayKinds, Items(Element[ElementOf[LastOf(p)]]))
             f(k, m) == (p \o <<k>>) \o m
             cameras == <<"cameras">>
  <1>1. ElementPaths(ArrayKinds, p, 0, size) = {f(k, m) : k \in R, m \in C}
    BY DEF ElementPaths
  <1>2. C = IF LastOf(p) = "camera_sets" THEN {cameras} ELSE {}
    BY ElementContents DEF Contents, IsArrayPath
  <1> HIDE DEF f, R, C, cameras
  <1>3. q \in ElementPaths(ArrayKinds, p, 0, size) <=>
            /\ LastOf(p) = "camera_sets"
            /\ \E k \in R : q = f(k, cameras)
    BY <1>1, <1>2
  <1> QED
    BY <1>3 DEF f, R, cameras, NamedPathOf

LEMMA HasBlockPath ==
  ASSUME NEW p, IsArrayPath(p), NEW size, NEW q
  PROVE  /\ LastOf(p) \in {"splits", "indexes"} => q \notin ElementPaths(BlockKinds, p, 0, size)
         /\ LastOf(p) \in {"hud_pages", "cameras"} =>
                (q \in ElementPaths(BlockKinds, p, 0, size) <=> ElementPathOf(p, size, q))
         /\ LastOf(p) = "driver_infos" =>
                (q \in ElementPaths(BlockKinds, p, 0, size) <=> DriverPathOf(p, size, q))
         /\ LastOf(p) = "camera_sets" =>
                (q \in ElementPaths(BlockKinds, p, 0, size) <=>
                    \/ NamedPathOf(p, size, q, "camera_set")
                    \/ NamedPathOf(p, size, q, "cameras"))
  <1> DEFINE R == 0 .. size - 1
             C == OfKind(BlockKinds, Items(Element[ElementOf[LastOf(p)]]))
             f(k, m) == (p \o <<k>>) \o m
             g(k) == p \o <<k>>
             one(name) == <<name>>
             none == <<>>
  <1>1. ElementPaths(BlockKinds, p, 0, size) = {f(k, m) : k \in R, m \in C}
    BY DEF ElementPaths
  <1>2. /\ LastOf(p) \in {"splits", "indexes"} => C = {}
        /\ LastOf(p) \in {"hud_pages", "cameras"} => C = {none}
        /\ LastOf(p) = "driver_infos" => C = {one(name) : name \in DriverNames}
        /\ LastOf(p) = "camera_sets" => C = {one("camera_set"), one("cameras")}
    BY ElementContents DEF Contents, Single
  <1>3. \A k : f(k, none) = g(k)
    BY ElementPath, Joined DEF IsArrayPath
  <1> HIDE DEF f, R, C, g, one, none
  <1>4. /\ LastOf(p) \in {"splits", "indexes"} => q \notin ElementPaths(BlockKinds, p, 0, size)
        /\ LastOf(p) \in {"hud_pages", "cameras"} =>
                (q \in ElementPaths(BlockKinds, p, 0, size) <=> \E k \in R : q = g(k))
        /\ LastOf(p) = "driver_infos" =>
                (q \in ElementPaths(BlockKinds, p, 0, size) <=>
                    \E k \in R : \E name \in DriverNames : q = f(k, one(name)))
        /\ LastOf(p) = "camera_sets" =>
                (q \in ElementPaths(BlockKinds, p, 0, size) <=>
                    \E k \in R : q = f(k, one("camera_set")) \/ q = f(k, one("cameras")))
    BY <1>1, <1>2, <1>3
  <1> QED
    BY <1>4 DEF f, R, g, one, NamedPathOf, DriverPathOf, ElementPathOf

\* Only camera sets hold arrays.
LEMMA NestedArrays ==
  ASSUME NEW p, IsArrayPath(p), NEW size, NEW q \in ElementPaths(ArrayKinds, p, 0, size)
  PROVE  LastOf(p) = "camera_sets" /\ LastOf(q) = "cameras"
  <1>1. LastOf(p) \in DOMAIN ElementOf /\ IsSeq(p)
    BY DEF IsArrayPath
  <1>2. LastOf(p) = "camera_sets" /\ NamedPathOf(p, size, q, "cameras")
    BY HasArrayPath
  <1>3. PICK k \in 0 .. size - 1 : q = (p \o <<k>>) \o <<"cameras">>
    BY <1>2 DEF NamedPathOf
  <1>4. IsSeq(p \o <<k>>)
    BY <1>1, ElementPath
  <1>5. LastOf((p \o <<k>>) \o <<"cameras">>) = "cameras"
    BY <1>4, ElementPath
  <1> QED
    BY <1>2, <1>3, <1>5, Zenon

\* The arrays of a response are those of its layout, and those that its camera
\* sets hold.
LEMMA ArraysOf ==
  ASSUME NEW z, NEW A, DOMAIN z = A \cup ArrayPaths(ArrayKinds, z),
         \A p \in DOMAIN z : IsArrayPath(p)
  PROVE  /\ A \subseteq DOMAIN z
         /\ \A q \in DOMAIN z \ A : \E p \in A :
                LastOf(p) = "camera_sets" /\ q \in ElementPaths(ArrayKinds, p, 0, z[p])
         /\ \A p \in A : ElementPaths(ArrayKinds, p, 0, z[p]) \subseteq DOMAIN z
  <1>1. \A q \in DOMAIN z \ A : \E p \in DOMAIN z : q \in ElementPaths(ArrayKinds, p, 0, z[p])
    BY DEF ArrayPaths
  <1>2. ASSUME NEW q \in DOMAIN z \ A
        PROVE  \E p \in A :
                LastOf(p) = "camera_sets" /\ q \in ElementPaths(ArrayKinds, p, 0, z[p])
    <2>1. PICK p \in DOMAIN z : q \in ElementPaths(ArrayKinds, p, 0, z[p])
      BY <1>1
    <2>2. LastOf(p) = "camera_sets"
      BY <2>1, NestedArrays
    <2>3. p \in A
      <3> SUFFICES ASSUME p \notin A PROVE FALSE
        OBVIOUS
      <3>1. PICK r \in DOMAIN z : p \in ElementPaths(ArrayKinds, r, 0, z[r])
        BY <1>1
      <3>2. LastOf(p) = "cameras"
        BY <3>1, NestedArrays
      <3> QED
        BY <2>2, <3>2
    <2> QED
      BY <2>1, <2>2, <2>3
  <1>3. \A p \in A : ElementPaths(ArrayKinds, p, 0, z[p]) \subseteq DOMAIN z
    BY DEF ArrayPaths
  <1> QED
    BY <1>2, <1>3

-----------------------------------------------------------------------------
(***************************************************************************)
(* What acc_server_response_free frees is what has been allocated.         *)
(***************************************************************************)
LEMMA OwnedBy ==
  /\ type = "REGISTRATION_RESULT" => Owned = {<<"error_message">>}
  /\ type = "REAL_TIME_UPDATE" =>
        Owned = {<<"best_session_lap", "splits">>, <<"active_camera_set">>,
                 <<"active_camera">>, <<"current_hud_page">>}
  /\ type = "REAL_TIME_CAR_UPDATE" =>
        Owned = {<<lap, "splits">> : lap \in {"best_session_lap", "last_lap", "current_lap"}}
  /\ type = "ENTRY_LIST" => Owned = {<<"indexes">>}
  /\ type = "ENTRY_LIST_CAR" =>
        Owned = DriverInfos(<<"driver_infos">>) \cup {<<"team_name">>}
  /\ type = "TRACK_DATA" =>
        Owned = CameraSets(<<"camera_sets">>) \cup {<<"track_name">>} \cup Strings(<<"hud_pages">>)
  /\ type = "BROADCASTING_EVENT" => Owned = {<<"message">>}
  BY DEF Owned

\* The blocks of a response without camera sets.
LEMMA BlocksOf ==
  ASSUME NEW t, NEW z, NEW m, NEW h, Finished(t, z, m, h),
         NEW A, NEW B, NEW M, LayoutHolds(t, A, B, M),
         \A p \in A : LastOf(p) # "camera_sets"
  PROVE  /\ DOMAIN z = A
         /\ \A q : q \in h <=>
                \/ q = <<>> \/ q \in B
                \/ \E p \in A : q \in ElementPaths(BlockKinds, p, 0, z[p])
  <1>1. /\ h = {<<>>} \cup B \cup ArrayPaths(BlockKinds, z)
        /\ DOMAIN z = A \cup ArrayPaths(ArrayKinds, z)
        /\ \A p \in DOMAIN z : IsArrayPath(p)
    <2>1. Complete(t, A, B, M, z, m, h)
      BY ParseEnded
    <2> QED
      BY <2>1 DEF Complete
  <1>2. DOMAIN z = A
    BY <1>1, ArraysOf
  <1> QED
    BY <1>1, <1>2 DEF ArrayPaths

LEMMA LapsAreFreed ==
  ASSUME type \in {"REAL_TIME_UPDATE", "REAL_TIME_CAR_UPDATE"},
         Finished(type, sizes, members, heap)
  PROVE  Released = heap
  <1> DEFINE lap(name) == <<name, "splits">>
             laps == IF type = "REAL_TIME_UPDATE" THEN {"best_session_lap"}
                     ELSE {"best_session_lap", "last_lap", "current_lap"}
             A == {lap(name) : name \in laps}
             B == IF type = "REAL_TIME_UPDATE"
                  THEN A \cup {<<"active_camera_set">>, <<"active_camera">>, <<"current_hud_page">>}
                  ELSE A
  <1>1. \E M : LayoutHolds(type, A, B, M)
    <2>1. CASE type = "REAL_TIME_UPDATE"
      <3>1. /\ A = {<<"best_session_lap", "splits">>}
            /\ B = {<<"best_session_lap", "splits">>, <<"active_camera_set">>,
                    <<"active_camera">>, <<"current_hud_page">>}
        BY <2>1
      <3> HIDE DEF A, B
      <3> QED
        BY <2>1, <3>1, LayoutGiven, RealTimeUpdateTop DEF LayoutHolds
    <2>2. CASE type = "REAL_TIME_CAR_UPDATE"
      <3>1. /\ A = {<<"best_session_lap", "splits">>, <<"last_lap", "splits">>,
                    <<"current_lap", "splits">>}
            /\ B = A
        BY <2>2
      <3> HIDE DEF A, B
      <3> QED
        BY <2>2, <3>1, LayoutGiven, RealTimeCarUpdateTop DEF LayoutHolds
    <2> QED
      BY <2>1, <2>2
  <1>2. \A name : LastOf(lap(name)) = "splits"
    BY DEF LastOf
  <1>3. Owned = B
    BY OwnedBy
  <1> HIDE DEF lap, laps
  <1>4. \A p \in A : LastOf(p) = "splits"
    BY <1>2
  <1> HIDE DEF A, B
  <1>5. /\ DOMAIN sizes = A
        /\ \A q : q \in heap <=>
                \/ q = <<>> \/ q \in B
                \/ \E p \in A : q \in ElementPaths(BlockKinds, p, 0, sizes[p])
    BY <1>1, <1>4, BlocksOf
  <1>6. \A p \in A : IsArrayPath(p)
    <2>1. \E M : Complete(type, A, B, M, sizes, members, heap)
      BY <1>1, ParseEnded
    <2> QED
      BY <2>1 DEF Complete
  <1>7. \A p \in A : \A q : q \notin ElementPaths(BlockKinds, p, 0, sizes[p])
    BY <1>4, <1>6, HasBlockPath
  <1> QED
    BY <1>3, <1>5, <1>7 DEF Released

LEMMA NamesAreFreed ==
  ASSUME type \in {"REGISTRATION_RESULT", "BROADCASTING_EVENT", "ENTRY_LIST"},
         Finished(type, sizes, members, heap)
  PROVE  Released = heap
  <1> DEFINE A == IF type = "ENTRY_LIST" THEN {<<"indexes">>} ELSE {}
  <1>1. \E M : LayoutHolds(type, A, Owned, M)
    <2>1. CASE type = "REGISTRATION_RESULT"
      <3>1. Single({"error_message"}) = {<<"error_message">>}
        BY DEF Single
      <3> QED
        BY <2>1, <3>1, OwnedBy, LayoutGiven, RegistrationResultTop DEF LayoutHolds
    <2>2. CASE type = "BROADCASTING_EVENT"
      BY <2>2, OwnedBy, LayoutGiven, BroadcastingEventTop DEF LayoutHolds
    <2>3. CASE type = "ENTRY_LIST"
      <3>1. A = {<<"indexes">>} /\ Owned = {<<"indexes">>}
        BY <2>3, OwnedBy
      <3> HIDE DEF A
      <3> QED
        BY <2>3, <3>1, LayoutGiven, EntryListTop DEF LayoutHolds
    <2> QED
      BY <2>1, <2>2, <2>3
  <1>2. \A p \in A : LastOf(p) = "indexes"
    BY DEF LastOf
  <1> HIDE DEF A
  <1>3. /\ DOMAIN sizes = A
        /\ \A q : q \in heap <=>
                \/ q = <<>> \/ q \in Owned
                \/ \E p \in A : q \in ElementPaths(BlockKinds, p, 0, sizes[p])
    BY <1>1, <1>2, BlocksOf
  <1>4. \A p \in A : IsArrayPath(p)
    <2>1. \E M : Complete(type, A, Owned, M, sizes, members, heap)
      BY <1>1, ParseEnded
    <2> QED
      BY <2>1 DEF Complete
  <1>5. \A p \in A : \A q : q \notin ElementPaths(BlockKinds, p, 0, sizes[p])
    BY <1>2, <1>4, HasBlockPath
  <1> QED
    BY <1>3, <1>5 DEF Released

LEMMA DriversAreFreed ==
  ASSUME type = "ENTRY_LIST_CAR", Finished(type, sizes, members, heap)
  PROVE  Released = heap
  <1> DEFINE p == <<"driver_infos">>
             A == {p}
             B == {<<"team_name">>, p}
  <1>1. \E M : LayoutHolds(type, A, B, M)
    BY LayoutGiven, EntryListCarTop DEF LayoutHolds
  <1>2. LastOf(p) = "driver_infos"
    BY DEF LastOf
  <1>3. Owned = DriverInfos(p) \cup B
    BY OwnedBy DEF DriverInfos
  <1> DEFINE g(k) == p \o <<k>>
             f(e, name) == e \o <<name>>
             R == 0 .. sizes[p] - 1
  <1>4. /\ Elements(p) = {g(k) : k \in R}
        /\ DriverInfos(p) = {p} \cup {f(e, name) : e \in Elements(p), name \in DriverNames}
        /\ \A q : DriverPathOf(p, sizes[p], q) <=>
                    \E k \in R : \E name \in DriverNames : q = f(g(k), name)
    BY DEF Elements, DriverInfos, DriverPathOf, DriverNames
  <1>5. \A q : q \in DriverInfos(p) <=> q = p \/ DriverPathOf(p, sizes[p], q)
    <2> HIDE DEF f, g, R, p
    <2> QED
      BY <1>4
  <1> HIDE DEF p, B
  <1>6. \A r \in A : LastOf(r) # "camera_sets"
    BY <1>2
  <1>7. /\ DOMAIN sizes = A
        /\ \A q : q \in heap <=>
                \/ q = <<>> \/ q \in B
                \/ \E r \in A : q \in ElementPaths(BlockKinds, r, 0, sizes[r])
    <2> HIDE DEF A
    <2> QED
      BY <1>1, <1>6, BlocksOf
  <1>8. IsArrayPath(p)
    <2>1. \E M : Complete(type, A, B, M, sizes, members, heap)
      BY <1>1, ParseEnded
    <2> QED
      BY <1>7, <2>1 DEF Complete
  <1>9. \A q : q \in ElementPaths(BlockKinds, p, 0, sizes[p]) <=> DriverPathOf(p, sizes[p], q)
    BY <1>2, <1>8, HasBlockPath
  <1>10. p \in B
    BY DEF B
  <1>11. \A q : q \in heap <=> q = <<>> \/ q \in Owned
    BY <1>3, <1>5, <1>7, <1>9, <1>10
  <1> QED
    BY <1>11 DEF Released

LEMMA HasElement ==
  ASSUME NEW p, NEW q
  PROVE  /\ q \in Elements(p) <=> ElementPathOf(p, sizes[p], q)
         /\ q \in Strings(p) <=> q = p \/ ElementPathOf(p, sizes[p], q)
  <1> DEFINE g(k) == p \o <<k>>
             R == 0 .. sizes[p] - 1
  <1>1. /\ Elements(p) = {g(k) : k \in R}
        /\ ElementPathOf(p, sizes[p], q) <=> \E k \in R : q = g(k)
    BY DEF Elements, ElementPathOf
  <1> HIDE DEF g, R
  <1> QED
    BY <1>1 DEF Strings

LEMMA CameraSetsAreFreed ==
  ASSUME type = "TRACK_DATA", Finished(type, sizes, members, heap)
  PROVE  Released = heap
  <1> DEFINE p == <<"camera_sets">>
             hud == <<"hud_pages">>
             A == {p, hud}
             B == {<<"track_name">>, p, hud}
             n == sizes[p]
             EP(r) == ElementPaths(BlockKinds, r, 0, sizes[r])
  <1>1. \E M : LayoutHolds(type, A, B, M)
    BY LayoutGiven, TrackDataTop DEF LayoutHolds
  <1>2. LastOf(p) = "camera_sets" /\ LastOf(hud) = "hud_pages"
    BY DEF LastOf
  <1>3. Owned = CameraSets(p) \cup Strings(hud) \cup B
    BY OwnedBy DEF CameraSets, Strings
  <1> DEFINE g(k) == p \o <<k>>
             f(e, name) == e \o <<name>>
             R == 0 .. n - 1
             arrayOf(k) == f(g(k), "cameras")
  <1>4. /\ Elements(p) = {g(k) : k \in R}
        /\ CameraSets(p) = {p} \cup UNION {{f(e, "camera_set")} \cup Strings(f(e, "cameras")) :
                                           e \in Elements(p)}
        /\ \A q, name : NamedPathOf(p, n, q, name) <=> \E k \in R : q = f(g(k), name)
    BY DEF Elements, CameraSets, NamedPathOf
  <1>5. \A q : q \in CameraSets(p) <=>
            \/ q = p
            \/ \E k \in R : q = f(g(k), "camera_set") \/ q \in Strings(arrayOf(k))
    <2> HIDE DEF f, g, R, p
    <2> QED
      BY <1>4
  <1>6. \A k : LastOf(arrayOf(k)) = "cameras"
    <2> SUFFICES ASSUME NEW k PROVE LastOf(arrayOf(k)) = "cameras"
      OBVIOUS
    <2>1. IsSeq(p)
      BY Tuples
    <2>2. IsSeq(g(k))
      BY <2>1, ElementPath
    <2> HIDE DEF g
    <2> QED
      BY <2>2, ElementPath
  <1> HIDE DEF p, hud, B, A, n, f, g, R
  <1>7. Complete(type, A, B, {}, sizes, members, heap)
    <2>1. PICK M : LayoutHolds(type, A, B, M)
      BY <1>1
    <2>2. Complete(type, A, B, M, sizes, members, heap)
      BY <2>1, ParseEnded
    <2> QED
      BY <2>2 DEF Complete
  <1>8. /\ \A r \in DOMAIN sizes : IsArrayPath(r) /\ sizes[r] \in Nat
        /\ heap = {<<>>} \cup B \cup ArrayPaths(BlockKinds, sizes)
        /\ DOMAIN sizes = A \cup ArrayPaths(ArrayKinds, sizes)
    BY <1>7 DEF Complete
  <1>9. p \in A /\ hud \in A /\ \A r \in A : r = p \/ r = hud
    BY DEF A
  <1>10. /\ \A r \in DOMAIN sizes : r = p \/ r = hud \/ \E k \in R : r = arrayOf(k)
         /\ p \in DOMAIN sizes /\ hud \in DOMAIN sizes
         /\ \A k \in R : arrayOf(k) \in DOMAIN sizes
    <2>1. /\ A \subseteq DOMAIN sizes
          /\ \A q \in DOMAIN sizes \ A : \E r \in A :
                LastOf(r) = "camera_sets" /\ q \in ElementPaths(ArrayKinds, r, 0, sizes[r])
          /\ \A r \in A : ElementPaths(ArrayKinds, r, 0, sizes[r]) \subseteq DOMAIN sizes
      BY <1>8, ArraysOf
    <2>2. \A q : q \in ElementPaths(ArrayKinds, p, 0, n) <=> \E k \in R : q = arrayOf(k)
      <3>1. IsArrayPath(p)
        BY <1>8, <1>9, <2>1
      <3>2. \A q : q \in ElementPaths(ArrayKinds, p, 0, n) <=> NamedPathOf(p, n, q, "cameras")
        BY <1>2, <3>1, HasArrayPath
      <3> QED
        BY <1>4, <3>2
    <2>3. ASSUME NEW q \in DOMAIN sizes \ A PROVE \E k \in R : q = arrayOf(k)
      <3>1. PICK r \in A : LastOf(r) = "camera_sets" /\ q \in ElementPaths(ArrayKinds, r, 0, sizes[r])
        BY <2>1
      <3>2. r = p
        BY <1>2, <1>9, <3>1
      <3> QED
        BY <2>2, <3>1, <3>2 DEF n
    <2>4. ASSUME NEW k \in R PROVE arrayOf(k) \in DOMAIN sizes
      BY <1>9, <2>1, <2>2 DEF n
    <2> QED
      BY <1>9, <2>1, <2>3, <2>4
  <1>11. \A q : q \in EP(p) <=>
            \E k \in R : q = f(g(k), "camera_set") \/ q = arrayOf(k)
    <2>1. \A q : q \in EP(p) <=>
            NamedPathOf(p, n, q, "camera_set") \/ NamedPathOf(p, n, q, "cameras")
      BY <1>2, <1>8, <1>10, HasBlockPath DEF n
    <2> QED
      BY <1>4, <2>1
  <1>12. \A q : q \in EP(hud) \/ q = hud <=> q \in Strings(hud)
    BY <1>2, <1>8, <1>10, HasBlockPath, HasElement
  <1>13. ASSUME NEW k \in R
         PROVE  \A q : q \in EP(arrayOf(k)) \/ q = arrayOf(k) <=> q \in Strings(arrayOf(k))
    <2> DEFINE a == arrayOf(k)
    <2>1. LastOf(a) = "cameras" /\ IsArrayPath(a)
      BY <1>6, <1>8, <1>10
    <2> HIDE DEF a
    <2>2. \A q : q \in EP(a) \/ q = a <=> q \in Strings(a)
      BY <2>1, HasBlockPath, HasElement
    <2> QED
      BY <2>2 DEF a
  <1> HIDE DEF EP, arrayOf
  <1>14. \A q : q \in ArrayPaths(BlockKinds, sizes) <=> \E r \in DOMAIN sizes : q \in EP(r)
    BY DEF ArrayPaths, EP
  <1>15. \A q : q \in heap <=> q = <<>> \/ q \in Owned
    <2>1. \A q : q \in heap <=> \/ q = <<>> \/ q \in B \/ q \in EP(p) \/ q \in EP(hud)
                                \/ \E k \in R : q \in EP(arrayOf(k))
      BY <1>8, <1>10, <1>14
    <2>2. p \in B /\ hud \in B
      BY DEF B
    <2>3. \A q : q \in heap <=>
            \/ q = <<>> \/ q \in B \/ q \in Strings(hud)
            \/ \E k \in R : q = f(g(k), "camera_set") \/ q \in Strings(arrayOf(k))
      BY <1>11, <1>12, <1>13, <2>1, <2>2
    <2> QED
      BY <1>3, <1>5, <2>2, <2>3
  <1> QED
    BY <1>15 DEF Released

LEMMA FreeExact ==
  ASSUME Finished(type, sizes, members, heap)
  PROVE  Released = heap
  <1>1. type \in DOMAIN Layout
    BY DEF Finished, Body, WellFormed
  <1> QED
    BY <1>1, LayoutGiven, LapsAreFreed, NamesAreFreed, DriversAreFreed, CameraSetsAreFreed

-----------------------------------------------------------------------------
(***************************************************************************)
(* The members that have been assigned when nothing is left to be read.    *)
(***************************************************************************)
KnownUnassigned == NeverAssigned \cup Single(ReplayNames)

LEMMA LapsOfLaps == ASSUME NEW laps PROVE LapsOf(laps) \subseteq LapParts(laps)
  <1> DEFINE f(lap, name) == <<lap, name>>
  <1>1. /\ LapsOf(laps) = {f(lap, name) : lap \in laps, name \in LapMembers}
        /\ LapParts(laps) = {f(lap, name) : lap \in laps, name \in LapFields}
    BY DEF LapsOf, LapParts
  <1>2. LapMembers \subseteq LapFields
    BY DEF LapMembers, LapFields
  <1> HIDE DEF f
  <1> QED
    BY <1>1, <1>2

LEMMA StructMembersOf ==
  /\ StructMembers["REGISTRATION_RESULT"] =
        Single({"connection_id", "connection_success", "is_read_only", "error_message"})
  /\ StructMembers["REAL_TIME_UPDATE"] =
        Single({"event_index", "session_index", "phase", "session_time", "remaining_time",
                "time_of_day", "rain_level", "cloud_level", "wetness_level",
                "best_lap_car_index", "best_lap_driver_index", "focused_car_index",
                "active_camera_set", "active_camera", "current_hud_page",
                "is_replay_playing", "replay_session_time", "replay_remaining_time",
                "session_remaining_time", "session_end_time", "session_type",
                "ambient_temperature", "track_temperature"})
        \cup LapsOf({"best_session_lap"})
  /\ StructMembers["REAL_TIME_CAR_UPDATE"] =
        Single({"car_index", "driver_index", "gear", "world_position_x", "world_position_y",
                "yaw", "car_location", "speed", "position", "track_position",
                "spline_position", "delta", "laps", "cup_position", "driver_count"})
        \cup LapsOf({"best_session_lap", "last_lap", "current_lap"})
  /\ StructMembers["ENTRY_LIST"] = Single({"connection_id", "indexes"})
  /\ StructMembers["ENTRY_LIST_CAR"] =
        Single({"car_index", "car_model_type", "cup_category", "team_name", "nationality",
                "race_number", "current_driver_index", "driver_infos"})
  /\ StructMembers["TRACK_DATA"] =
        Single({"connection_id", "track_name", "track_id", "track_length", "camera_sets",
                "hud_pages"})
  /\ StructMembers["BROADCASTING_EVENT"] = Single({"type", "message", "time", "car_index"})
  BY DEF StructMembers

\* The layout of a type names every member of its struct, but the known ones.
LEMMA StructIsRead ==
  ASSUME NEW t \in DOMAIN Layout
  PROVE  \E A, B, M : LayoutHolds(t, A, B, M) /\ StructMembers[t] \subseteq M \cup KnownUnassigned
  <1>1. CASE t = "REGISTRATION_RESULT"
    BY <1>1, LayoutGiven, StructMembersOf, RegistrationResultTop DEF LayoutHolds
  <1>2. CASE t = "BROADCASTING_EVENT"
    BY <1>2, LayoutGiven, StructMembersOf, BroadcastingEventTop DEF LayoutHolds
  <1>3. CASE t = "ENTRY_LIST"
    BY <1>3, LayoutGiven, StructMembersOf, EntryListTop DEF LayoutHolds
  <1>4. CASE t = "ENTRY_LIST_CAR"
    <2> DEFINE S == {"car_index", "car_model_type", "team_name", "race_number",
                     "cup_category", "current_driver_index", "nationality", "driver_infos"}
    <2>1. StructMembers[t] = Single(S)
      <3>1. S = {"car_index", "car_model_type", "cup_category", "team_name", "nationality",
                 "race_number", "current_driver_index", "driver_infos"}
        OBVIOUS
      <3> HIDE DEF S
      <3> QED
        BY <1>4, <3>1, StructMembersOf
    <2>2. \E A, B : LayoutHolds(t, A, B, Single(S))
      BY <1>4, LayoutGiven, EntryListCarTop DEF LayoutHolds
    <2> QED
      BY <2>1, <2>2
  <1>5. CASE t = "TRACK_DATA"
    BY <1>5, LayoutGiven, StructMembersOf, TrackDataTop DEF LayoutHolds
  <1>6. CASE t = "REAL_TIME_UPDATE"
    <2> DEFINE S == {"event_index", "session_index", "session_type", "phase", "session_time",
                     "session_end_time", "focused_car_index", "active_camera_set",
                     "active_camera", "current_hud_page", "is_replay_playing", "time_of_day",
                     "ambient_temperature", "track_temperature", "cloud_level", "rain_level",
                     "wetness_level"}
               N == {"remaining_time", "session_remaining_time", "best_lap_car_index",
                     "best_lap_driver_index"}
               lap == {"best_session_lap"}
    <2>1. \E A, B : LayoutHolds(t, A, B, Single(S) \cup LapParts(lap))
      BY <1>6, LayoutGiven, RealTimeUpdateTop DEF LayoutHolds
    <2>2. StructMembers[t] = Single(S \cup N \cup ReplayNames) \cup LapsOf(lap)
      <3>1. S \cup N \cup ReplayNames =
                {"event_index", "session_index", "phase", "session_time", "remaining_time",
                 "time_of_day", "rain_level", "cloud_level", "wetness_level",
                 "best_lap_car_index", "best_lap_driver_index", "focused_car_index",
                 "active_camera_set", "active_camera", "current_hud_page",
                 "is_replay_playing", "replay_session_time", "replay_remaining_time",
                 "session_remaining_time", "session_end_time", "session_type",
                 "ambient_temperature", "track_temperature"}
        BY DEF ReplayNames
      <3> QED
        BY <1>6, <3>1, StructMembersOf, Zenon
    <2>3. NeverAssigned = Single(N)
      BY DEF NeverAssigned
    <2> HIDE DEF S, N, lap
    <2>4. Single(S \cup N \cup ReplayNames) = Single(S) \cup Single(N) \cup Single(ReplayNames)
      BY DEF Single
    <2>5. LapsOf(lap) \subseteq LapParts(lap)
      BY LapsOfLaps
    <2> QED
      BY <2>1, <2>2, <2>3, <2>4, <2>5 DEF KnownUnassigned
  <1>7. CASE t = "REAL_TIME_CAR_UPDATE"
    <2> DEFINE S == {"car_index", "driver_index", "driver_count", "gear",
                     "world_position_x", "world_position_y", "yaw", "car_location", "speed",
                     "position", "cup_position", "track_position", "spline_position",
                     "laps", "delta"}
               laps == {"best_session_lap", "last_lap", "current_lap"}
    <2>1. \E A, B : LayoutHolds(t, A, B, Single(S) \cup LapParts(laps))
      BY <1>7, LayoutGiven, RealTimeCarUpdateTop DEF LayoutHolds
    <2>2. StructMembers[t] = Single(S) \cup LapsOf(laps)
      <3>1. S = {"car_index", "driver_index", "gear", "world_position_x", "world_position_y",
                 "yaw", "car_location", "speed", "position", "track_position",
                 "spline_position", "delta", "laps", "cup_position", "driver_count"}
        OBVIOUS
      <3> QED
        BY <1>7, <3>1, StructMembersOf, Zenon
    <2> HIDE DEF S, laps
    <2>3. LapsOf(laps) \subseteq LapParts(laps)
      BY LapsOfLaps
    <2> QED
      BY <2>1, <2>2, <2>3
  <1> QED
    BY <1>1, <1>2, <1>3, <1>4, <1>5, <1>6, <1>7, LayoutGiven

\* The loop over an array reads every member of its elements.
LEMMA ElementIsRead ==
  ASSUME NEW name \in DOMAIN ElementOf
  PROVE  ElementMembers(name) \subseteq OfKind(MemberKinds, Items(Element[ElementOf[name]]))
  <1>1. CASE name \in {"splits", "indexes", "hud_pages", "cameras"}
    BY <1>1, ElementContents DEF Contents, ElementMembers
  <1>2. CASE name = "driver_infos"
    <2>1. ElementMembers(name) =
            Single(DriverNames) \cup Single({"category"}) \cup Single({"nationality"})
      BY <1>2 DEF ElementMembers, DriverNames, Single
    <2> QED
      BY <1>2, <2>1, ElementContents DEF Contents
  <1>3. CASE name = "camera_sets"
    <2>1. ElementMembers(name) = {<<"camera_set">>, <<"cameras">>}
      BY <1>3 DEF ElementMembers, Single
    <2> QED
      BY <1>3, <2>1, ElementContents DEF Contents
  <1> QED
    BY <1>1, <1>2, <1>3, ElementContents

LEMMA DeclaredAreAssigned ==
  ASSUME Finished(type, sizes, members, heap)
  PROVE  DeclaredMembers \ members \subseteq KnownUnassigned
  <1>1. type \in DOMAIN Layout
    BY DEF Finished, Body, WellFormed
  <1>2. PICK A, B, M : LayoutHolds(type, A, B, M) /\ StructMembers[type] \subseteq M \cup KnownUnassigned
    BY <1>1, StructIsRead
  <1>3. Complete(type, A, B, M, sizes, members, heap)
    BY <1>2, ParseEnded
  <1>4. /\ \A p \in DOMAIN sizes : IsArrayPath(p)
        /\ M \subseteq members
        /\ \A p \in DOMAIN sizes : ElementPaths(MemberKinds, p, 0, sizes[p]) \subseteq members
    BY <1>3 DEF Complete, ArrayPaths
  <1> DEFINE U(p) == {e \o m : e \in Elements(p), m \in ElementMembers(p[Len(p)])}
  <1>5. ASSUME NEW p \in DOMAIN sizes PROVE U(p) \subseteq members
    <2> DEFINE C == OfKind(MemberKinds, Items(Element[ElementOf[LastOf(p)]]))
               R == 0 .. sizes[p] - 1
               g(k) == p \o <<k>>
               f(e, m) == e \o m
               D == ElementMembers(p[Len(p)])
    <2>1. D \subseteq C
      BY <1>4, ElementIsRead DEF IsArrayPath, LastOf
    <2>2. ElementPaths(MemberKinds, p, 0, sizes[p]) = {f(g(k), m) : k \in R, m \in C}
      BY DEF ElementPaths
    <2>3. Elements(p) = {g(k) : k \in R}
      BY DEF Elements
    <2>4. U(p) = {f(e, m) : e \in Elements(p), m \in D}
      OBVIOUS
    <2> HIDE DEF C, R, f, g, D, U
    <2> QED
      BY <1>4, <2>1, <2>2, <2>3, <2>4
  <1>6. DeclaredMembers = StructMembers[type] \cup UNION {U(p) : p \in DOMAIN sizes}
    BY DEF DeclaredMembers
  <1>7. \A p \in DOMAIN sizes : U(p) \subseteq members
    BY <1>5
  <1> HIDE DEF U
  <1> QED
    BY <1>2, <1>4, <1>6, <1>7

-----------------------------------------------------------------------------
(***************************************************************************)
(* The invariant holds of every step.                                      *)
(***************************************************************************)
LEMMA ReadScalarBody ==
  ASSUME Body(type, todo, sizes, members, heap), type' = type, ReadScalar
  PROVE  Body(type', todo', sizes', members', heap')
  <1>1. /\ todo # <<>> /\ Head(todo).kind \in DOMAIN Width \cup {"string"}
        /\ Head(todo).kind # "string"
        /\ todo' = <<>> \o Tail(todo) /\ members' = members \cup {Head(todo).path}
        /\ sizes' = sizes /\ heap' = heap \cup {}
    BY DEF ReadScalar, At, Item, ContinueWith, Assign, Width
  <1>2. Body(type, <<>> \o Tail(todo), sizes, members \cup {Head(todo).path}, heap \cup {})
    BY <1>1, SimpleStep
  <1> QED
    BY <1>1, <1>2

LEMMA ReadStringBody ==
  ASSUME Body(type, todo, sizes, members, heap), type' = type, ReadString
  PROVE  Body(type', todo', sizes', members', heap')
  <1>1. /\ todo # <<>> /\ Head(todo).kind = "string"
        /\ todo' = <<>> \o Tail(todo) /\ members' = members \cup {Head(todo).path}
        /\ sizes' = sizes /\ heap' = heap \cup {Head(todo).path}
    BY DEF ReadString, At, Item, ContinueWith, Assign, Allocate
  <1>2. Body(type, <<>> \o Tail(todo), sizes, members \cup {Head(todo).path},
             heap \cup {Head(todo).path})
    BY <1>1, SimpleStep
  <1> QED
    BY <1>1, <1>2

LEMMA ReadReplayFlagBody ==
  ASSUME Body(type, todo, sizes, members, heap), type' = type, ReadReplayFlag
  PROVE  Body(type', todo', sizes', members', heap')
  <1>1. /\ todo # <<>> /\ Head(todo).kind = "replay"
        /\ members' = members \cup {Head(todo).path}
        /\ sizes' = sizes /\ heap' = heap
    BY DEF ReadReplayFlag, At, Item, Assign
  <1>2. PICK N \in {ReplayTimes, <<>>} : todo' = N \o Tail(todo)
    BY DEF ReadReplayFlag, ContinueWith
  <1>3. Body(type, N \o Tail(todo), sizes, members \cup {Head(todo).path}, heap)
    BY <1>1, ReplayStep
  <1> QED
    BY <1>1, <1>2, <1>3

LEMMA ReadArrayBody ==
  ASSUME Body(type, todo, sizes, members, heap), type' = type, ReadArray
  PROVE  Body(type', todo', sizes', members', heap')
  <1>1. /\ todo # <<>> /\ Head(todo).kind = "array"
        /\ members' = members \cup {Head(todo).path}
        /\ heap' = heap \cup {Head(todo).path}
    BY DEF ReadArray, At, Item, Assign, Allocate
  <1>2. PICK n \in CountsOf(Head(todo).count) :
            /\ sizes' = [p \in DOMAIN sizes \cup {Head(todo).path} |->
                            IF p = Head(todo).path THEN n ELSE sizes[p]]
            /\ todo' = <<[path |-> Head(todo).path, kind |-> "loop",
                          element |-> Head(todo).element, index |-> 0, size |-> n]>>
                       \o Tail(todo)
    BY DEF ReadArray, ContinueWith, Item
  <1>3. /\ sizes' = WithSize(sizes, Head(todo).path, n)
        /\ todo' = <<LoopOver(Head(todo), n)>> \o Tail(todo)
    BY <1>2 DEF WithSize, LoopOver
  <1> QED
    BY <1>1, <1>3, ArrayStep

LEMMA NextElementBody ==
  ASSUME Body(type, todo, sizes, members, heap), type' = type, NextElement
  PROVE  Body(type', todo', sizes', members', heap')
  <1>1. /\ todo # <<>> /\ Head(todo).kind = "loop" /\ Head(todo).index < Head(todo).size
        /\ members' = members /\ sizes' = sizes /\ heap' = heap
        /\ todo' = (Under(Head(todo).path \o <<Head(todo).index>>, Element[Head(todo).element])
                    \o <<[Head(todo) EXCEPT !.index = (@ + 1) % IndexRange]>>) \o Tail(todo)
    BY DEF NextElement, At, Item, ContinueWith
  <1> QED
    BY <1>1, LoopStep

LEMMA EndOfArrayBody ==
  ASSUME Body(type, todo, sizes, members, heap), type' = type, EndOfArray
  PROVE  Body(type', todo', sizes', members', heap')
  <1>1. /\ todo # <<>> /\ Head(todo).kind = "loop" /\ Head(todo).index >= Head(todo).size
        /\ members' = members /\ sizes' = sizes /\ heap' = heap
        /\ todo' = <<>> \o Tail(todo)
    BY DEF EndOfArray, At, Item, ContinueWith
  <1> QED
    BY <1>1, LoopEnds

LEMMA FinishLapBody ==
  ASSUME Body(type, todo, sizes, members, heap), type' = type, FinishLap
  PROVE  Body(type', todo', sizes', members', heap')
  <1> DEFINE splits == SplitsOf(Head(todo))
             New == ElementsFrom(splits, sizes[splits], 3)
  <1>1. /\ todo # <<>> /\ Head(todo).kind = "lap_type" /\ heap' = heap
        /\ todo' = <<>> \o Tail(todo)
        /\ sizes' = IF sizes[splits] < 3 THEN [sizes EXCEPT ![splits] = 3] ELSE sizes
    BY DEF FinishLap, At, Item, ContinueWith, SplitsOf
  <1>2. members' = members \cup ({Head(todo).path} \cup New)
    BY DEF FinishLap, Assign, Item, SplitsOf, ElementsFrom
  <1> HIDE DEF New
  <1>3. splits = SplitsOf(Head(todo))
    OBVIOUS
  <1> HIDE DEF splits
  <1>4. /\ DOMAIN sizes' = DOMAIN sizes
        /\ \A p \in DOMAIN sizes : p # splits => sizes'[p] = sizes[p]
        /\ splits \in DOMAIN sizes =>
                sizes'[splits] = IF sizes[splits] < 3 THEN 3 ELSE sizes[splits]
    BY <1>1
  <1>5. Body(type, <<>> \o Tail(todo), sizes', members \cup ({Head(todo).path} \cup New), heap)
    BY <1>1, <1>3, <1>4, LapStep DEF New
  <1> QED
    BY <1>1, <1>2, <1>5

LEMMA ItemBody ==
  ASSUME Body(type, todo, sizes, members, heap), ParseItem
  PROVE  Body(type', todo', sizes', members', heap')
  <1>1. type' = type
    BY DEF ParseItem
  <1> QED
    BY <1>1, ReadScalarBody, ReadStringBody, ReadReplayFlagBody, ReadArrayBody, NextElementBody,
       EndOfArrayBody, FinishLapBody DEF ParseItem

LEMMA ResponseInvInit == ReaderInit => ResponseInv
  <1> SUFFICES ASSUME ReaderInit PROVE ResponseInv
    OBVIOUS
  <1>1. receiving = "idle" /\ ready = FALSE /\ sizes = NoSizes /\ members = {}
    BY DEF ReaderInit
  <1> QED
    BY <1>1 DEF ResponseInv, NoSizes

\* Nothing of a response is held between two of them.
LEMMA DroppedResponse ==
  ASSUME DropResponse, receiving' # "parse"
  PROVE  ResponseInv'
  <1>1. ready' = FALSE /\ DOMAIN sizes' = {} /\ members' = {}
    BY DEF DropResponse, NoSizes
  <1> QED
    BY <1>1 DEF ResponseInv

LEMMA StepResponseInv == ResponseInv /\ [ReaderNext]_readerVars => ResponseInv'
  <1> SUFFICES ASSUME ResponseInv, [ReaderNext]_readerVars PROVE ResponseInv'
    OBVIOUS
  <1>1. CASE ParseItem
    <2>1. /\ receiving = "parse" /\ todo # <<>>
      BY <1>1 DEF ParseItem, ReadScalar, ReadReplayFlag, ReadString, ReadArray, NextElement,
                  EndOfArray, FinishLap, At
    <2>2. ~ready /\ Body(type, todo, sizes, members, heap)
      BY <2>1 DEF ResponseInv
    <2>3. Body(type', todo', sizes', members', heap')
      BY <1>1, <2>2, ItemBody
    <2>4. ready' = ready /\ receiving' = receiving
      BY <1>1 DEF ParseItem
    <2> QED
      BY <2>1, <2>2, <2>3, <2>4 DEF ResponseInv
  <1>2. CASE ParseCrashes
    <2>1. todo # <<>> /\ receiving' = "crashed" /\ ready' = ready
      BY <1>2 DEF ParseCrashes, response
    <2> QED
      BY <2>1 DEF ResponseInv
  <1>3. CASE ParseReturns
    <2>1. /\ receiving = "parse" /\ todo = <<>> /\ ready' = TRUE /\ todo' = todo
          /\ type' = type /\ heap' = heap /\ sizes' = sizes /\ members' = members
      BY <1>3 DEF ParseReturns
    <2>2. Body(type', todo', sizes', members', heap')
      BY <2>1 DEF ResponseInv
    <2> QED
      BY <2>1, <2>2 DEF ResponseInv
  <1>4. CASE ParseRejects
    BY <1>4, DroppedResponse DEF ParseRejects, EndParse
  <1>5. ASSUME NEW n \in Received, NEW t \in Types, Receive(n, t) PROVE ResponseInv'
    <2>1. /\ DOMAIN sizes = {} /\ members = {} /\ ~ready
          /\ type' = t /\ heap' = {<<>>} /\ todo' = Layout[t] /\ ready' = ready
          /\ sizes' = sizes /\ members' = members /\ receiving' = "parse"
      BY <1>5 DEF Receive, ResponseInv
    <2>2. Body(t, Layout[t], sizes, {}, {<<>>})
      BY <2>1, ParseBegins, TypesAssumption
    <2>3. Body(type', todo', sizes', members', heap')
      BY <2>1, <2>2
    <2> QED
      BY <2>1, <2>3 DEF ResponseInv
  <1>6. ASSUME \/ \E t \in Types : ReceiveNoMemory(t)
               \/ ReceiveUnknown
        PROVE  ResponseInv'
    <2>1. /\ receiving = "idle" /\ ~ready /\ ready' = ready /\ receiving' = receiving
          /\ sizes' = sizes /\ members' = members
      BY <1>6 DEF ReceiveNoMemory, ReceiveUnknown, parse
    <2> QED
      BY <2>1 DEF ResponseInv
  <1>7. CASE AccServerResponseFree
    BY <1>7, DroppedResponse DEF AccServerResponseFree, EndParse
  <1>8. CASE UNCHANGED readerVars
    BY <1>8 DEF readerVars, response, parse, ResponseInv
  <1> QED
    BY <1>1, <1>2, <1>3, <1>4, <1>5, <1>6, <1>7, <1>8 DEF ReaderNext, ParseStep, ReaderCall

\* What the invariant says of a response that has been returned or freed.
LEMMA ResponseIsSound ==
  ResponseInv => FreeIsExact /\ UnassignedAreKnown
  <1>1. ResponseInv => FreeIsExact
    BY FreeExact DEF ResponseInv, FreeIsExact, Finished
  <1>2. ResponseInv => UnassignedAreKnown
    <2> SUFFICES ASSUME ResponseInv, ready PROVE UnassignedAreKnown
      BY DEF UnassignedAreKnown
    <2>1. Finished(type, sizes, members, heap)
      BY DEF ResponseInv, Finished
    <2>2. DeclaredMembers \ members \subseteq KnownUnassigned
      BY <2>1, DeclaredAreAssigned
    <2> QED
      BY <2>2 DEF UnassignedAreKnown, KnownUnassigned, ReplayNames
  <1> QED
    BY <1>1, <1>2

-----------------------------------------------------------------------------
(***************************************************************************)
(* While a datagram is parsed, and when its response is returned, what has *)
(* been allocated and assigned and what is still to be read make up the    *)
(* whole of a response of its type, for the sizes that its arrays have.    *)
(***************************************************************************)
THEOREM ResponseInvariance == ReaderSpec => []ResponseInv
  BY ResponseInvInit, StepResponseInv, PTL DEF ReaderSpec

(***************************************************************************)
(* acc_server_response_free frees the blocks that the parse has allocated, *)
(* all of them and no other, down to the names of drivers and cameras.     *)
(***************************************************************************)
THEOREM FreeReleasesWhatWasAllocated == ReaderSpec => []FreeIsExact
  BY ResponseIsSound, ResponseInvariance, PTL

(***************************************************************************)
(* A response that is returned has every member assigned, down to the      *)
(* elements of its arrays, but these of a real-time update.                *)
(***************************************************************************)
THEOREM OnlyKnownAreUnassigned == ReaderSpec => []UnassignedAreKnown
  BY ResponseIsSound, ResponseInvariance, PTL

\* What is read is no member yet, where no loop starts again.
LEMMA StepReadsNew ==
  ASSUME ParseInv, ResponseInv, [ReaderNext]_readerVars
  PROVE  receiving = "parse" /\ offset' > offset /\ ~Overlong => Item.path \notin members
  <1> SUFFICES ASSUME receiving = "parse", offset' > offset, ~Overlong
               PROVE  Item.path \notin members
    OBVIOUS
  <1>1. offset \in Nat
    BY DEF ParseInv
  <1>2. ReadScalar \/ ReadReplayFlag \/ ReadString \/ ReadArray
    <2>1. CASE ParseItem
      BY <1>1, <2>1 DEF ParseItem, NextElement, EndOfArray, FinishLap
    <2>2. CASE ParseCrashes \/ ParseReturns
      BY <1>1, <2>2 DEF ParseCrashes, ParseReturns
    <2>3. CASE ParseRejects
      BY <1>1, <2>3 DEF ParseRejects, EndParse
    <2>4. CASE ReaderCall
      BY <2>4 DEF ReaderCall, Receive, ReceiveNoMemory, ReceiveUnknown, AccServerResponseFree
    <2>5. CASE UNCHANGED readerVars
      BY <1>1, <2>5 DEF readerVars, parse
    <2> QED
      BY <2>1, <2>2, <2>3, <2>4, <2>5 DEF ReaderNext, ParseStep
  <1>3. todo # <<>> /\ Item.kind \in DOMAIN Width \cup {"replay", "string", "array"}
    BY <1>2 DEF ReadScalar, ReadReplayFlag, ReadString, ReadArray, At
  <1>4. Body(type, todo, sizes, members, heap) /\ Exact(type, sizes)
    <2>1. Body(type, todo, sizes, members, heap)
      BY DEF ResponseInv
    <2>2. \A p \in DOMAIN sizes : sizes[p] \in Nat
      BY <2>1 DEF Body, WellFormed
    <2> QED
      BY <2>1, <2>2, AccReaderAssumption DEF Overlong, Exact
  <1>5. Unread(todo, members) /\ Item \in Items(todo) /\ IsSeq(Item.path)
    BY <1>3, <1>4, HeadOK DEF Body, Item, ItemOK
  <1>6. Reads(Item, Item.path)
    <2>1. CASE Item.kind = "array"
      BY <1>5, <2>1, ExtendsItself DEF Reads
    <2>2. CASE Item.kind = "replay"
      BY <2>2 DEF Reads
    <2>3. CASE Item.kind \in DOMAIN Width \cup {"string"}
      BY <2>3, SimpleReads
    <2> QED
      BY <1>3, <2>1, <2>2, <2>3
  <1> QED
    BY <1>5, <1>6 DEF Unread

(***************************************************************************)
(* No member and no element is read twice, but where an array is longer    *)
(* than its loop index can count.                                          *)
(***************************************************************************)
THEOREM NothingReadTwice == ReaderSpec => NothingIsReadTwice
  <1>1. ASSUME ParseInv, ResponseInv, [ReaderNext]_readerVars
        PROVE  [receiving = "parse" /\ offset' > offset /\ ~Overlong =>
                Item.path \notin members]_readerVars
    BY <1>1, StepReadsNew
  <1>2. ReaderInv => ParseInv
    BY DEF ReaderInv
  <1> QED
    BY <1>1, <1>2, ReaderInvariance, ResponseInvariance, PTL DEF ReaderSpec, NothingIsReadTwice

-----------------------------------------------------------------------------
(***************************************************************************)
(* While an array is overlong the loop over it is among what is still to   *)
(* be read, and its index, which starts again, never reaches the size.     *)
(***************************************************************************)
Endless(items) ==
    \E x \in items : /\ x.kind = "loop" /\ x.size >= IndexRange
                     /\ x.index \in Nat /\ x.index < IndexRange

OverlongInv ==
    Overlong => receiving # "idle" /\ (receiving = "parse" => Endless(Items(todo)))

LEMMA EndlessKept ==
  ASSUME WellFormed(type, todo, sizes, members), todo # <<>>, Endless(Items(todo)),
         NEW N, IsSeq(N), todo' = N \o Tail(todo),
         Endless({Head(todo)}) => Endless(Items(N))
  PROVE  Endless(Items(todo'))
  <1>1. Items(todo) = {Head(todo)} \cup Items(Tail(todo)) /\ IsSeq(Tail(todo))
    BY HeadThenTail DEF WellFormed
  <1>2. Items(todo') = Items(N) \cup Items(Tail(todo))
    BY <1>1, Joined
  <1> QED
    BY <1>1, <1>2 DEF Endless

LEMMA NextElementEndless ==
  ASSUME Body(type, todo, sizes, members, heap), Endless(Items(todo)), NextElement
  PROVE  Endless(Items(todo'))
  <1> DEFINE x == Head(todo)
             u == Under(x.path \o <<x.index>>, Element[x.element])
             y == [x EXCEPT !.index = (@ + 1) % IndexRange]
  <1>1. /\ todo # <<>> /\ x.kind = "loop" /\ x.index < x.size
        /\ todo' = (u \o <<y>>) \o Tail(todo)
    BY DEF NextElement, At, Item, ContinueWith
  <1>2. WellFormed(type, todo, sizes, members)
    BY DEF Body
  <1>3. ItemOK(x, type, sizes)
    BY <1>1, <1>2, HeadOK
  <1>4. /\ DOMAIN x = {"path", "kind", "element", "index", "size"}
        /\ x.index \in Nat /\ x.size \in Nat
        /\ x.element = ElementOf[LastOf(x.path)] /\ IsArrayPath(x.path)
    BY <1>1, <1>3 DEF ItemOK, FieldsOfKind
  <1>5. x.element \in DOMAIN Element
    BY <1>4, ElementGiven DEF IsArrayPath, ElementOf
  <1>6. IsSeq(Element[x.element])
    BY <1>5, ElementWithin DEF Contents
  <1> HIDE DEF x
  <1>7. IsSeq(u) /\ IsSeq(<<y>>) /\ Items(<<y>>) = {y}
    BY <1>6, UnderItems, Tuples
  <1>8. IsSeq(u \o <<y>>) /\ y \in Items(u \o <<y>>)
    BY <1>7, Joined
  <1>9. y.kind = x.kind /\ y.size = x.size /\ y.index = (x.index + 1) % IndexRange
    BY <1>4
  <1>10. y.index \in Nat /\ y.index < IndexRange
    <2>1. \A n \in Nat : n % IndexRange \in Nat /\ n % IndexRange < IndexRange
      BY AccReaderAssumption
    <2> QED
      BY <1>4, <1>9, <2>1
  <1>11. Endless({x}) => Endless(Items(u \o <<y>>))
    BY <1>1, <1>8, <1>9, <1>10 DEF Endless
  <1> QED
    BY <1>1, <1>2, <1>8, <1>11, EndlessKept DEF x

LEMMA ItemOverlongInv ==
  ASSUME Body(type, todo, sizes, members, heap), OverlongInv, ParseItem
  PROVE  OverlongInv'
  <1>1. /\ receiving = "parse" /\ receiving' = receiving /\ todo # <<>>
    BY DEF ParseItem, ReadScalar, ReadReplayFlag, ReadString, ReadArray, NextElement,
           EndOfArray, FinishLap, At
  <1>2. WellFormed(type, todo, sizes, members) /\ \A p \in DOMAIN sizes : sizes[p] \in Nat
    BY DEF Body, WellFormed
  <1>3. ItemOK(Head(todo), type, sizes) /\ IsSeq(<<>>)
    BY <1>1, <1>2, HeadOK
  <1>4. SUFFICES ASSUME Overlong' PROVE Endless(Items(todo'))
    BY <1>1 DEF OverlongInv
  <1>5. CASE ReadScalar \/ ReadString \/ ReadReplayFlag
    <2>1. /\ Head(todo).kind # "loop" /\ sizes' = sizes
          /\ \E N \in {<<>>, ReplayTimes} : todo' = N \o Tail(todo)
      BY <1>5 DEF ReadScalar, ReadString, ReadReplayFlag, At, Item, ContinueWith, Width
    <2>2. PICK N \in {<<>>, ReplayTimes} : todo' = N \o Tail(todo)
      BY <2>1
    <2>3. IsSeq(N)
      BY <1>3, ReplayItems DEF Top, Contents
    <2>4. Endless(Items(todo))
      BY <1>1, <1>4, <2>1 DEF OverlongInv, Overlong
    <2>5. ~Endless({Head(todo)})
      BY <2>1 DEF Endless
    <2> QED
      BY <1>1, <1>2, <2>2, <2>3, <2>4, <2>5, EndlessKept
  <1>6. CASE ReadArray
    <2> DEFINE path == Head(todo).path
    <2>1. Head(todo).kind = "array"
      BY <1>6 DEF ReadArray, At, Item
    <2>2. PICK n \in CountsOf(Head(todo).count) :
            /\ sizes' = [p \in DOMAIN sizes \cup {path} |-> IF p = path THEN n ELSE sizes[p]]
            /\ todo' = <<[path |-> path, kind |-> "loop", element |-> Head(todo).element,
                          index |-> 0, size |-> n]>> \o Tail(todo)
      BY <1>6 DEF ReadArray, ContinueWith, Item
    <2> DEFINE l == [path |-> path, kind |-> "loop", element |-> Head(todo).element,
                     index |-> 0, size |-> n]
    <2>3. l.kind = "loop" /\ l.size = n /\ l.index = 0 /\ todo' = <<l>> \o Tail(todo)
      BY <2>2
    <2> HIDE DEF l, path
    <2>4. IsSeq(<<l>>) /\ Items(<<l>>) = {l}
      BY Tuples
    <2>5. PICK q \in DOMAIN sizes' : sizes'[q] >= IndexRange
      BY <1>4 DEF Overlong
    <2>6. CASE q = path
      <3>1. n >= IndexRange
        BY <2>2, <2>5, <2>6
      <3>2. Endless(Items(<<l>>))
        BY <2>3, <2>4, <3>1, AccReaderAssumption DEF Endless
      <3>3. IsSeq(Tail(todo))
        BY <1>1, <1>2, HeadOK
      <3>4. Items(todo') = Items(<<l>>) \cup Items(Tail(todo))
        BY <2>3, <2>4, <3>3, Joined
      <3> QED
        BY <3>2, <3>4 DEF Endless
    <2>7. CASE q # path
      <3>1. q \in DOMAIN sizes /\ sizes[q] >= IndexRange
        BY <2>2, <2>5, <2>7
      <3>2. Endless(Items(todo))
        BY <1>1, <3>1 DEF OverlongInv, Overlong
      <3>3. ~Endless({Head(todo)})
        BY <2>1 DEF Endless
      <3> QED
        BY <1>1, <1>2, <2>3, <2>4, <3>2, <3>3, EndlessKept
    <2> QED
      BY <2>6, <2>7
  <1>7. CASE NextElement
    <2>1. Overlong
      BY <1>4, <1>7 DEF NextElement, Overlong
    <2> QED
      BY <1>1, <1>7, <2>1, NextElementEndless DEF OverlongInv
  <1>8. CASE EndOfArray
    <2>1. /\ Head(todo).index >= Head(todo).size /\ Head(todo).kind = "loop"
          /\ todo' = <<>> \o Tail(todo) /\ sizes' = sizes
      BY <1>8 DEF EndOfArray, At, Item, ContinueWith
    <2>2. Head(todo).size \in Nat /\ Head(todo).index \in Nat
      BY <1>3, <2>1 DEF ItemOK
    <2>3. ~Endless({Head(todo)})
      BY <2>1, <2>2, AccReaderAssumption DEF Endless
    <2>4. Endless(Items(todo))
      BY <1>1, <1>4, <2>1 DEF OverlongInv, Overlong
    <2> QED
      BY <1>1, <1>2, <1>3, <2>1, <2>3, <2>4, EndlessKept
  <1>9. CASE FinishLap
    <2> DEFINE splits == SplitsOf(Head(todo))
    <2>1. /\ Head(todo).kind = "lap_type" /\ todo' = <<>> \o Tail(todo)
          /\ sizes' = IF sizes[splits] < 3 THEN [sizes EXCEPT ![splits] = 3] ELSE sizes
      BY <1>9 DEF FinishLap, At, Item, ContinueWith, SplitsOf
    <2> HIDE DEF splits
    <2>2. Overlong
      BY <1>2, <1>4, <2>1, AccReaderAssumption DEF Overlong
    <2>3. Endless(Items(todo))
      BY <1>1, <2>2 DEF OverlongInv
    <2>4. ~Endless({Head(todo)})
      BY <2>1 DEF Endless
    <2> QED
      BY <1>1, <1>2, <1>3, <2>1, <2>3, <2>4, EndlessKept
  <1> QED
    BY <1>5, <1>6, <1>7, <1>8, <1>9 DEF ParseItem

LEMMA StepOverlongInv ==
  ResponseInv /\ OverlongInv /\ [ReaderNext]_readerVars => OverlongInv'
  <1> SUFFICES ASSUME ResponseInv, OverlongInv, [ReaderNext]_readerVars PROVE OverlongInv'
    OBVIOUS
  <1>1. CASE ParseItem
    <2>1. receiving = "parse"
      BY <1>1 DEF ParseItem, ReadScalar, ReadReplayFlag, ReadString, ReadArray, NextElement,
                  EndOfArray, FinishLap, At
    <2>2. Body(type, todo, sizes, members, heap)
      BY <2>1 DEF ResponseInv
    <2> QED
      BY <1>1, <2>2, ItemOverlongInv
  <1>2. CASE ParseCrashes
    BY <1>2 DEF ParseCrashes, response, OverlongInv, Overlong
  <1>3. CASE ParseReturns
    <2>1. receiving = "parse" /\ todo = <<>> /\ sizes' = sizes
      BY <1>3 DEF ParseReturns
    <2>2. ~Overlong
      BY <2>1, Tuples DEF OverlongInv, Endless
    <2> QED
      BY <2>1, <2>2 DEF OverlongInv, Overlong
  <1>4. CASE ParseRejects \/ AccServerResponseFree
    BY <1>4 DEF ParseRejects, AccServerResponseFree, DropResponse, NoSizes, OverlongInv, Overlong
  <1>5. ASSUME NEW n \in Received, NEW t \in Types, Receive(n, t) PROVE OverlongInv'
    BY <1>5 DEF Receive, ResponseInv, OverlongInv, Overlong
  <1>6. CASE (\E t \in Types : ReceiveNoMemory(t)) \/ ReceiveUnknown
    BY <1>6 DEF ReceiveNoMemory, ReceiveUnknown, parse, OverlongInv, Overlong
  <1>7. CASE UNCHANGED readerVars
    BY <1>7 DEF readerVars, response, parse, OverlongInv, Overlong
  <1> QED
    BY <1>1, <1>2, <1>3, <1>4, <1>5, <1>6, <1>7 DEF ReaderNext, ParseStep, ReaderCall

LEMMA OverlongStays ==
  ASSUME OverlongInv, [ReaderNext]_readerVars, receiving = "parse", Overlong
  PROVE  receiving' # "idle"
  <1>1. todo # <<>>
    BY Tuples DEF OverlongInv, Endless
  <1>2. CASE ParseItem
    BY <1>2 DEF ParseItem
  <1>3. CASE ParseCrashes
    BY <1>3 DEF ParseCrashes
  <1>4. CASE UNCHANGED readerVars
    BY <1>4 DEF readerVars, parse
  <1> QED
    BY <1>1, <1>2, <1>3, <1>4
    DEF ReaderNext, ParseStep, ReaderCall, ParseReturns, ParseRejects, Receive,
        ReceiveNoMemory, ReceiveUnknown, AccServerResponseFree

(***************************************************************************)
(* The call that reads an entry list longer than its loop index can count  *)
(* does not return, for any sizes of datagrams, buffer and stack.          *)
(***************************************************************************)
THEOREM OverlongNeverReturns == ReaderSpec => OverlongDoesNotReturn
  <1>1. ReaderInit => OverlongInv
    BY DEF ReaderInit, NoSizes, OverlongInv, Overlong
  <1>2. ASSUME OverlongInv, [ReaderNext]_readerVars
        PROVE  [receiving = "parse" /\ Overlong => receiving' # "idle"]_readerVars
    BY <1>2, OverlongStays
  <1> QED
    BY <1>1, <1>2, StepOverlongInv, ResponseInvariance, PTL DEF ReaderSpec, OverlongDoesNotReturn
=============================================================================
