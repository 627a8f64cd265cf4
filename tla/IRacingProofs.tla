--------------------------- MODULE IRacingProofs ----------------------------
(***************************************************************************)
(* Proofs about IRacingClient and the reads of IRacingReader under it, for *)
(* any number of buffers, any sets of words, variables and handles, and    *)
(* however long the simulator runs.                                        *)
(***************************************************************************)
EXTENDS IRacingClient, WellFoundedInduction, TLAPS

-----------------------------------------------------------------------------
(***************************************************************************)
(* Lemmas about the operators that choose among the buffers.               *)
(***************************************************************************)

\* A set of natural numbers that is not empty has a least element.
LEMMA LeastExists ==
  ASSUME NEW S \in SUBSET Nat, S # {}
  PROVE  \E n \in S : \A m \in S : n <= m
  <1>1. PICK n \in S : \A m \in S : ~(<<m, n>> \in OpToRel(<, Nat))
    BY NatLessThanWellFounded, WFMin
  <1>2. \A m \in S : ~(m < n)
    BY <1>1 DEF OpToRel
  <1> QED
    BY <1>2

\* iracing_get_latest_tick returns a buffer with the highest tick.
LEMMA LatestTickIsHighest ==
  ASSUME NEW ticks \in [Buffers -> Nat], NEW p \in Nat, \A b \in Buffers : ticks[b] <= p
  PROVE  /\ LatestTick(ticks) \in Buffers
         /\ \A b \in Buffers : ticks[b] <= ticks[LatestTick(ticks)]
  <1> USE IRacingAssumption DEF IRacingAssumption, Buffers
  <1> DEFINE Gaps    == {p - ticks[b] : b \in Buffers}
             Highest == {b \in Buffers : \A c \in Buffers : ticks[c] <= ticks[b]}
  <1>1. Highest # {}
    <2>1. Gaps \in SUBSET Nat /\ Gaps # {}
      <3>1. 0 \in Buffers
        OBVIOUS
      <3> QED
        BY <3>1
    <2>2. PICK n \in Gaps : \A m \in Gaps : n <= m
      BY <2>1, LeastExists
    <2>3. PICK b \in Buffers : n = p - ticks[b]
      BY <2>2
    <2>4. ASSUME NEW c \in Buffers PROVE ticks[c] <= ticks[b]
      <3>1. p - ticks[c] \in Gaps
        OBVIOUS
      <3>2. p - ticks[b] <= p - ticks[c]
        BY <2>2, <2>3, <3>1
      <3> QED
        BY <3>2
    <2> QED
      BY <2>4
  <1>2. Highest \in SUBSET Nat
    OBVIOUS
  <1>3. PICK b \in Highest : \A c \in Highest : b <= c
    BY <1>1, <1>2, LeastExists
  <1>4. \A c \in 0 .. b - 1 : ticks[c] < ticks[b]
    <2>1. ASSUME NEW c \in 0 .. b - 1, ~(ticks[c] < ticks[b]) PROVE FALSE
      <3>1. c \in Buffers /\ c < b
        BY <1>3
      <3>2. \A d \in Buffers : ticks[d] <= ticks[c]
        BY <1>3, <2>1, <3>1
      <3> QED
        BY <1>3, <3>1, <3>2
    <2> QED
      BY <2>1
  <1>5. \E x \in Buffers : /\ \A c \in Buffers : ticks[c] <= ticks[x]
                           /\ \A c \in 0 .. x - 1 : ticks[c] < ticks[x]
    BY <1>3, <1>4
  <1> QED
    BY <1>5 DEF LatestTick

\* The latest tick is the one that is highest.
LEMMA PublishedIs ==
  ASSUME NEW ticks \in [Buffers -> Nat], NEW c \in Buffers,
         \A b \in Buffers : ticks[b] <= ticks[c]
  PROVE  (CHOOSE t \in {ticks[b] : b \in Buffers} : \A b \in Buffers : ticks[b] <= t) = ticks[c]
  <1> DEFINE T == {ticks[b] : b \in Buffers}
             P == CHOOSE t \in T : \A b \in Buffers : ticks[b] <= t
  <1>1. P \in T /\ \A b \in Buffers : ticks[b] <= P
    <2>1. \E t \in T : \A b \in Buffers : ticks[b] <= t
      OBVIOUS
    <2> QED
      BY <2>1
  <1> QED
    BY <1>1
-----------------------------------------------------------------------------
(***************************************************************************)
(* The inductive invariant of the reads.  The buffers hold the last N      *)
(* ticks, one each, and the one that is written is the oldest of them; so  *)
(* a buffer's tick only ever advances by N.                                *)
(***************************************************************************)
TickInv ==
    /\ Published \in Nat
    /\ \A b \in Buffers : tick[b] \in Published - N + 1 .. Published
    /\ \A t \in Published - N + 1 .. Published : \E b \in Buffers : tick[b] = t
    /\ \A b, c \in Buffers : tick[b] = tick[c] => b = c
    /\ target # NoBuffer => tick[target] = Published - N + 1
    /\ target = NoBuffer => unwritten = {}

\* Every word is of its buffer's tick, or has been written for the next one.
RowInv ==
    \A b \in Buffers, w \in Words :
        row[b][w] = IF b = target /\ w \notin unwritten THEN Published + 1 ELSE tick[b]

TextInv == \A w \in Words : text[w] \in {version, version + 1}

\* The ticks of a header that has been copied are those of the memory, or at
\* least one turn of the buffers behind.
Copied(f) == call # "start" /\ (call = "header" => f \notin uncopied)

\* A buffer whose tick, and whose tick in the header once it has been copied,
\* is no older than the header read.
RecentBuffer(b) == tick[b] >= begun /\ (Copied(<<"tick", b>>) => header.tick[b] >= begun)

HeaderInv ==
    /\ \A b \in Buffers : header.tick[b] <= tick[b]
    /\ \A b \in Buffers :
        Copied(<<"tick", b>>) =>
            header.tick[b] = tick[b] \/ header.tick[b] + N <= tick[b]
    /\ header.version <= version
    /\ call = "header" => \E b \in Buffers : RecentBuffer(b)

MemoryInv == TypeOK /\ TickInv /\ RowInv /\ TextInv

ReadInv ==
    MemoryInv /\ HeaderInv /\ FreshValueIsWhole /\ ValueIsNotOlder /\ TextIsNotOlder

\* What the simulator does to ticks and versions that have been copied.
Advances ==
    /\ \A b \in Buffers : tick'[b] = tick[b] \/ tick[b] + N <= tick'[b]
    /\ Published <= Published' /\ InProgress <= InProgress'
    /\ version <= version'

USE IRacingAssumption DEF IRacingAssumption, NoBuffer

LEMMA PublishedInNat == TickInv /\ TypeOK => InProgress \in Nat /\ Published \in Nat
  BY DEF TickInv, InProgress

-----------------------------------------------------------------------------
LEMMA ReadInit == Init => ReadInv /\ call = "start"
  <1> SUFFICES ASSUME Init PROVE ReadInv
    BY DEF Init
  <1> USE DEF Init
  <1>1. TypeOK
    BY DEF TypeOK, Buffers
  <1>2. Published = N - 1
    <2>1. N - 1 \in Buffers /\ \A b \in Buffers : tick[b] <= tick[N - 1]
      BY DEF Buffers
    <2>2. tick \in [Buffers -> Nat] /\ tick[N - 1] = N - 1
      BY <2>1 DEF Buffers
    <2> QED
      BY <2>1, <2>2, PublishedIs DEF Published
  <1>3. TickInv
    BY <1>2 DEF TickInv, Buffers
  <1>4. RowInv /\ TextInv
    BY DEF RowInv, TextInv, Buffers
  <1>5. HeaderInv
    BY DEF HeaderInv, Copied, Buffers
  <1> QED
    BY <1>1, <1>3, <1>4, <1>5
    DEF ReadInv, MemoryInv, FreshValueIsWhole, ValueIsNotOlder, TextIsNotOlder

(***************************************************************************)
(* The steps of the simulator.                                             *)
(***************************************************************************)
\* A step that publishes no tick.
LEMMA SameTicks ==
  ASSUME tick' = tick
  PROVE  Published' = Published
  BY DEF Published

LEMMA SimBeginStep ==
  ASSUME MemoryInv, SimBegin
  PROVE  MemoryInv' /\ Advances
  <1> USE DEF MemoryInv, SimBegin, reader
  <1>1. Published' = Published
    BY SameTicks
  <1>2. TypeOK'
    BY DEF TypeOK
  <1>3. target' \in Buffers /\ tick[target'] = Published - N + 1
    <2>1. PICK b \in Buffers : tick[b] = Published - N + 1
      BY DEF TickInv
    <2>2. tick[target'] <= tick[b] /\ target' \in Buffers
      BY <2>1
    <2>3. tick[target'] \in Published - N + 1 .. Published
      BY <2>2 DEF TickInv
    <2> QED
      BY <2>1, <2>2, <2>3 DEF TickInv
  <1>4. TickInv'
    BY <1>1, <1>3 DEF TickInv, Buffers
  <1>5. RowInv'
    BY <1>1 DEF RowInv, TickInv, Buffers
  <1>6. TextInv' /\ Advances
    BY <1>1, <1>2 DEF TextInv, Advances, InProgress, TypeOK, TickInv
  <1> QED
    BY <1>2, <1>4, <1>5, <1>6

LEMMA SimWriteStep ==
  ASSUME MemoryInv, NEW w \in Words, SimWrite(w)
  PROVE  MemoryInv' /\ Advances
  <1> USE DEF MemoryInv, SimWrite, reader
  <1>1. Published' = Published
    BY SameTicks
  <1>2. target # NoBuffer /\ InProgress = Published + 1
    BY DEF TickInv, InProgress
  <1>3. target \in Buffers /\ Published \in Nat
    BY <1>2 DEF TypeOK, TickInv
  <1>4. TypeOK'
    BY <1>2, <1>3 DEF TypeOK
  <1>5. TickInv'
    BY <1>1, <1>2 DEF TickInv
  <1>6. \A b \in Buffers, v \in Words :
           row'[b][v] = IF b = target /\ v = w THEN Published + 1 ELSE row[b][v]
    BY <1>2, <1>3 DEF TypeOK
  <1>7. RowInv'
    BY <1>1, <1>6 DEF RowInv
  <1>8. TextInv' /\ Advances
    BY <1>1, <1>4 DEF TextInv, Advances, InProgress, TypeOK, TickInv
  <1> QED
    BY <1>4, <1>5, <1>7, <1>8

\* The tick that is published is the next one, in place of the oldest.
LEMMA SimPublishStep ==
  ASSUME MemoryInv, SimPublish
  PROVE  MemoryInv' /\ Advances
  <1> USE DEF MemoryInv, SimPublish, reader
  <1> DEFINE p == Published
  <1>1. /\ target \in Buffers /\ p \in Nat /\ InProgress = p + 1
        /\ tick[target] = p - N + 1 /\ p - N + 1 \in Nat
    BY DEF TypeOK, TickInv, InProgress
  <1>2. /\ tick' \in [Buffers -> Nat] /\ tick'[target] = p + 1
        /\ \A b \in Buffers \ {target} : tick'[b] = tick[b]
    BY <1>1 DEF TypeOK
  <1>3. \A b \in Buffers \ {target} : tick[b] \in p - N + 2 .. p
    <2>1. ASSUME NEW b \in Buffers \ {target} PROVE tick[b] \in p - N + 2 .. p
      <3>1. tick[b] \in p - N + 1 .. p /\ tick[b] # tick[target]
        BY <1>1 DEF TickInv
      <3> QED
        BY <1>1, <3>1
    <2> QED
      BY <2>1
  <1>4. Published' = p + 1
    <2>1. \A b \in Buffers : tick'[b] <= tick'[target]
      BY <1>1, <1>2, <1>3
    <2>2. (CHOOSE t \in {tick'[b] : b \in Buffers} : \A b \in Buffers : tick'[b] <= t)
            = tick'[target]
      BY ONLY <1>1, <1>2, <2>1, PublishedIs
    <2> QED
      BY <1>2, <2>2 DEF Published
  <1>5. TypeOK'
    BY <1>1, <1>2 DEF TypeOK
  <1>6. TickInv'
    <2>1. \A b \in Buffers : tick'[b] \in p - N + 2 .. p + 1
      BY <1>1, <1>2, <1>3
    <2>2. ASSUME NEW t \in p - N + 2 .. p + 1 PROVE \E b \in Buffers : tick'[b] = t
      <3>1. CASE t = p + 1
        BY <1>1, <1>2, <3>1
      <3>2. CASE t # p + 1
        <4>1. PICK b \in Buffers : tick[b] = t
          BY <1>1, <3>2 DEF TickInv
        <4>2. b # target
          BY <1>1, <4>1
        <4> QED
          BY <1>2, <4>1, <4>2
      <3> QED
        BY <3>1, <3>2
    <2>3. \A b, c \in Buffers : tick'[b] = tick'[c] => b = c
      <3>1. \A b, c \in Buffers : tick[b] = tick[c] => b = c
        BY DEF TickInv
      <3> QED
        BY <1>1, <1>2, <1>3, <3>1
    <2> QED
      BY <1>1, <1>4, <2>1, <2>2, <2>3 DEF TickInv
  <1>7. RowInv'
    <2>1. ASSUME NEW b \in Buffers, NEW w \in Words PROVE row'[b][w] = tick'[b]
      <3>1. row[b][w] = IF b = target THEN p + 1 ELSE tick[b]
        BY DEF RowInv
      <3> QED
        BY <1>2, <3>1
    <2> QED
      BY <2>1 DEF RowInv, Buffers
  <1>8. TextInv' /\ Advances
    BY <1>1, <1>2, <1>4 DEF TextInv, Advances, InProgress, TypeOK
  <1> QED
    BY <1>5, <1>6, <1>7, <1>8

LEMMA SimTextStep ==
  ASSUME MemoryInv, (\E w \in Words : SimWriteText(w)) \/ SimPublishText
  PROVE  MemoryInv' /\ Advances
  <1> USE DEF MemoryInv, SimWriteText, SimPublishText, reader
  <1>1. UNCHANGED <<tick, row, target, unwritten, reader>>
    OBVIOUS
  <1>2. Published' = Published /\ InProgress' = InProgress
    BY <1>1, SameTicks DEF InProgress
  <1>3. TypeOK' /\ TextInv' /\ version <= version'
    BY <1>1 DEF TypeOK, TextInv
  <1>4. TickInv' /\ RowInv'
    BY <1>1, <1>2 DEF TickInv, RowInv
  <1>5. Advances
    BY <1>1, <1>2, <1>3, PublishedInNat DEF Advances
  <1> QED
    BY <1>3, <1>4, <1>5

\* Whatever the simulator does, what has been copied stays true of the memory.
LEMMA SimulatorStep ==
  ASSUME ReadInv, Simulator
  PROVE  ReadInv'
  <1>1. MemoryInv /\ UNCHANGED reader
    BY DEF ReadInv, Simulator, SimBegin, SimWrite, SimPublish, SimWriteText, SimPublishText
  <1>2. MemoryInv' /\ Advances
    BY <1>1, SimBeginStep, SimWriteStep, SimPublishStep, SimTextStep DEF Simulator
  <1>3. TypeOK /\ TypeOK' /\ InProgress \in Nat /\ InProgress' \in Nat
    <2>1. Published \in Nat /\ Published' \in Nat
      BY <1>1, <1>2 DEF MemoryInv, TickInv, Published
    <2> QED
      BY <1>1, <1>2, <2>1 DEF MemoryInv, InProgress, Published
  <1>4. HeaderInv'
    <2>1. /\ header' = header /\ header.tick \in [Buffers -> Nat] /\ header.version \in Nat
          /\ version' \in Nat /\ version \in Nat
          /\ call' = call /\ uncopied' = uncopied /\ begun' = begun /\ begun \in Nat
      BY <1>1, <1>3 DEF TypeOK, reader
    <2>2. \A b \in Buffers : /\ tick[b] \in Nat /\ tick'[b] \in Nat /\ tick[b] <= tick'[b]
                             /\ tick'[b] = tick[b] \/ tick[b] + N <= tick'[b]
      BY <1>2, <1>3 DEF TypeOK, Advances
    <2>3. \A b \in Buffers : header'.tick[b] <= tick'[b]
      BY <2>1, <2>2 DEF ReadInv, HeaderInv
    <2>4. ASSUME NEW b \in Buffers, Copied(<<"tick", b>>)'
          PROVE  header'.tick[b] = tick'[b] \/ header'.tick[b] + N <= tick'[b]
      <3>1. header.tick[b] = tick[b] \/ header.tick[b] + N <= tick[b]
        BY <2>1, <2>4 DEF ReadInv, HeaderInv, Copied
      <3> QED
        BY <2>1, <2>2, <3>1
    <2>5. header'.version <= version'
      BY <1>2, <2>1 DEF ReadInv, HeaderInv, Advances
    <2>6. ASSUME call' = "header" PROVE \E b \in Buffers : RecentBuffer(b)'
      <3>1. PICK b \in Buffers : RecentBuffer(b)
        BY <2>1, <2>6 DEF ReadInv, HeaderInv
      <3>2. RecentBuffer(b)'
        BY <2>1, <2>2, <3>1 DEF RecentBuffer, Copied
      <3> QED
        BY <3>2
    <2> QED
      BY <2>3, <2>4, <2>5, <2>6 DEF HeaderInv
  <1>5. Label' = Label
    BY <1>1 DEF Label, Index, reader
  <1>6. Label \in Nat
    <2>1. header.tick \in [Buffers -> Nat] /\ \A b \in Buffers : header.tick[b] <= Published
      BY <1>1, <1>3 DEF ReadInv, HeaderInv, MemoryInv, TickInv, TypeOK
    <2> QED
      BY <1>1, <2>1, LatestTickIsHighest DEF Label, Index, MemoryInv, TickInv
  <1>7. FreshValueIsWhole' /\ ValueIsNotOlder'
    BY <1>1, <1>2, <1>3, <1>5, <1>6
    DEF ReadInv, FreshValueIsWhole, ValueIsNotOlder, Advances, TypeOK, reader
  <1>8. TextIsNotOlder'
    BY <1>1 DEF ReadInv, TextIsNotOlder, reader
  <1> QED
    BY <1>2, <1>4, <1>7, <1>8 DEF ReadInv

(***************************************************************************)
(* The steps of the reader.                                                *)
(***************************************************************************)
\* The buffer that is read is the one with the highest tick in the header.
LEMMA LabelIsHighest ==
  ASSUME MemoryInv, HeaderInv
  PROVE  /\ Index \in Buffers /\ Label \in Nat /\ Label <= Published
         /\ \A b \in Buffers : header.tick[b] <= Label
  <1>1. /\ header.tick \in [Buffers -> Nat] /\ Published \in Nat
        /\ \A b \in Buffers : header.tick[b] <= Published
    BY DEF HeaderInv, MemoryInv, TickInv, TypeOK
  <1> QED
    BY <1>1, LatestTickIsHighest DEF Label, Index

\* A step of the reader leaves the memory alone.
LEMMA MemoryUnchanged ==
  ASSUME MemoryInv, UNCHANGED memory, TypeOK'
  PROVE  MemoryInv' /\ Published' = Published /\ InProgress' = InProgress
  <1>1. Published' = Published
    BY SameTicks DEF memory
  <1>2. InProgress' = InProgress
    BY <1>1 DEF InProgress, Published, memory
  <1>3. TickInv' /\ RowInv' /\ TextInv'
    BY <1>1 DEF MemoryInv, TickInv, RowInv, TextInv, Published, memory
  <1> QED
    BY <1>1, <1>2, <1>3 DEF MemoryInv

LEMMA ReadHeaderStep == ASSUME ReadInv, ReadHeader PROVE ReadInv'
  <1> USE DEF ReadHeader
  <1>1. MemoryInv /\ HeaderInv /\ TypeOK /\ TickInv
    BY DEF ReadInv, MemoryInv
  <1>2. TypeOK'
    BY <1>1 DEF TypeOK, TickInv, memory
  <1>3. HeaderInv'
    <2>1. \A b \in Buffers : ~Copied(<<"tick", b>>)'
      BY DEF Copied, Fields
    <2>2. PICK b \in Buffers : tick[b] = Published
      BY <1>1 DEF TickInv
    <2>3. RecentBuffer(b)'
      BY <1>1, <2>1, <2>2 DEF RecentBuffer, TickInv, memory
    <2> QED
      BY <1>1, <2>1, <2>3 DEF HeaderInv, memory
  <1> QED
    BY <1>1, <1>2, <1>3, MemoryUnchanged
    DEF ReadInv, FreshValueIsWhole, ValueIsNotOlder, TextIsNotOlder

LEMMA CopyHeaderStep == ASSUME ReadInv, NEW f \in Fields, CopyHeader(f) PROVE ReadInv'
  <1> USE DEF CopyHeader
  <1>1. MemoryInv /\ HeaderInv /\ TypeOK
    BY DEF ReadInv, MemoryInv
  <1>2. TypeOK' /\ header'.version <= version'
    <2>1. CASE f[1] = "tick"
      BY <1>1, <2>1 DEF TypeOK, HeaderInv, memory
    <2>2. CASE f[1] # "tick"
      BY <1>1, <2>2 DEF TypeOK, HeaderInv, memory
    <2> QED
      BY <2>1, <2>2
  <1>3. \A b \in Buffers :
           header'.tick[b] = IF f = <<"tick", b>> THEN tick[b] ELSE header.tick[b]
    BY <1>1 DEF TypeOK, Fields
  <1>4. \A b \in Buffers :
           Copied(<<"tick", b>>)' => f = <<"tick", b>> \/ Copied(<<"tick", b>>)
    BY DEF Copied
  <1>5. \A b \in Buffers :
           /\ header'.tick[b] <= tick'[b]
           /\ Copied(<<"tick", b>>)' =>
                 header'.tick[b] = tick'[b] \/ header'.tick[b] + N <= tick'[b]
    <2>1. ASSUME NEW b \in Buffers
          PROVE  /\ header'.tick[b] <= tick'[b]
                 /\ Copied(<<"tick", b>>)' =>
                       header'.tick[b] = tick'[b] \/ header'.tick[b] + N <= tick'[b]
      <3>1. /\ tick'[b] = tick[b] /\ tick[b] \in Nat
            /\ header.tick[b] \in Nat /\ header.tick[b] <= tick[b]
            /\ Copied(<<"tick", b>>) =>
                  header.tick[b] = tick[b] \/ header.tick[b] + N <= tick[b]
        BY <1>1 DEF HeaderInv, TypeOK, memory
      <3>2. CASE f = <<"tick", b>>
        BY <1>3, <3>1, <3>2
      <3>3. CASE f # <<"tick", b>>
        <4>1. header'.tick[b] = header.tick[b]
          BY <1>3, <3>3
        <4>2. Copied(<<"tick", b>>)' => Copied(<<"tick", b>>)
          BY <3>3 DEF Copied
        <4> QED
          BY <3>1, <4>1, <4>2
      <3> QED
        BY <3>2, <3>3
    <2> QED
      BY <2>1
  <1>6. \E b \in Buffers : RecentBuffer(b)'
    <2>1. PICK b \in Buffers : RecentBuffer(b)
      BY <1>1 DEF HeaderInv
    <2>2. RecentBuffer(b)'
      BY <1>3, <1>4, <2>1 DEF RecentBuffer, memory
    <2> QED
      BY <2>2
  <1>7. HeaderInv'
    BY <1>2, <1>5, <1>6 DEF HeaderInv
  <1> QED
    BY <1>1, <1>2, <1>7, MemoryUnchanged
    DEF ReadInv, FreshValueIsWhole, ValueIsNotOlder, TextIsNotOlder

\* What is known of the header while nothing copies it.
LEMMA HeaderKept ==
  ASSUME HeaderInv, UNCHANGED <<tick, version, header>>,
         call \notin {"start", "header"}, call' # "header"
  PROVE  HeaderInv'
  BY DEF HeaderInv, Copied

LEMMA ReadStep ==
  ASSUME ReadInv,
         \/ \E v \in Variables : ReadInfo(v)
         \/ ReadInfoBeyond
         \/ \E what \in {"session", "value"} : Read(what)
  PROVE  ReadInv'
  <1>1. MemoryInv /\ HeaderInv /\ TypeOK
    BY DEF ReadInv, MemoryInv
  <1>2. /\ UNCHANGED <<memory, header, result, begun>> /\ call = "idle"
        /\ call' = "idle" \/ (call' = "session" /\ uncopied' = Words)
                           \/ (call' = "value" /\ uncopied' = info /\ info' = info)
    BY DEF ReadInfo, ReadInfoBeyond, Read, WordsOf
  <1>3. TypeOK'
    <2>1. info' \in Variables \cup {{}}
      BY <1>1 DEF ReadInfo, ReadInfoBeyond, Read, TypeOK
    <2>2. uncopied' \subseteq Words /\ call' \in {"idle", "session", "value"}
      BY <1>1 DEF ReadInfo, ReadInfoBeyond, Read, WordsOf, TypeOK
    <2>3. lastError' \in {"none", "ALLOCATION_FAILED"} \cup SysCalls
      BY <1>1 DEF ReadInfo, ReadInfoBeyond, Read, TypeOK
    <2> QED
      BY <1>1, <1>2, <2>1, <2>2, <2>3 DEF TypeOK, memory
  <1>4. HeaderInv'
    BY <1>1, <1>2, HeaderKept DEF memory
  <1> QED
    BY <1>1, <1>2, <1>3, <1>4, MemoryUnchanged
    DEF ReadInv, FreshValueIsWhole, ValueIsNotOlder, TextIsNotOlder

LEMMA CopySessionStep == ASSUME ReadInv, NEW w \in Words, CopySession(w) PROVE ReadInv'
  <1> USE DEF CopySession
  <1>1. MemoryInv /\ HeaderInv /\ TypeOK
    BY DEF ReadInv, MemoryInv
  <1>2. text[w] \in Nat /\ text[w] >= header.version
    BY <1>1 DEF MemoryInv, TextInv, HeaderInv, TypeOK
  <1>3. TypeOK'
    BY <1>1, <1>2 DEF TypeOK, memory
  <1>4. HeaderInv'
    BY <1>1, HeaderKept DEF memory
  <1>5. TextIsNotOlder'
    BY <1>1, <1>2 DEF ReadInv, TextIsNotOlder, TypeOK, memory
  <1> QED
    BY <1>1, <1>3, <1>4, <1>5, MemoryUnchanged DEF ReadInv, FreshValueIsWhole, ValueIsNotOlder

\* A word is copied from the buffer whose tick, in the header, was highest.  Its
\* tick in memory is either still that one, or N later; then the simulator has
\* gone as far.
LEMMA CopyValueStep == ASSUME ReadInv, NEW w \in Words, CopyValue(w) PROVE ReadInv'
  <1> USE DEF CopyValue
  <1>1. MemoryInv /\ HeaderInv /\ TypeOK /\ TickInv
    BY DEF ReadInv, MemoryInv
  <1> DEFINE x == row[Index][w]
  <1>2. Index \in Buffers /\ Label \in Nat
    BY <1>1, LabelIsHighest
  <1>3. TypeOK'
    BY <1>1, <1>2 DEF TypeOK, memory
  <1>4. MemoryInv' /\ InProgress' = InProgress
    BY <1>1, <1>3, MemoryUnchanged
  <1>5. HeaderInv'
    BY <1>1, HeaderKept DEF memory
  <1>6. Label' = Label
    BY DEF Label, Index
  <1>7. /\ Published \in Nat /\ InProgress \in Nat /\ tick[Index] \in Nat
        /\ Published <= InProgress /\ tick[Index] <= Published
        /\ tick[Index] = Label \/ Label + N <= tick[Index]
    BY <1>1, <1>2 DEF TickInv, HeaderInv, Copied, InProgress, Label, TypeOK
  <1>8. /\ x = tick[Index] \/ (x = Published + 1 /\ target = Index)
        /\ target = Index => InProgress = Published + 1 /\ tick[Index] = Published - N + 1
    BY <1>1, <1>2 DEF MemoryInv, RowInv, TickInv, InProgress, Buffers
  <1>9. x \in Label .. InProgress /\ (InProgress < Label + N => x = Label)
    BY <1>2, <1>7, <1>8
  <1>10. \A v \in info \ uncopied' :
            /\ result'[v] = IF v = w THEN x ELSE result[v]
            /\ v # w => v \in info \ uncopied
    <2>1. info \subseteq Words
      BY <1>1 DEF TypeOK
    <2> QED
      BY <1>1, <2>1 DEF TypeOK
  <1>11. FreshValueIsWhole' /\ ValueIsNotOlder'
    BY <1>4, <1>6, <1>9, <1>10 DEF ReadInv, FreshValueIsWhole, ValueIsNotOlder
  <1> QED
    BY <1>4, <1>5, <1>11 DEF ReadInv, TextIsNotOlder

LEMMA ReturnStep == ASSUME ReadInv, Return PROVE ReadInv'
  <1> USE DEF Return
  <1>1. MemoryInv /\ HeaderInv /\ TypeOK
    BY DEF ReadInv, MemoryInv
  <1>2. TypeOK'
    BY <1>1 DEF TypeOK, memory
  <1>3. HeaderInv'
    BY <1>1 DEF HeaderInv, Copied, memory
  <1> QED
    BY <1>1, <1>2, <1>3, MemoryUnchanged
    DEF ReadInv, FreshValueIsWhole, ValueIsNotOlder, TextIsNotOlder

LEMMA ReaderStep == ReadInv /\ Reader => ReadInv'
  BY ReadHeaderStep, CopyHeaderStep, ReadStep, CopySessionStep, CopyValueStep, ReturnStep
  DEF Reader

\* The header read is complete and its latest tick recent: what the reads of a
\* header promise follows from the invariant.
LEMMA ReadInvIsEnough == ReadInv => HeaderIsRecent
  <1> SUFFICES ASSUME ReadInv, call = "header", uncopied = {}
               PROVE  Label \in begun .. Published
    BY DEF HeaderIsRecent
  <1>1. MemoryInv /\ HeaderInv /\ TypeOK
    BY DEF ReadInv, MemoryInv
  <1>2. PICK b \in Buffers : RecentBuffer(b)
    BY <1>1 DEF HeaderInv
  <1>3. header.tick[b] >= begun /\ header.tick[b] <= Label /\ header.tick[b] \in Nat
    BY <1>1, <1>2, LabelIsHighest DEF RecentBuffer, Copied, TypeOK
  <1> QED
    BY <1>1, <1>3, LabelIsHighest DEF TypeOK, MemoryInv, TickInv

-----------------------------------------------------------------------------
(***************************************************************************)
(* The inductive invariant of the handles: at every step of                *)
(* iracing_client_init, which of them Windows has open for the client, and *)
(* which members still have what they had before.                          *)
(***************************************************************************)
HandlesInv ==
    /\ phase # "open" => ~mapped /\ client.memory # "view"
    /\ step # "idle" => phase # "open"
    /\ step = "idle" /\ phase # "open" => Own = {}
    /\ step = "idle" /\ phase = "closed" => client = NullClient
    /\ step = "file" => Own = {} /\ (phase = "closed" => client = NullClient)
    /\ step = "event" =>
        /\ client.file \in Handles /\ Own = {client.file}
        /\ phase = "closed" => client.event = "null" /\ client.memory = "null"
    /\ step = "memory" =>
        /\ {client.file, client.event} \subseteq Handles /\ client.file # client.event
        /\ Own = {client.file, client.event}
        /\ phase = "closed" => client.memory = "null"
    /\ phase = "open" =>
        /\ {client.file, client.event} \subseteq Handles /\ client.file # client.event
        /\ Own = {client.file, client.event}
        /\ mapped /\ client.memory = "view"

USE IRacingClientAssumption DEF IRacingClientAssumption

\* The types that IRacingClient adds.
HandleTypes ==
    /\ client \in [file   : {"null"} \cup Handles,
                   event  : {"null", "junk"} \cup Handles,
                   memory : {"null", "junk", "view"}]
    /\ phase \in {"raw", "open", "closed"}
    /\ step \in {"file", "event", "memory", "idle"}
    /\ handles \in [Handles -> {"closed", "own", "other"}]
    /\ mapped \in BOOLEAN

ClientInv == ReadInv /\ HandleTypes /\ HandlesInv

LEMMA ClientInitInv == ClientInit => ClientInv
  <1> SUFFICES ASSUME ClientInit PROVE ClientInv
    OBVIOUS
  <1>1. ReadInv
    BY ReadInit DEF ClientInit
  <1>2. HandleTypes
    BY DEF ClientInit, HandleTypes
  <1>3. HandlesInv
    BY DEF ClientInit, HandlesInv, Own
  <1> QED
    BY <1>1, <1>2, <1>3 DEF ClientInv

\* iracing_client_init, iracing_client_free and other handles: the reads do not
\* notice.
LEMMA NoReadsStep ==
  ASSUME ReadInv, NoReads, lastError' \in {"none", "ALLOCATION_FAILED"} \cup SysCalls
  PROVE  ReadInv'
  <1>1. MemoryInv /\ HeaderInv /\ TypeOK
    BY DEF ReadInv, MemoryInv
  <1>2. TypeOK'
    BY <1>1 DEF TypeOK, NoReads, memory
  <1>3. HeaderInv'
    BY <1>1 DEF HeaderInv, RecentBuffer, Copied, NoReads, memory
  <1>4. Label' = Label
    BY DEF Label, Index, NoReads
  <1>5. MemoryInv' /\ InProgress' = InProgress
    BY <1>1, <1>2, MemoryUnchanged DEF NoReads
  <1> QED
    BY <1>3, <1>4, <1>5
    DEF ReadInv, FreshValueIsWhole, ValueIsNotOlder, TextIsNotOlder, NoReads

(***************************************************************************)
(* iracing_client_free.                                                    *)
(***************************************************************************)
\* The handle values that the client may close are exactly its two members.
LEMMA ReleaseClosesTwo ==
  ASSUME HandleTypes, NEW c, Release(c)
  PROVE  /\ client' = NullClient
         /\ handles' \in [Handles -> {"closed", "own", "other"}]
         /\ mapped' \in BOOLEAN
         /\ \A h \in Handles :
              handles'[h] = IF h \in {c.event, c.file} THEN "closed" ELSE handles[h]
  BY DEF Release, Closed, HandleTypes

LEMMA ReleaseLeavesNothing ==
  ASSUME HandleTypes, NEW c, Release(c), Own \subseteq {c.event, c.file},
         mapped => c.memory = "view"
  PROVE  Own' = {} /\ ~mapped'
  <1>1. ~mapped'
    BY DEF Release
  <1>2. Own' = {}
    BY ReleaseClosesTwo DEF Own
  <1> QED
    BY <1>1, <1>2

LEMMA ErrorIsOfASystemCall ==
  ASSUME NEW c, NEW e \in {"none", "ALLOCATION_FAILED"} \cup SysCalls
  PROVE  ErrorAfter(c, e) \in {"none", "ALLOCATION_FAILED"} \cup SysCalls
  BY DEF ErrorAfter, SysCalls

LEMMA FreeStep == ASSUME ClientInv, IRacingClientFree PROVE ClientInv'
  <1> USE DEF IRacingClientFree
  <1>1. ReadInv /\ HandleTypes /\ HandlesInv /\ TypeOK
    BY DEF ClientInv, ReadInv, MemoryInv
  <1>2. ReadInv'
    BY <1>1, NoReadsStep, ErrorIsOfASystemCall DEF TypeOK
  <1>3. Own' = {} /\ ~mapped'
    BY <1>1, ReleaseLeavesNothing DEF HandlesInv, HandleTypes
  <1>4. /\ client' = NullClient /\ mapped' \in BOOLEAN
        /\ handles' \in [Handles -> {"closed", "own", "other"}]
    BY <1>1, ReleaseClosesTwo
  <1>5. HandleTypes'
    BY <1>1, <1>3, <1>4 DEF HandleTypes, NullClient
  <1>6. HandlesInv'
    BY <1>1, <1>3, <1>4 DEF HandlesInv, NullClient
  <1> QED
    BY <1>2, <1>5, <1>6 DEF ClientInv

(***************************************************************************)
(* iracing_client_init.                                                    *)
(***************************************************************************)
LEMMA InitCallStep == ASSUME ClientInv, IRacingClientInit PROVE ClientInv'
  <1> USE DEF IRacingClientInit
  <1>1. ReadInv /\ HandleTypes /\ HandlesInv /\ TypeOK
    BY DEF ClientInv, ReadInv, MemoryInv
  <1>2. ReadInv'
    BY <1>1, NoReadsStep DEF TypeOK
  <1>3. HandleTypes' /\ HandlesInv'
    BY <1>1 DEF HandleTypes, HandlesInv, Own
  <1> QED
    BY <1>2, <1>3 DEF ClientInv

\* A handle is opened and stored in the member: one more of the client's own.
LEMMA OpensStep ==
  ASSUME ClientInv, NEW member \in {"file", "event"}, NEW next, Opens(member, next)
  PROVE  /\ ReadInv' /\ UNCHANGED <<phase, mapped>> /\ step = member /\ step' = next
         /\ \E h \in Handles :
              /\ h \notin Own /\ Own' = Own \cup {h}
              /\ client' = [client EXCEPT ![member] = h]
              /\ handles' \in [Handles -> {"closed", "own", "other"}]
  <1> USE DEF Opens
  <1>1. ReadInv /\ HandleTypes /\ TypeOK
    BY DEF ClientInv, ReadInv, MemoryInv
  <1>2. ReadInv'
    BY <1>1, NoReadsStep DEF TypeOK
  <1>3. PICK h \in Handles : /\ handles[h] = "closed"
                             /\ handles' = [handles EXCEPT ![h] = "own"]
                             /\ client' = [client EXCEPT ![member] = h]
    OBVIOUS
  <1>4. /\ h \notin Own /\ Own' = Own \cup {h}
        /\ handles' \in [Handles -> {"closed", "own", "other"}]
    BY <1>1, <1>3 DEF HandleTypes, Own
  <1> QED
    BY <1>2, <1>3, <1>4

LEMMA OpensFileStep == ASSUME ClientInv, OpensFile PROVE ClientInv'
  <1>1. HandleTypes /\ HandlesInv
    BY DEF ClientInv
  <1>2. PICK h \in Handles : /\ h \notin Own /\ Own' = Own \cup {h}
                             /\ client' = [client EXCEPT !["file"] = h]
                             /\ handles' \in [Handles -> {"closed", "own", "other"}]
    BY OpensStep DEF OpensFile
  <1>3. ReadInv' /\ UNCHANGED <<phase, mapped>> /\ step = "file" /\ step' = "event"
    BY OpensStep DEF OpensFile
  <1>4. HandleTypes' /\ HandlesInv'
    BY <1>1, <1>2, <1>3 DEF HandleTypes, HandlesInv, NullClient
  <1> QED
    BY <1>3, <1>4 DEF ClientInv

LEMMA OpensEventStep == ASSUME ClientInv, OpensEvent PROVE ClientInv'
  <1>1. HandleTypes /\ HandlesInv
    BY DEF ClientInv
  <1>2. PICK h \in Handles : /\ h \notin Own /\ Own' = Own \cup {h}
                             /\ client' = [client EXCEPT !["event"] = h]
                             /\ handles' \in [Handles -> {"closed", "own", "other"}]
    BY OpensStep DEF OpensEvent
  <1>3. ReadInv' /\ UNCHANGED <<phase, mapped>> /\ step = "event" /\ step' = "memory"
    BY OpensStep DEF OpensEvent
  <1>4. HandleTypes' /\ HandlesInv'
    BY <1>1, <1>2, <1>3 DEF HandleTypes, HandlesInv
  <1> QED
    BY <1>3, <1>4 DEF ClientInv

LEMMA MapsViewStep == ASSUME ClientInv, MapsView PROVE ClientInv'
  <1> USE DEF MapsView
  <1>1. ReadInv /\ HandleTypes /\ HandlesInv /\ TypeOK
    BY DEF ClientInv, ReadInv, MemoryInv
  <1>2. ReadInv'
    BY <1>1, NoReadsStep DEF TypeOK
  <1>3. HandleTypes' /\ HandlesInv'
    BY <1>1 DEF HandleTypes, HandlesInv, Own
  <1> QED
    BY <1>2, <1>3 DEF ClientInv

\* The client as iracing_client_free finds it in a failing iracing_client_init.
Failed == [client EXCEPT ![step] = "null"]

LEMMA InitFailsStep ==
  ASSUME ClientInv, InitFails
  PROVE  /\ ClientInv' /\ step \in {"file", "event", "memory"}
         /\ Own \subseteq {Failed.event, Failed.file}
         /\ Release(Failed) /\ lastError' = ErrorAfter(Failed, CallAt[step])
  <1>1. ReadInv /\ HandleTypes /\ HandlesInv /\ TypeOK
    BY DEF ClientInv, ReadInv, MemoryInv
  <1>2. /\ step \in {"file", "event", "memory"} /\ step' = "idle" /\ phase' = "closed"
        /\ Release(Failed) /\ lastError' = ErrorAfter(Failed, CallAt[step]) /\ NoReads
    BY DEF InitFails, Failed, CallAt
  <1>3. CallAt[step] \in SysCalls
    BY <1>2 DEF CallAt, SysCalls
  <1>4. ReadInv'
    BY <1>1, <1>2, <1>3, NoReadsStep, ErrorIsOfASystemCall
  <1>5. Own \subseteq {Failed.event, Failed.file} /\ ~mapped
    BY <1>1, <1>2 DEF HandlesInv, HandleTypes, Failed
  <1>6. Own' = {} /\ ~mapped'
    BY <1>1, <1>2, <1>5, ReleaseLeavesNothing
  <1>7. /\ client' = NullClient /\ mapped' \in BOOLEAN
        /\ handles' \in [Handles -> {"closed", "own", "other"}]
    BY <1>1, <1>2, ReleaseClosesTwo
  <1>8. HandleTypes' /\ HandlesInv'
    BY <1>2, <1>6, <1>7 DEF HandleTypes, HandlesInv, NullClient
  <1> QED
    BY <1>2, <1>4, <1>5, <1>8 DEF ClientInv

\* The handles of others come and go, but for those the client has open.
LEMMA OthersStep == ASSUME ClientInv, Others PROVE ClientInv'
  <1>1. ReadInv /\ HandleTypes /\ HandlesInv /\ TypeOK
    BY DEF ClientInv, ReadInv, MemoryInv
  <1>2. UNCHANGED <<client, phase, step, mapped, lastError>> /\ NoReads
    BY DEF Others, OtherOpens, OtherCloses
  <1>3. Own' = Own /\ handles' \in [Handles -> {"closed", "own", "other"}]
    <2>1. ASSUME NEW h \in Handles, OtherOpens(h) \/ OtherCloses(h)
          PROVE  Own' = Own /\ handles' \in [Handles -> {"closed", "own", "other"}]
      BY <1>1, <2>1 DEF OtherOpens, OtherCloses, HandleTypes, Own
    <2> QED
      BY <2>1 DEF Others
  <1>4. ReadInv'
    BY <1>1, <1>2, NoReadsStep DEF TypeOK
  <1>5. HandleTypes' /\ HandlesInv'
    BY <1>1, <1>2, <1>3 DEF HandleTypes, HandlesInv
  <1> QED
    BY <1>4, <1>5 DEF ClientInv

\* A step that leaves the client alone.
LEMMA ReadsStep ==
  ASSUME ClientInv, UNCHANGED handleVars, ReadInv'
  PROVE  ClientInv'
  BY DEF ClientInv, handleVars, HandleTypes, HandlesInv, Own

LEMMA ClientNextStep == ClientInv /\ [ClientNext]_clientVars => ClientInv'
  <1> SUFFICES ASSUME ClientInv, [ClientNext]_clientVars PROVE ClientInv'
    OBVIOUS
  <1>1. CASE phase = "open" /\ Reader /\ UNCHANGED handleVars
    BY <1>1, ReaderStep, ReadsStep DEF ClientInv
  <1>2. CASE Simulator /\ UNCHANGED handleVars
    BY <1>2, SimulatorStep, ReadsStep DEF ClientInv
  <1>3. CASE UNCHANGED clientVars
    <2>1. NoReads /\ UNCHANGED <<lastError, handleVars>>
      BY <1>3 DEF clientVars, iracingVars, reader, NoReads
    <2>2. ReadInv /\ TypeOK
      BY DEF ClientInv, ReadInv, MemoryInv
    <2> QED
      BY <2>1, <2>2, NoReadsStep, ReadsStep DEF TypeOK
  <1> QED
    BY <1>1, <1>2, <1>3, InitCallStep, OpensFileStep, OpensEventStep, MapsViewStep, InitFailsStep,
       FreeStep, OthersStep
    DEF ClientNext, ClientStep

THEOREM ClientInvariance == ClientSpec => []ClientInv
  BY ClientInitInv, ClientNextStep, PTL DEF ClientSpec

-----------------------------------------------------------------------------
(***************************************************************************)
(* The properties, as theorems of the specification.                       *)
(***************************************************************************)
\* The members of iracing_client_t, the memory and what is copied of it keep
\* their types.
THEOREM ClientTypeCorrectness == ClientSpec => []ClientTypeOK
  <1>1. ClientInv => ClientTypeOK
    BY DEF ClientInv, ReadInv, MemoryInv, HandleTypes, ClientTypeOK, CallAt
  <1> QED
    BY <1>1, ClientInvariance, PTL

\* A value that iracing_read_variable_value returns is whole and of its header's
\* tick as long as the simulator is less than number_of_buffers ticks ahead.
THEOREM FreshValues == ClientSpec => []FreshValueIsWhole
  BY ClientInvariance, PTL DEF ClientInv, ReadInv

\* A value is never older than its header, and never of a tick not yet begun.
THEOREM ValuesAreNotOlder == ClientSpec => []ValueIsNotOlder
  BY ClientInvariance, PTL DEF ClientInv, ReadInv

\* The latest tick in the header that iracing_read_header returns was published
\* no earlier than the call.
THEOREM HeadersAreRecent == ClientSpec => []HeaderIsRecent
  BY ClientInvariance, ReadInvIsEnough, PTL DEF ClientInv

\* The text iracing_read_session_info returns is not older than its version.
THEOREM TextsAreNotOlder == ClientSpec => []TextIsNotOlder
  BY ClientInvariance, PTL DEF ClientInv, ReadInv

\* iracing_client_init, where it fails, and iracing_client_free leave nothing of
\* the client's open, and an open client has all it needs.
THEOREM NothingLeftOpen == ClientSpec => []NothingIsLeftOpen
  <1>1. ClientInv => NothingIsLeftOpen
    BY DEF ClientInv, HandlesInv, NothingIsLeftOpen
  <1> QED
    BY <1>1, ClientInvariance, PTL

\* Once it has been through iracing_client_init, a client closes only handles it
\* has opened.
THEOREM OthersKeepTheirs == ClientSpec => OthersAreNotClosed
  <1> DEFINE Keeps == \A h \in Handles : handles[h] = "other" /\ handles'[h] # "other"
                                         => OtherCloses(h) \/ phase = "raw"
  <1>1. ClientInv /\ [ClientNext]_clientVars => [Keeps]_clientVars
    <2> SUFFICES ASSUME ClientInv, ClientNext, phase # "raw",
                        NEW h \in Handles, handles[h] = "other", handles'[h] # "other"
                 PROVE  OtherCloses(h)
      OBVIOUS
    <2>1. HandleTypes /\ HandlesInv
      BY DEF ClientInv
    <2>2. ASSUME NEW c, Release(c), {c.event, c.file} \subseteq {"null"} \cup Own PROVE FALSE
      BY <2>1, <2>2, ReleaseClosesTwo DEF Own
    <2>3. CASE IRacingClientFree
      BY <2>1, <2>2, <2>3 DEF IRacingClientFree, HandlesInv, HandleTypes, NullClient
    <2>4. CASE InitFails
      <3>1. Release(Failed) /\ step \in {"file", "event", "memory"}
        BY <2>4, InitFailsStep
      <3>2. {Failed.event, Failed.file} \subseteq {"null"} \cup Own
        BY <2>1, <3>1 DEF Failed, HandlesInv, HandleTypes, NullClient
      <3> QED
        BY <2>2, <3>1, <3>2
    <2>5. CASE OpensFile \/ OpensEvent
      BY <2>1, <2>5 DEF OpensFile, OpensEvent, Opens, HandleTypes
    <2>6. CASE Others
      BY <2>1, <2>6 DEF Others, OtherOpens, OtherCloses, HandleTypes
    <2>7. CASE IRacingClientInit \/ MapsView \/ UNCHANGED handleVars
      BY <2>7 DEF IRacingClientInit, MapsView, handleVars
    <2> QED
      BY <2>3, <2>4, <2>5, <2>6, <2>7 DEF ClientNext, ClientStep
  <1> QED
    BY <1>1, ClientInvariance, PTL DEF ClientSpec, OthersAreNotClosed

\* Of a client that has been through iracing_client_init, a failing one reports
\* the call that failed: its clean-up makes no failing call.
THEOREM LaterCauseIsKept == ClientSpec => LaterInitReportsItsCause
  <1> DEFINE Reports == InitHasFailed /\ phase = "closed" => lastError' = CallAt[step]
  <1>1. ClientInv /\ [ClientNext]_clientVars => [Reports]_clientVars
    <2> SUFFICES ASSUME ClientInv, ClientNext, InitHasFailed, phase = "closed"
                 PROVE  lastError' = CallAt[step]
      OBVIOUS
    <2>1. HandleTypes /\ HandlesInv
      BY DEF ClientInv
    <2>2. InitFails
      BY <2>1
      DEF ClientNext, ClientStep, InitHasFailed, IRacingClientInit, OpensFile, OpensEvent, Opens,
          MapsView, IRacingClientFree, Others, OtherOpens, OtherCloses, handleVars
    <2>3. /\ step \in {"file", "event", "memory"}
          /\ lastError' = ErrorAfter(Failed, CallAt[step])
      BY <2>2, InitFailsStep
    <2>4. Failed.memory = "null" /\ ~CloseFails(handles, Failed.event)
      BY <2>1, <2>3 DEF Failed, HandlesInv, HandleTypes, NullClient, CloseFails, Own
    <2>5. ~CloseFails(Closed(handles, Failed.event), Failed.file)
      BY <2>1, <2>3 DEF Failed, HandlesInv, HandleTypes, NullClient, CloseFails, Closed, Own
    <2> QED
      BY <2>3, <2>4, <2>5 DEF ErrorAfter
  <1> QED
    BY <1>1, ClientInvariance, PTL DEF ClientSpec, LaterInitReportsItsCause
=============================================================================
