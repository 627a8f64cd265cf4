-------------------------- MODULE AccReaderProofs ---------------------------
(***************************************************************************)
(* Proofs about AccReader, for any sizes of datagrams, strings, arrays,    *)
(* loop indexes, buffer and stack.                                         *)
(***************************************************************************)
EXTENDS AccReader, TLAPS

USE AccReaderAssumption, TypesAssumption DEF AccReaderAssumption, TypesAssumption

-----------------------------------------------------------------------------
(***************************************************************************)
(* The inductive invariant.  A byte beyond those received is read at an    *)
(* offset beyond them, and the offset only grows: whatever the items are,  *)
(* what is compared at the end of the parse has not forgotten it.          *)
(***************************************************************************)
ParseInv ==
    /\ offset \in Nat /\ offset <= StackSize
    /\ received \in Received \cup {0}
    /\ beyond \in BOOLEAN
    /\ beyond => offset > received
    /\ ready => receiving = "idle" /\ ~beyond

\* An array that has a size has been allocated, and a new response has none.
SizesInv ==
    /\ sizes \in [DOMAIN sizes -> Nat]
    /\ DOMAIN sizes \subseteq heap
    /\ receiving = "idle" /\ ~ready => DOMAIN sizes = {}

ReaderInv == ParseInv /\ SizesInv /\ ReaderTypeOK

LEMMA ParseInitInv == ReaderInit => ParseInv
  <1> SUFFICES ASSUME ReaderInit PROVE ParseInv
    OBVIOUS
  <1>1. offset = 0 /\ received = 0 /\ ~ready
    BY DEF ReaderInit
  <1>2. beyond \in BOOLEAN /\ ~beyond
    BY DEF ReaderInit
  <1> QED
    BY <1>1, <1>2 DEF ParseInv

LEMMA ReaderInitInv == ReaderInit => ReaderInv
  <1> SUFFICES ASSUME ReaderInit PROVE ReaderInv
    OBVIOUS
  <1>1. ParseInv
    BY ParseInitInv
  <1>2. SizesInv
    BY DEF ReaderInit, SizesInv, NoSizes
  <1>3. ready \in BOOLEAN /\ beyond \in BOOLEAN
    BY DEF ReaderInit
  <1>4. ReaderTypeOK
    BY <1>1, <1>2, <1>3 DEF ReaderInit, ReaderTypeOK, SizesInv, ParseInv
  <1> QED
    BY <1>1, <1>2, <1>4 DEF ReaderInv

-----------------------------------------------------------------------------
(***************************************************************************)
(* One lemma for every step of the parse.                                  *)
(***************************************************************************)
LEMMA WidthsAreNat ==
  /\ \A kind \in DOMAIN Width : Width[kind] \in Nat
  /\ \A count : CountWidth(count) \in Nat
  BY DEF Width, CountWidth

LEMMA AdvanceInv ==
  ASSUME ParseInv, NEW w \in Nat, Advance(w), received' = received,
         ready' = ready, receiving' = receiving, receiving = "parse"
  PROVE  ParseInv'
  BY DEF ParseInv, Advance

\* The items that read nothing.
LEMMA NothingReadInv ==
  ASSUME ParseInv, receiving = "parse", offset' = offset, beyond' = beyond,
         received' = received, ready' = ready, receiving' = receiving
  PROVE  ParseInv'
  BY DEF ParseInv

LEMMA ItemParseInv == ASSUME ParseInv, ParseItem PROVE ParseInv'
  <1>1. ready' = ready /\ receiving' = receiving /\ received' = received
    BY DEF ParseItem
  <1>2. CASE ReadScalar
    BY <1>1, <1>2, WidthsAreNat, AdvanceInv DEF ReadScalar, At
  <1>3. CASE ReadReplayFlag
    BY <1>1, <1>3, AdvanceInv DEF ReadReplayFlag, At, Width
  <1>4. CASE ReadString
    <2>1. PICK n \in StringSizes : Advance(Width.u16 + n)
      BY <1>4 DEF ReadString
    <2>2. Width.u16 + n \in Nat /\ receiving = "parse"
      BY <1>4 DEF Width, ReadString, At
    <2> QED
      BY <1>1, <2>1, <2>2, AdvanceInv
  <1>5. CASE ReadArray
    BY <1>1, <1>5, WidthsAreNat, AdvanceInv DEF ReadArray, At
  <1>6. CASE NextElement
    BY <1>1, <1>6, NothingReadInv DEF NextElement, At
  <1>7. CASE EndOfArray
    BY <1>1, <1>7, NothingReadInv DEF EndOfArray, At
  <1>8. CASE FinishLap
    BY <1>1, <1>8, NothingReadInv DEF FinishLap, At
  <1> QED
    BY <1>2, <1>3, <1>4, <1>5, <1>6, <1>7, <1>8 DEF ParseItem

\* The call's variables are as they were before it, and the response is gone.
LEMMA DroppedInv ==
  ASSUME offset' = 0, received' = 0, beyond' = FALSE, ready' = FALSE
  PROVE  ParseInv'
  <1>1. offset' \in Nat /\ offset' <= StackSize
    OBVIOUS
  <1>2. received' \in Received \cup {0}
    OBVIOUS
  <1>3. beyond' \in BOOLEAN /\ ~beyond'
    OBVIOUS
  <1>4. ~ready'
    OBVIOUS
  <1> QED
    BY <1>1, <1>2, <1>3, <1>4 DEF ParseInv

LEMMA ParseStepInv == ASSUME ParseInv, ParseStep PROVE ParseInv'
  <1>1. CASE ParseItem
    BY <1>1, ItemParseInv
  <1>2. CASE ParseCrashes
    BY <1>2 DEF ParseCrashes, ParseInv, response
  <1>3. CASE ParseReturns
    BY <1>3 DEF ParseReturns, ParseInv, TooShort
  <1>4. CASE ParseRejects
    BY <1>4, DroppedInv DEF ParseRejects, EndParse, DropResponse
  <1> QED
    BY <1>1, <1>2, <1>3, <1>4 DEF ParseStep

LEMMA ReceiveParseInv ==
  ASSUME ParseInv, NEW n \in Received, NEW t \in Types, Receive(n, t)
  PROVE  ParseInv'
  <1>1. /\ offset' = 1 /\ received' = n /\ ~ready /\ ready' = ready
        /\ beyond' = (n < 1)
    BY DEF Receive
  <1>2. offset' \in Nat /\ offset' <= StackSize /\ received' \in Received \cup {0}
    BY <1>1
  <1>3. beyond' \in BOOLEAN
    BY <1>1
  <1>4. beyond' => offset' > received'
    BY <1>1
  <1> QED
    BY <1>1, <1>2, <1>3, <1>4 DEF ParseInv

LEMMA ReceiveNothingInv ==
  ASSUME ParseInv, (\E t \in Types : ReceiveNoMemory(t)) \/ ReceiveUnknown
  PROVE  ParseInv'
  BY DEF ReceiveNoMemory, ReceiveUnknown, parse, ParseInv

LEMMA FreeParseInv == ASSUME ParseInv, AccServerResponseFree PROVE ParseInv'
  BY DroppedInv DEF AccServerResponseFree, EndParse, DropResponse

LEMMA ReaderParseInv == ASSUME ParseInv, [ReaderNext]_readerVars PROVE ParseInv'
  <1>1. CASE UNCHANGED readerVars
    BY <1>1 DEF readerVars, response, parse, ParseInv
  <1> QED
    BY <1>1, ParseStepInv, ReceiveParseInv, ReceiveNothingInv, FreeParseInv
    DEF ReaderNext, ReaderCall

-----------------------------------------------------------------------------
(***************************************************************************)
(* The sizes of arrays, and the types of the other variables.              *)
(***************************************************************************)
LEMMA CountsAreNat == \A count : CountsOf(count) \subseteq Nat
  BY DEF CountsOf

LEMMA ItemSizesInv == ASSUME SizesInv, ParseItem PROVE SizesInv'
  <1>1. receiving = "parse" /\ receiving' = "parse"
    BY DEF ParseItem, ReadScalar, ReadReplayFlag, ReadString, ReadArray, NextElement,
           EndOfArray, FinishLap, At
  <1>2. CASE ReadArray
    <2>1. PICK n \in CountsOf(Item.count) :
            sizes' = [p \in DOMAIN sizes \cup {Item.path} |->
                        IF p = Item.path THEN n ELSE sizes[p]]
      BY <1>2 DEF ReadArray
    <2>2. n \in Nat /\ heap' = heap \cup {Item.path}
      BY <1>2, CountsAreNat DEF ReadArray, Allocate
    <2>3. DOMAIN sizes' = DOMAIN sizes \cup {Item.path}
      BY <2>1
    <2>4. sizes' \in [DOMAIN sizes' -> Nat]
      BY <2>1, <2>2, <2>3 DEF SizesInv
    <2> QED
      BY <1>1, <2>2, <2>3, <2>4 DEF SizesInv
  <1>3. CASE FinishLap
    <2> DEFINE splits == [Item.path EXCEPT ![2] = "splits"]
    <2>1. /\ sizes' = IF sizes[splits] < 3 THEN [sizes EXCEPT ![splits] = 3] ELSE sizes
          /\ heap' = heap
      BY <1>3 DEF FinishLap
    <2> HIDE DEF splits
    <2>2. DOMAIN sizes' = DOMAIN sizes /\ sizes' \in [DOMAIN sizes -> Nat]
      BY <2>1 DEF SizesInv
    <2> QED
      BY <1>1, <2>1, <2>2 DEF SizesInv
  <1>4. CASE UNCHANGED sizes /\ heap \subseteq heap'
    BY <1>1, <1>4 DEF SizesInv
  <1> QED
    BY <1>2, <1>3, <1>4
    DEF ParseItem, ReadScalar, ReadReplayFlag, ReadString, NextElement, EndOfArray, Allocate

LEMMA NoSizesInv == ASSUME sizes' = NoSizes, heap' = {} PROVE SizesInv'
  BY DEF SizesInv, NoSizes

LEMMA ItemTypeOK == ASSUME ReaderInv, ParseItem, ParseInv', SizesInv' PROVE ReaderTypeOK'
  <1>1. /\ type' = type /\ ready' = ready /\ receiving' = receiving /\ received' = received
        /\ accLastError' = accLastError
    BY DEF ParseItem
  <1> QED
    BY <1>1 DEF ReaderInv, ReaderTypeOK, ParseInv, SizesInv

LEMMA StepReaderInv == ReaderInv /\ [ReaderNext]_readerVars => ReaderInv'
  <1> SUFFICES ASSUME ReaderInv, [ReaderNext]_readerVars PROVE ReaderInv'
    OBVIOUS
  <1>1. ParseInv'
    BY ReaderParseInv DEF ReaderInv
  <1>2. CASE ParseItem
    BY <1>1, <1>2, ItemSizesInv, ItemTypeOK DEF ReaderInv
  <1>3. CASE ParseCrashes
    BY <1>1, <1>3 DEF ParseCrashes, response, ReaderInv, SizesInv, ReaderTypeOK
  <1>4. CASE ParseReturns
    <2>1. ready' \in BOOLEAN
      BY <1>4 DEF ParseReturns
    <2> QED
      BY <1>1, <1>4, <2>1 DEF ParseReturns, ReaderInv, SizesInv, ReaderTypeOK
  <1>5. CASE ParseRejects \/ AccServerResponseFree
    <2>1. SizesInv'
      BY <1>5, NoSizesInv DEF ParseRejects, AccServerResponseFree, DropResponse
    <2>2. ready' \in BOOLEAN
      BY <1>5 DEF ParseRejects, AccServerResponseFree, DropResponse
    <2>3. type' = type /\ receiving' = "idle"
      BY <1>5 DEF ParseRejects, AccServerResponseFree, EndParse
    <2>4. accLastError' \in {accLastError, "INBOUND_BUFFER_TOO_SMALL"}
      BY <1>5 DEF ParseRejects, AccServerResponseFree, AccFail
    <2> QED
      BY <1>1, <2>1, <2>2, <2>3, <2>4 DEF ReaderInv, ParseInv, SizesInv, ReaderTypeOK
  <1>6. ASSUME NEW n \in Received, NEW t \in Types, Receive(n, t) PROVE ReaderInv'
    <2>1. SizesInv'
      BY <1>6 DEF Receive, ReaderInv, SizesInv
    <2>2. t \in DOMAIN Layout
      OBVIOUS
    <2>3. /\ type' = t /\ receiving' = "parse" /\ accLastError' = accLastError
      BY <1>6 DEF Receive
    <2> QED
      BY <1>1, <1>6, <2>1, <2>2, <2>3
      DEF Receive, ReaderInv, ParseInv, SizesInv, ReaderTypeOK
  <1>7. ASSUME NEW t \in Types, ReceiveNoMemory(t) PROVE ReaderInv'
    BY <1>1, <1>7 DEF ReceiveNoMemory, AccFail, parse, ReaderInv, SizesInv, ReaderTypeOK
  <1>8. CASE ReceiveUnknown
    BY <1>1, <1>8 DEF ReceiveUnknown, AccFail, parse, ReaderInv, SizesInv, ReaderTypeOK
  <1>9. CASE UNCHANGED readerVars
    BY <1>1, <1>9 DEF readerVars, response, parse, ReaderInv, SizesInv, ReaderTypeOK
  <1> QED
    BY <1>2, <1>3, <1>4, <1>5, <1>6, <1>7, <1>8, <1>9 DEF ReaderNext, ParseStep, ReaderCall

-----------------------------------------------------------------------------
(***************************************************************************)
(* The theorems.                                                           *)
(***************************************************************************)
THEOREM ReaderInvariance == ReaderSpec => []ReaderInv
  BY ReaderInitInv, StepReaderInv, PTL DEF ReaderSpec

\* Every variable of the parse and of the response keeps its type.
THEOREM ReaderTypeCorrectness == ReaderSpec => []ReaderTypeOK
  BY ReaderInvariance, PTL DEF ReaderInv

\* The comparison that acc_client_receive makes after the parse finds every
\* read beyond the datagram, for any layouts, counts, lengths and sizes.
THEOREM AcceptedBytesWereReceived == ReaderSpec => []AcceptedIsReceived
  <1>1. ReaderInv => AcceptedIsReceived
    BY DEF ReaderInv, ParseInv, AcceptedIsReceived
  <1> QED
    BY <1>1, ReaderInvariance, PTL
=============================================================================
