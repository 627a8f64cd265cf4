--------------------------- MODULE IRacingReader ----------------------------
(***************************************************************************)
(* iracing/client.c and iracing/utils.c: reading the shared memory that    *)
(* the iRacing simulator rewrites while it is read.                        *)
(*                                                                         *)
(* The reader takes no lock.  A memcpy is a number of single-word copies,  *)
(* in any order, and the simulator may write between any two of them.  The *)
(* data of a tick is abstracted to the tick it was written for, word by    *)
(* word; likewise the session text to its version.                         *)
(*                                                                         *)
(* The simulator is external.  It keeps N buffers, writes each tick over   *)
(* the oldest of them and only then publishes the new tick; session text   *)
(* is rewritten in place and then its version is incremented.              *)
(***************************************************************************)
EXTENDS Integers, FiniteSets

CONSTANTS
    N,           \* number_of_buffers
    Words,       \* the words of a buffer row, and of the session text
    Variables,   \* the variables: which words of a row each of them occupies
    MayFail,     \* whether malloc may fail
    MaxTick,     \* bounds how long the simulator runs
    MaxSession   \* bounds how often the session text changes

ASSUME IRacingAssumption ==
    /\ N \in Nat \ {0}
    /\ Variables \subseteq (SUBSET Words) \ {{}}
    /\ MayFail \in BOOLEAN
    /\ MaxTick \in Nat
    /\ MaxSession \in Nat

Buffers  == 0 .. N - 1
NoBuffer == -1

VARIABLES
    tick,       \* header in memory: the tick of each buffer
    row,        \* memory: for each buffer and word, the tick it was written for
    version,    \* header in memory: session_info_version
    text,       \* memory: for each word, the version it was written for
    target,     \* simulator: the buffer it is writing, if any
    unwritten,  \* simulator: the words of that buffer still to be written
    header,     \* the reader's iracing_header_t
    info,       \* the words of its iracing_variable_info_t; none before it is read
    call,       \* the iracing_read_* call in progress
    uncopied,   \* the words its memcpy has still to copy
    result,     \* the words its memcpy has copied
    lastError,  \* iracing_last_error
    begun       \* history: the latest tick when the header read began

memory == <<tick, row, version, text, target, unwritten>>
reader == <<header, info, call, uncopied, result, lastError, begun>>
iracingVars == <<memory, reader>>

\* Mutant: the comparison is the other way round.
EarliestTick(ticks) ==
    CHOOSE b \in Buffers : \A c \in Buffers : ticks[c] >= ticks[b]

\* iracing_get_latest_tick: the first of the buffers with the highest tick.
LatestTick(ticks) ==
    CHOOSE b \in Buffers :
        /\ \A c \in Buffers : ticks[c] <= ticks[b]
        /\ \A c \in 0 .. b - 1 : ticks[c] < ticks[b]

\* The latest tick the simulator has published, and the one it is at work on.
Published  == CHOOSE t \in {tick[b] : b \in Buffers} : \A b \in Buffers : tick[b] <= t
InProgress == IF target = NoBuffer THEN Published ELSE Published + 1

\* The system calls whose error codes iracing_last_error may hold (see
\* IRacingClient): an error is the name of the call that failed.
SysCalls == {"OpenFileMapping", "OpenEvent", "MapViewOfFile", "UnmapViewOfFile", "CloseHandle"}

\* The header's words: a tick for each buffer, and the session version.
Fields == {<<"tick", b>> : b \in Buffers} \cup {<<"version", 0>>}

\* The buffer iracing_read_variable_value reads, and the tick it does it for.
Index == LatestTick(header.tick)
Label == header.tick[Index]

Init ==
    /\ tick = [b \in Buffers |-> b]
    /\ row = [b \in Buffers |-> [w \in Words |-> b]]
    /\ version = 0
    /\ text = [w \in Words |-> 0]
    /\ target = NoBuffer
    /\ unwritten = {}
    /\ header = [tick |-> [b \in Buffers |-> 0], version |-> 0]
    /\ info = {}
    /\ call = "start"
    /\ uncopied = {}
    /\ result = [w \in Words |-> 0]
    /\ lastError = "none"
    /\ begun = 0

-----------------------------------------------------------------------------
(***************************************************************************)
(* The simulator (external).                                               *)
(***************************************************************************)
SimBegin ==
    /\ target = NoBuffer
    /\ Published < MaxTick
    /\ target' \in {b \in Buffers : \A c \in Buffers : tick[b] <= tick[c]}
    /\ unwritten' = Words
    /\ UNCHANGED <<tick, row, version, text, reader>>

SimWrite(w) ==
    /\ w \in unwritten
    /\ row' = [row EXCEPT ![target][w] = InProgress]
    /\ unwritten' = unwritten \ {w}
    /\ UNCHANGED <<tick, version, text, target, reader>>

SimPublish ==
    /\ target # NoBuffer
    /\ unwritten = {}
    /\ tick' = [tick EXCEPT ![target] = InProgress]
    /\ target' = NoBuffer
    /\ UNCHANGED <<row, version, text, unwritten, reader>>

SimWriteText(w) ==
    /\ version < MaxSession
    /\ text[w] = version
    /\ text' = [text EXCEPT ![w] = version + 1]
    /\ UNCHANGED <<tick, row, version, target, unwritten, reader>>

SimPublishText ==
    /\ \A w \in Words : text[w] = version + 1
    /\ version' = version + 1
    /\ UNCHANGED <<tick, row, text, target, unwritten, reader>>

-----------------------------------------------------------------------------
(***************************************************************************)
(* The reader.  The application keeps the header it has read and passes it *)
(* to any number of later reads.                                           *)
(***************************************************************************)
ReadHeader ==
    /\ call \in {"start", "idle"}
    /\ call' = "header"
    /\ uncopied' = Fields
    /\ begun' = Published
    /\ UNCHANGED <<memory, header, info, result, lastError>>

CopyHeader(f) ==
    /\ call = "header"
    /\ f \in uncopied
    /\ header' = IF f[1] = "tick" THEN [header EXCEPT !.tick[f[2]] = tick[f[2]]]
                                  ELSE [header EXCEPT !.version = version]
    /\ uncopied' = uncopied \ {f}
    /\ UNCHANGED <<memory, info, call, result, lastError, begun>>

\* Mutants: the length of the header is copied; text read before is returned.
ReadCopies(what, words) ==
    /\ call = "idle"
    /\ call' = what
    /\ uncopied' = words
    /\ UNCHANGED <<memory, header, info, result, lastError, begun>>

ReadHeaderLength(what) == ReadCopies(what, Fields)
ReadKeepsText(what) == ReadCopies(what, IF what = "session" THEN {} ELSE info)

\* iracing_read_variable_info, for one of number_of_variables variables.  The
\* simulator does not rewrite what it says of them.
ReadInfo(variable) ==
    /\ call = "idle"
    /\ info' = variable
    /\ UNCHANGED <<memory, header, call, uncopied, result, lastError, begun>>

ReadInfoBeyond ==
    /\ call = "idle"
    /\ lastError' = "ALLOCATION_FAILED"
    /\ UNCHANGED <<memory, header, info, call, uncopied, result, begun>>

\* The words that iracing_read_session_info, as what = "session", and
\* iracing_read_variable_value, as "value", return: of the text, and of the
\* variable, size times count.
WordsOf(what) == IF what = "session" THEN Words ELSE info

\* Both allocate first, then copy.  The application knows the variable.
Read(what) ==
    /\ call = "idle"
    /\ what = "value" => info # {}
    /\ \/ /\ call' = what
          /\ uncopied' = WordsOf(what)
          /\ UNCHANGED lastError
       \/ /\ MayFail
          /\ lastError' = "ALLOCATION_FAILED"
          /\ UNCHANGED <<call, uncopied>>
    /\ UNCHANGED <<memory, header, info, result, begun>>

CopySession(w) ==
    /\ call = "session"
    /\ w \in uncopied
    /\ result' = [result EXCEPT ![w] = text[w]]
    /\ uncopied' = uncopied \ {w}
    /\ UNCHANGED <<memory, header, info, call, lastError, begun>>

\* Mutants: the buffer is that of memory's latest tick; always the first.
CopyValueOf(b, w) ==
    /\ call = "value"
    /\ w \in uncopied
    /\ result' = [result EXCEPT ![w] = row[b][w]]
    /\ uncopied' = uncopied \ {w}
    /\ UNCHANGED <<memory, header, info, call, lastError, begun>>

CopyValueLive(w)  == CopyValueOf(LatestTick(tick), w)
CopyValueFirst(w) == CopyValueOf(0, w)

CopyValue(w) ==
    /\ call = "value"
    /\ w \in uncopied
    /\ result' = [result EXCEPT ![w] = row[Index][w]]
    /\ uncopied' = uncopied \ {w}
    /\ UNCHANGED <<memory, header, info, call, lastError, begun>>

Return ==
    /\ call \in {"header", "session", "value"}
    /\ uncopied = {}
    /\ call' = "idle"
    /\ UNCHANGED <<memory, header, info, uncopied, result, lastError, begun>>

Simulator ==
    \/ SimBegin \/ (\E w \in Words : SimWrite(w)) \/ SimPublish
    \/ (\E w \in Words : SimWriteText(w)) \/ SimPublishText

Reader ==
    \/ ReadHeader \/ (\E f \in Fields : CopyHeader(f))
    \/ (\E v \in Variables : ReadInfo(v)) \/ ReadInfoBeyond
    \/ (\E what \in {"session", "value"} : Read(what))
    \/ (\E w \in Words : CopySession(w)) \/ (\E w \in Words : CopyValue(w))
    \/ Return

Next == Simulator \/ Reader

Spec == Init /\ [][Next]_iracingVars

-----------------------------------------------------------------------------
(***************************************************************************)
(* Type invariant: every variable has its type.                            *)
(***************************************************************************)
TypeOK ==
    /\ tick \in [Buffers -> Nat]
    /\ row \in [Buffers -> [Words -> Nat]]
    /\ version \in Nat
    /\ text \in [Words -> Nat]
    /\ target \in Buffers \cup {NoBuffer}
    /\ unwritten \subseteq Words
    /\ header \in [tick : [Buffers -> Nat], version : Nat]
    /\ call \in {"start", "idle", "header", "session", "value"}
    /\ uncopied \subseteq IF call = "header" THEN Fields ELSE Words
    /\ result \in [Words -> Nat]
    /\ info \in Variables \cup {{}}
    /\ lastError \in {"none", "ALLOCATION_FAILED"} \cup SysCalls
    /\ begun \in Nat

(***************************************************************************)
(* A variable read with a header is whole, and of the tick the header      *)
(* says, as long as the simulator has not gone N ticks beyond that header  *)
(* before the copy ends: this is how long a header may be kept.            *)
(***************************************************************************)
FreshValueIsWhole ==
    call = "value" /\ InProgress < Label + N =>
        \A w \in info \ uncopied : result[w] = Label

(***************************************************************************)
(* However stale the header, no word of a variable is older than the tick  *)
(* the header says, and none is of a tick the simulator has not begun.     *)
(***************************************************************************)
ValueIsNotOlder ==
    call = "value" => \A w \in info \ uncopied : result[w] \in Label .. InProgress

(***************************************************************************)
(* A header is copied word by word while ticks are published, and still    *)
(* the latest tick in it is one published no earlier than the read began.  *)
(***************************************************************************)
HeaderIsRecent ==
    call = "header" /\ uncopied = {} => Label \in begun .. Published

(***************************************************************************)
(* Session text is never older than the version it is returned with.       *)
(***************************************************************************)
TextIsNotOlder ==
    call = "session" => \A w \in Words \ uncopied : result[w] >= header.version

-----------------------------------------------------------------------------
\* iracing/types.c says that iracing_session_info_t carries the "Session info
\* version" of its text.
TextHasItsVersion ==
    call = "session" => \A w \in Words \ uncopied : result[w] = header.version
=============================================================================
