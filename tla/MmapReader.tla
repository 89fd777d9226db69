----------------------------- MODULE MmapReader ------------------------------
(***************************************************************************)
(* MmapYamlReader (mmap in src/streaming_async.rs): a mapped file is read  *)
(* in chunks that must not cut a character.                                *)
(*                                                                         *)
(* A byte is what UTF-8 makes of it: 1 to 4, the first of a character of   *)
(* as many bytes; Continuation, a byte 10xxxxxx; or Invalid.               *)
(***************************************************************************)
EXTENDS Integers, Sequences

CONSTANTS
    Sizes       \* the sizes asked for

ASSUME SizesAssumption == Sizes \subseteq Nat

VARIABLES
    mmap,       \* the bytes of the file
    reader      \* its position, what has been read since the last reset, the last answer

Continuation == 0
Invalid == 5
Bytes == 0 .. 5

Answers == {"none", "text", "error", "end"}
NewReader == [position |-> 0, read |-> <<>>, answer |-> "none"]

-----------------------------------------------------------------------------
\* A character ends before the byte behind a position, or the file does.
Boundary(bytes, position) == position < Len(bytes) => bytes[position + 1] # Continuation

\* std::str::from_utf8: every character has all its bytes, and every byte is one
\* of a character.
Valid(bytes) ==
    \A i \in DOMAIN bytes :
        /\ bytes[i] # Invalid
        /\ bytes[i] # Continuation =>
               \A k \in i + 1 .. i + bytes[i] - 1 : k \in DOMAIN bytes /\ bytes[k] = Continuation
        /\ bytes[i] = Continuation => \E j \in 1 .. i - 1 : bytes[j] > i - j

Slice(from, to) == SubSeq(mmap, from + 1, to)

\* min(position + size, the length of the file).
Wanted(size) ==
    IF reader.position + size > Len(mmap) THEN Len(mmap) ELSE reader.position + size

\* Mutant: the chunk ends where it is wanted.
EndsAsWanted(end, size) == end = Wanted(size)

\* The chunk ends at the first boundary from there on.
Ends(end, size) ==
    /\ Wanted(size) <= end
    /\ Boundary(mmap, end)
    /\ \A k \in Wanted(size) .. end - 1 : ~Boundary(mmap, k)

Took(end) ==
    [position |-> end, read |-> reader.read \o Slice(reader.position, end), answer |-> "text"]

\* Mutant: the position is moved first.
AnswerAtEnd(end) ==
    IF Valid(Slice(reader.position, end)) THEN Took(end)
    ELSE [reader EXCEPT !.answer = "error", !.position = end]

Answer(end) ==
    IF Valid(Slice(reader.position, end)) THEN Took(end)
    ELSE [reader EXCEPT !.answer = "error"]

\* try_read_chunk, and read_chunk, which answers an error as the end.
try_read_chunk(size) ==
    /\ reader.position < Len(mmap)
    /\ \E end \in 0 .. Len(mmap) : Ends(end, size) /\ reader' = Answer(end)
    /\ UNCHANGED mmap

EndOfInput ==
    /\ reader.position >= Len(mmap)
    /\ reader' = [reader EXCEPT !.answer = "end"]
    /\ UNCHANGED mmap

\* reset.
Rewind ==
    /\ reader' = NewReader
    /\ UNCHANGED mmap

ReaderInit == mmap \in Seq(Bytes) /\ reader = NewReader

ReaderNext == (\E size \in Sizes : try_read_chunk(size)) \/ EndOfInput \/ Rewind

ReaderSpec == ReaderInit /\ [][ReaderNext]_<<mmap, reader>>

-----------------------------------------------------------------------------
\* The reader is of its type.
ReaderTypeOK ==
    /\ mmap \in Seq(Bytes)
    /\ reader \in [position : 0 .. Len(mmap), read : Seq(Bytes), answer : Answers]

\* What the chunks give is the file up to the position, and nothing is skipped or
\* given twice (try_read_chunk).
ReadsFile == reader.read = SubSeq(mmap, 1, reader.position)

\* An error is for malformed files only: in a valid one no size cuts a character
\* (the loop over continuation bytes in try_read_chunk).
NeverSplits == Valid(mmap) => Boundary(mmap, reader.position) /\ reader.answer # "error"
=============================================================================
