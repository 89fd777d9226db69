------------------------------ MODULE StreamsMC ------------------------------
(***************************************************************************)
(* The texts and files on which the streaming parsers are checked.         *)
(***************************************************************************)
EXTENDS Streams

Dashes == <<"-", "-", "-">>
Dots == <<".", ".", ".">>
Letter == <<"a">>
LineEnd == <<"\n">>
Blank == <<" ">>

TextsOf(pieces, n) == {FlattenSeq(s) : s \in BoundedSeq(pieces, n)} \ {<<>>}

\* No chunk starts with a colon, and no colon is left over behind a key: such a
\* buffer yields empty scalars for ever.
ColonsKept(t, size) ==
    \A i \in DOMAIN t : t[i] = ":" => i > 1 /\ t[i - 1] = "a" /\ (i - 1) % size # 0

\* Every bracket is closed further on: an open one is waited for in a loop.
BracketsClosed(t) == \A i \in DOMAIN t : t[i] = "[" => \E j \in i + 1 .. Len(t) : t[j] = "]"

Marked == TextsOf({Letter, LineEnd, <<"-", " ">>, Dashes, Dots, <<"#">>}, 4)
Blocks == TextsOf({Letter, LineEnd, <<"|">>, Dots}, 5)
Named == TextsOf({Letter, Blank, LineEnd, <<"&", "a">>, <<"*", "a">>, <<"'">>, Dots}, 4)
Keyed == TextsOf({Letter, Blank, LineEnd, <<":">>, <<"-", " ">>}, 5)
Flow == {t \in TextsOf({Letter, LineEnd, <<"[">>, <<"]">>, <<"{", "}">>}, 4) : BracketsClosed(t)}

Whole(n) == [chunk_size |-> n, short_reads |-> FALSE]
Parts(n) == [chunk_size |-> n, short_reads |-> TRUE]

SmallChunkCases ==
    {<<t, o>> : t \in Marked \cup Blocks \cup Named, o \in {Parts(2), Whole(3), Whole(5)}}
        \cup {c \in {<<t, Whole(n)>> : t \in Keyed, n \in 2 .. 8} :
                 ColonsKept(c[1], c[2].chunk_size)}
        \cup {<<t, Whole(8)>> : t \in Flow}

SmallLineCases ==
    {<<t, [polling |-> p]>> :
        t \in TextsOf({Letter, Blank, LineEnd, <<":">>, <<"#">>, Dashes, Dots}, 5), p \in BOOLEAN}

Characters ==
    TextsOf({Letter, Blank, LineEnd, <<"[">>, <<"]">>, <<"{">>, <<"}">>}, 5)
        \cup TextsOf({Letter, Blank, LineEnd, <<"&", "a">>, <<"*", "a">>, <<"[">>, <<"]">>}, 4)
        \cup TextsOf({Letter, LineEnd, <<"#">>, <<":">>, Dashes, Dots}, 4)

Tokens ==
    {<<"StreamStart">> \o s \o <<"StreamEnd">> :
        s \in BoundedSeq({"Scalar", "BlockSequenceStart"}, 4)}

SmallBatchCases ==
    {<<t, [zero_copy |-> TRUE, batching |-> b]>> : t \in Characters, b \in BOOLEAN}
        \cup {<<t, [zero_copy |-> FALSE, batching |-> b]>> : t \in Tokens, b \in BOOLEAN}

SmallFiles == {f \in BoundedSeq({Continuation, 1, 2, 3, Invalid}, 5) : f # <<>>}

-----------------------------------------------------------------------------
\* The places where a marker stands in a text.
Marks(mark) == {i \in 1 .. Len(text) - 2 : SubSeq(text, i, i + 2) = mark}

\* Texts with a document that is open when they end, at the end of a line:
\* process_yaml_stream stops on no other.
EndsInDocument == Last(text) = "\n" /\ Marks(Dashes) # {} /\ Marks(Dots) = {}

\* Texts and readers that are no trap for the parser.
Awaited ==
    \/ kind = "chunks"
    \/ kind = "lines" /\ (option.polling \/ EndsInDocument)

\* Reading chunks or lines ends: the iterator and the polled stream give None, and
\* process_yaml_stream returns (the loops of parse_document_content drain the
\* buffer).
ReadingEnds == Awaited => <>ended
=============================================================================
