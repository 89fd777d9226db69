------------------------------- MODULE TextsMC -------------------------------
(***************************************************************************)
(* The front end on every small text over an alphabet of lexemes, most of  *)
(* them no YAML anyone would write.                                        *)
(***************************************************************************)
EXTENDS FrontEnd

\* Texts of up to `height` lines of up to `width` lexemes; the first line is not
\* indented.
TextsOver(alphabet, width, height, indentations) ==
    LET lines == {l \in [indent : indentations, lexemes : BoundedSeq(alphabet, width)] :
                      WellMarked(l)}
    IN  UNION {{t \in [1 .. n -> lines] : t[1].indent = 0} : n \in 1 .. height}

BlockTexts ==
    TextsOver({"s", "-", ":", "?", "---"}, 3, 2, {0, 2})
        \cup TextsOver({"s", "-", ":", "&"}, 3, 2, {0, 4})
        \cup TextsOver({"s", ":", "&", "*"}, 3, 2, {0, 4})

FlowTexts ==
    TextsOver({"s", ":", "[", "]"}, 3, 2, {0, 4})
        \cup TextsOver({"s", ",", "[", "]"}, 3, 2, {0, 4})
        \cup TextsOver({"s", ":", "[", "]", "?"}, 3, 2, {0})

MarkerTexts == TextsOver({"s", ":", "[", "&", "---", "...", "%"}, 2, 3, {0})

CommentTexts ==
    TextsOver({"s", "q", ":", "#"}, 3, 2, {0, 4})
        \cup TextsOver({"s", "-", "#"}, 3, 2, {0, 4})

AllTexts == BlockTexts \cup FlowTexts \cup MarkerTexts \cup CommentTexts

KeyTexts == TextsOver({"s", ":", "?", "["}, 3, 1, {0})

\* Scanned and parsed before the consumer asks.
EagerInit == FrontEndInit /\ ~lazy

EagerSpec == EagerInit /\ [][FrontEndNext]_vars
=============================================================================
