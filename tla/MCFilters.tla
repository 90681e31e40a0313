----------------------------- MODULE MCFilters -----------------------------
(***************************************************************************)
(* Instance of Filters for TLC.                                            *)
(***************************************************************************)
EXTENDS Filters

\* For head and cat: an empty stream, streams with and without a final
\* newline, and one of which the second line is longer than a read.
A == 65
NL == 10
MCContent == {<<>>, <<A>>, <<NL, NL>>, <<A, NL, A, A, NL>>}

MCCount == {-1, 0, 1, 2, 5}

\* For wc: a newline, a letter, NUL and the two bytes of U+0120, whose low byte
\* is a blank; all streams of up to four of them.
MCByte == {10, 97, 0, 196, 160}

\* For two operands: among them an end inside a character.
FewContent == {<<>>, <<97>>, <<97, 10, 97>>, <<196, 160, 10>>, <<196>>}

MCGiven ==
  {<<>>} \union {<<c>> : c \in UNION {[1..l -> MCByte] : l \in 0..4}}
         \union {<<c, d>> : c, d \in FewContent}
=============================================================================
