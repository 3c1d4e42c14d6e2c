---------------------------- MODULE MCSingleFile ----------------------------
(***************************************************************************)
(* Command lines and inputs for SingleFile.                                *)
(***************************************************************************)
EXTENDS SingleFile

\* Empty input, the largest accepted one, one byte more, and more than that.
SizesAroundLimit ==
    {0, 1, MAX_STDIN_BYTES, MAX_STDIN_BYTES + 1, MAX_STDIN_BYTES + 3}

\* One character of every kind, the letters of the escapes, and all pairs of
\* the characters that could be taken for one another behind a backslash.
Letters  == {110, 117, 955}
Controls == {0, 8, 9, 10, 11, 12, 13, 27, 31}
SomeMessages ==
    {<< >>} \cup {<<c>> : c \in Letters \cup Controls \cup {Quote, Backslash, 32, 127}}
      \cup {<<c, d>> : c, d \in {Quote, Backslash, 110, 10}}
      \cup {<<Backslash, LetterU, 48, 48, 49, 102>>}

FewMessages == {<<110>>}
=============================================================================
