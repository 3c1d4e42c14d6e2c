------------------------------ MODULE JsonText ------------------------------
(***************************************************************************)
(* Strings in the JSON reports: `write_json_string` of src/report.rs, and  *)
(* what a reader that follows RFC 8259 makes of the literal.  A string is  *)
(* a sequence of code points.                                              *)
(***************************************************************************)
EXTENDS Integers, Sequences, SequencesExt

Quote     == 34
Backslash == 92
LetterU   == 117

\* \" \\ \n \r \t \b \f
ShortEscape == [c \in {34, 92, 10, 13, 9, 8, 12} |->
    CASE c \in {34, 92} -> c
      [] c = 10 -> 110 [] c = 13 -> 114 [] c = 9 -> 116 [] c = 8 -> 98 [] c = 12 -> 102]

\* A lower-case hexadecimal digit.
HexDigit(d) == IF d < 10 THEN 48 + d ELSE 87 + d

\* Mutant of Escaped: the backslash is written as it is.
EscapedButBackslash(c) ==
    IF c \in DOMAIN ShortEscape \ {92} THEN <<Backslash, ShortEscape[c]>>
    ELSE IF c < 32
      THEN <<Backslash, LetterU, 48, 48, HexDigit(c \div 16), HexDigit(c % 16)>>
      ELSE <<c>>
\* One round of the loop: the short escapes, \u00XX for the other control
\* characters, and everything else as it is.
Escaped(c) ==
    IF c \in DOMAIN ShortEscape THEN <<Backslash, ShortEscape[c]>>
    ELSE IF c < 32
      THEN <<Backslash, LetterU, 48, 48, HexDigit(c \div 16), HexDigit(c % 16)>>
      ELSE <<c>>

WriteJsonString(s) ==
    <<Quote>> \o FlattenSeq([p \in 1 .. Len(s) |-> Escaped(s[p])]) \o <<Quote>>

-----------------------------------------------------------------------------
(***************************************************************************)
(* RFC 8259, section 7                                                     *)
(***************************************************************************)

NoString == <<-1>>

HexValue(c) ==
    CASE c \in 48 .. 57  -> c - 48
      [] c \in 97 .. 102 -> c - 87
      [] c \in 65 .. 70  -> c - 55
      [] OTHER           -> -1

\* The code point that \uXXXX at p stands for, and the one of a short escape.
\* (The writer has no use for \/ and for surrogate pairs; the reader takes the
\* former and leaves the latter apart.)
Unicode(line, p) ==
    LET digit == [k \in 1 .. 4 |-> HexValue(line[p + 1 + k])]
    IN IF p + 5 > Len(line) \/ line[p + 1] # LetterU \/ \E k \in 1 .. 4 : digit[k] < 0
         THEN {}
         ELSE {4096 * digit[1] + 256 * digit[2] + 16 * digit[3] + digit[4]}
Short(c) ==
    {o \in DOMAIN ShortEscape : ShortEscape[o] = c} \cup (IF c = 47 THEN {47} ELSE {})

\* The character at p and the position behind it; none if a control character
\* or a quote stands there, or an escape that is not one.
CharAt(line, p) ==
    IF p > Len(line) \/ line[p] < 32 \/ line[p] = Quote THEN {}
    ELSE IF line[p] # Backslash THEN {<<line[p], p + 1>>}
    ELSE IF p = Len(line) THEN {}
    ELSE {<<c, p + 6>> : c \in Unicode(line, p)}
           \cup {<<c, p + 2>> : c \in Short(line[p + 1])}

\* The string from p to the closing quote, given the strings from the later
\* positions.
ReadFrom(line, later, p) ==
    LET char == CHOOSE char \in CharAt(line, p) : TRUE
    IN IF p = Len(line) /\ line[p] = Quote THEN << >>
       ELSE IF CharAt(line, p) = {} \/ later[char[2]] = NoString THEN NoString
       ELSE <<char[1]>> \o later[char[2]]

\* The string a literal stands for, NoString if it is none.
ReadJsonString(line) ==
    LET from[p \in 1 .. Len(line) + 1] == ReadFrom(line, from, p)
    IN IF Len(line) > 1 /\ line[1] = Quote THEN from[2] ELSE NoString
=============================================================================
