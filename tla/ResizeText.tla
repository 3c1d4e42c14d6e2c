----------------------------- MODULE ResizeText -----------------------------
(***************************************************************************)
(* The values of --resize: `parse_resize` and `parse_resize_fit` of        *)
(* src/params.rs, and `resize_policy_to_string` of src/main.rs, which      *)
(* writes the policy into the reports.                                     *)
(*                                                                         *)
(* A text is taken as split at its separators: the word in front, and the  *)
(* numbers behind it, NaN for one that is no integer.                      *)
(*    none                        <<"none">>                               *)
(*    cap=7                       <<"cap", 7>>                             *)
(*    auto:portrait=3,landscape=5 <<"auto", <<"portrait", 3>>, ... >>      *)
(*    fit=cover long-edge=9       <<"fit", "cover", 9>>                    *)
(***************************************************************************)
EXTENDS Resize, Sequences, SequencesExt

CONSTANTS
    NaN,
    LongEdgeMax       \* 20000 in the program

ASSUME TextAssumption == NaN \notin Int /\ LongEdgeMax \in Nat

\* What splitting a value of --resize gives: a sequence, whose first word tells
\* how long it is.
IsText(text) ==
    /\ Len(text) \in Nat \ {0} /\ text = [p \in 1 .. Len(text) |-> text[p]]
    /\ CASE text[1] = "cap"  -> Len(text) = 2
         [] text[1] = "fit"  -> Len(text) = 3
         [] text[1] = "auto" -> TRUE
         [] OTHER            -> Len(text) = 1

\* A policy that --resize can ask for.
Expressible(policy) ==
    policy \in Policy /\ (policy.shape = "fit" => policy.long_edge <= LongEdgeMax)

\* Zero is refused by a check of its own.
Number(n) == {n} \cap Side

\* Mutant of TakePair: the first value of a key is kept.
TakePairOnce(caps, pair) ==
    {IF c[pair[1]] = 0 THEN [c EXCEPT ![pair[1]] = n] ELSE c :
        c \in {d \in caps : pair[1] \in DOMAIN d}, n \in Number(pair[2])}
\* One round of the loop over the pairs; caps is {} once it has refused one.
TakePair(caps, pair) ==
    {[c EXCEPT ![pair[1]] = n] :
        c \in {d \in caps : pair[1] \in DOMAIN d}, n \in Number(pair[2])}

\* parse_resize of a text that starts with "auto:"; 0 stands for no value.
ParseAuto(pairs) ==
    LET none == [portrait |-> 0, landscape |-> 0]
        caps == FoldLeft(TakePair, {none}, pairs)
    IN {PortraitLandscape(c.portrait, c.landscape) :
           c \in {d \in caps : d.portrait \in Side /\ d.landscape \in Side}}

\* The policy a text stands for, or none.
ParseResize(text) ==
    CASE text[1] = "none" -> {NoResize}
      [] text[1] = "cap"  -> {MaxWidth(w) : w \in Number(text[2])}
      [] text[1] = "auto" -> ParseAuto(Tail(text))
      [] text[1] = "fit"  ->
            {Fit(text[2], n) : n \in
                {m \in Number(text[3]) : /\ m <= LongEdgeMax
                                         /\ text[2] \in {"contain", "cover", "stretch"}}}
      [] OTHER -> {}

\* Mutant of ToText: the keys change places.
ToTextSwapped(policy) ==
    CASE policy.shape = "none" -> <<"none">>
      [] policy.shape = "cap"  -> <<"cap", policy.cap>>
      [] policy.shape = "auto" -> <<"auto", <<"portrait", policy.landscape>>,
                                            <<"landscape", policy.portrait>>>>
      [] policy.shape = "fit"  -> <<"fit", policy.mode, policy.long_edge>>
\* resize_policy_to_string.
ToText(policy) ==
    CASE policy.shape = "none" -> <<"none">>
      [] policy.shape = "cap"  -> <<"cap", policy.cap>>
      [] policy.shape = "auto" -> <<"auto", <<"portrait", policy.portrait>>,
                                            <<"landscape", policy.landscape>>>>
      [] policy.shape = "fit"  -> <<"fit", policy.mode, policy.long_edge>>

\* What a text asks for, without a loop: every pair has a known key and a
\* positive number, both keys occur, and the last pair of a key counts.
LastOf(key, pairs) ==
    LET at == {p \in 1 .. Len(pairs) : pairs[p][1] = key}
    IN pairs[CHOOSE p \in at : \A q \in at : q <= p][2]
AsksFor(text, policy) ==
    CASE policy.shape = "none" -> text = <<"none">>
      [] policy.shape = "cap"  -> text = <<"cap", policy.cap>>
      [] policy.shape = "fit"  -> text = <<"fit", policy.mode, policy.long_edge>>
      [] policy.shape = "auto" ->
            LET pairs == Tail(text)
            IN /\ text[1] = "auto"
               /\ \A p \in 1 .. Len(pairs) :
                     pairs[p][1] \in {"portrait", "landscape"} /\ pairs[p][2] \in Side
               /\ LastOf("portrait", pairs) = policy.portrait
               /\ LastOf("landscape", pairs) = policy.landscape
=============================================================================
