-------------------------- MODULE CommandLineProofs --------------------------
(***************************************************************************)
(* Theorems about the command line and the forwarder, for every vocabulary *)
(* and every length of a command line.                                     *)
(*                                                                         *)
(* The properties speak of Options, the positions at which an option       *)
(* starts, which is a CHOOSE: the first lemma shows that there is such a   *)
(* set.  The invariant is stated for every set that IsOptions, and says    *)
(* that the loop has stood at its members below i, and nowhere else.       *)
(***************************************************************************)
EXTENDS GalleryCompress, FiniteSetTheorems, SequenceTheorems, TLAPS

(***************************************************************************)
(* The positions of the options                                            *)
(***************************************************************************)

LEMMA WidthType == \A p : Width(p) \in 1 .. 3
BY DEF Width

\* The smallest set that holds the first position, and with each option the
\* place behind it, is a set of options.
LEMMA OptionsExist ==
    ASSUME Len(args) \in Nat
    PROVE  Options \in SUBSET (1 .. Len(args)) /\ IsOptions(Options)
<1> DEFINE P == 1 .. Len(args)
           Closed(S) == /\ Len(args) > 0 => 1 \in S
                        /\ \A p \in S : p + Width(p) <= Len(args) => p + Width(p) \in S
           O == {q \in P : \A S \in SUBSET P : Closed(S) => q \in S}
<1>1. O \in SUBSET P
  OBVIOUS
<1>2. Closed(O)
  <2>1. Len(args) > 0 => 1 \in O
    OBVIOUS
  <2>2. ASSUME NEW p \in O, p + Width(p) <= Len(args) PROVE p + Width(p) \in O
    <3>1. p \in P /\ p + Width(p) \in P
      BY <2>2, WidthType
    <3>2. ASSUME NEW S \in SUBSET P, Closed(S) PROVE p + Width(p) \in S
      BY <2>2, <3>2
    <3> QED
      BY <3>1, <3>2
  <2> QED
    BY <2>1, <2>2
<1>3. ASSUME NEW q \in O \ {1} PROVE \E p \in O : q = p + Width(p)
  <2>1. SUFFICES ASSUME \A p \in O : q # p + Width(p) PROVE FALSE
    OBVIOUS
  <2>2. Closed(O \ {q})
    BY <1>2, <1>3, <2>1
  <2>3. O \ {q} \in SUBSET P
    BY <1>1
  <2> HIDE DEF Closed
  <2> QED
    BY <1>3, <2>2, <2>3
<1>4. IsOptions(O)
  BY <1>2, <1>3 DEF IsOptions
<1> HIDE DEF O
<1> QED
  BY <1>1, <1>4 DEF Options

\* The arguments do not change, and with them all that is said of them.
LEMMA ArgsStay ==
    ASSUME args' = args
    PROVE  /\ \A p : Width(p)' = Width(p)
           /\ \A p : Accepted(p)' <=> Accepted(p)
           /\ \A O : IsOptions(O)' <=> IsOptions(O)
<1>1. \A p : Width(p)' = Width(p)
  BY DEF Width
<1>2. \A p : Accepted(p)' <=> Accepted(p)
  BY <1>1 DEF Accepted
<1>3. \A O : IsOptions(O)' <=> IsOptions(O)
  BY <1>1 DEF IsOptions
<1> QED
  BY <1>1, <1>2, <1>3

(***************************************************************************)
(* The loop                                                                *)
(***************************************************************************)

\* The options the loop has taken.
Taken(O) == {p \in O : p < i}

\* The loop is at an option or behind the last one, and skips none.
PositionInv(O) ==
    /\ i \in O \/ i = Len(args) + 1
    /\ \A p \in Taken(O) : p + Width(p) <= i

LEMMA Advance ==
    ASSUME NEW O \in SUBSET (1 .. Len(args)), IsOptions(O), PositionInv(O),
           args \in Seq(Argument), i \in 1 .. Len(args),
           args' = args, i' = i + Width(i), i' <= Len(args) + 1
    PROVE  /\ i \in O
           /\ Taken(O)' = Taken(O) \cup {i}
           /\ PositionInv(O)'
<1>1. Len(args) \in Nat /\ Len(args)' = Len(args) /\ Width(i) \in 1 .. 3
  BY WidthType
<1>2. i \in O
  BY <1>1 DEF PositionInv
<1>3. ASSUME NEW q \in O, i < q, q < i'
      PROVE  FALSE
  <2>1. ASSUME NEW r \in O, i < r, NEW p \in O, r = p + Width(p), p <= i
        PROVE  r >= i'
    <3>1. CASE p = i
      BY <2>1, <3>1
    <3>2. CASE p < i
      BY <2>1, <3>2 DEF PositionInv, Taken
    <3> QED
      BY <2>1, <3>1, <3>2
  <2>2. i + 1 \notin O \/ i + 1 >= i'
    <3>1. ASSUME i + 1 \in O PROVE i + 1 >= i'
      <4>1. PICK p \in O : i + 1 = p + Width(p)
        BY <3>1 DEF IsOptions
      <4>2. p <= i
        BY <4>1, WidthType
      <4> QED
        BY <2>1, <3>1, <4>1, <4>2
    <3> QED
      BY <3>1
  <2>3. q = i + 2 /\ i' = i + 3
    BY <1>1, <1>3, <2>2
  <2>4. PICK p \in O : q = p + Width(p)
    BY <1>3 DEF IsOptions
  <2>5. p <= i
    BY <2>2, <2>3, <2>4, WidthType
  <2> QED
    BY <1>3, <2>1, <2>4, <2>5
<1>4. Taken(O)' = Taken(O) \cup {i}
  <2>1. Taken(O)' = {p \in O : p < i'} /\ Taken(O) = {p \in O : p < i}
    BY DEF Taken
  <2>2. ASSUME NEW p \in O PROVE p < i' <=> p < i \/ p = i
    <3>1. p \in Int /\ i < i' /\ i' \in Int
      BY <1>1
    <3> QED
      BY <1>3, <3>1
  <2> QED
    BY <1>2, <2>1, <2>2
<1>5. i' \in O \/ i' = Len(args)' + 1
  BY <1>1, <1>2 DEF IsOptions
<1>6. \A p \in Taken(O)' : p + Width(p) <= i'
  <2>1. ASSUME NEW p \in Taken(O) PROVE p + Width(p) <= i'
    <3>1. p + Width(p) <= i /\ p \in Int /\ Width(p) \in Int
      BY WidthType DEF PositionInv, Taken
    <3> QED
      BY <1>1, <3>1
  <2>2. i + Width(i) <= i'
    BY <1>1
  <2> QED
    BY <1>4, <2>1, <2>2
<1>7. \A p : Width(p)' = Width(p)
  BY ArgsStay
<1> QED
  BY <1>2, <1>4, <1>5, <1>6, <1>7 DEF PositionInv

\* What the loop has read: each setting from the last option that gave it.
ReadAt(f, p) ==
    IF f = "--resize" THEN cli[f] = SubSeq(args, p + 1, p + Width(p) - 1)
    ELSE cli[f] = <<cli[f][1]>> /\ Parsed(f, args[p + 1]) = {cli[f][1]}

LastRead(O, f) ==
    \/ cli[f] = << >> /\ \A p \in Taken(O) : args[p] # f
    \/ \E p \in Taken(O) :
          /\ args[p] = f /\ ReadAt(f, p)
          /\ \A q \in Taken(O) : args[q] = f => q <= p

Valued == ValueFlag \cup {"--resize"}
ValuesInv(O) == \A f \in Valued : LastRead(O, f)

IsDirectory(p)  == args[p] \notin Dashed \cup Known
IsSingleFlag(p) == args[p] \in {"--single-file", "-1"}

\* What the loop has accepted: complete options, and at most one directory.
ModeInv(O) ==
    /\ \A p \in Taken(O) : Accepted(p)
    /\ cli["dir"] = << >> <=> \A p \in Taken(O) : ~IsDirectory(p)
    /\ \A p \in Taken(O) : IsDirectory(p) => cli["dir"] = <<args[p]>>
    /\ \A p, q \in Taken(O) : IsDirectory(p) /\ IsDirectory(q) => p = q
    /\ cli["--single-file"] = << >> <=> \A p \in Taken(O) : ~IsSingleFlag(p)

LoopInv(O) == PositionInv(O) /\ ValuesInv(O) /\ ModeInv(O)

LEMMA FlagsDiffer ==
    /\ "--resize" \notin ValueFlag \cup Switch /\ "dir" \notin Valued /\ "--single-file" \notin Valued
    /\ ValueFlag \cap Switch = {} /\ "-1" \notin Valued /\ "-h" \notin Valued \cup Switch
    /\ Valued \subseteq Known /\ Switch \subseteq Known /\ "-1" \in Known /\ "-h" \in Known
    /\ "--help" \notin Valued \cup Switch \cup {"-1"} /\ "--help" \in Known
    /\ Valued \subseteq Fields /\ Switch \subseteq Fields /\ "dir" \in Fields
    /\ "--single-file" \in Switch /\ "dir" \notin Switch
BY DEF Valued, ValueFlag, Switch, Short, Known, Fields

\* Leaving args, i and cli alone keeps what is said of them.
LEMMA LoopStays ==
    ASSUME NEW O, LoopInv(O), UNCHANGED <<args, i, cli>>
    PROVE  LoopInv(O)'
<1>1. /\ \A p : Width(p)' = Width(p)
      /\ \A p : Accepted(p)' <=> Accepted(p)
  BY ArgsStay
<1>2. Taken(O)' = Taken(O)
  BY DEF Taken
<1>3. PositionInv(O)'
  BY <1>1, <1>2 DEF LoopInv, PositionInv
<1>4. ValuesInv(O)'
  <2>1. ASSUME NEW f \in Valued PROVE LastRead(O, f)'
    <3>1. LastRead(O, f) /\ args' = args /\ cli' = cli
      BY DEF LoopInv, ValuesInv
    <3>2. \A p : ReadAt(f, p)' <=> ReadAt(f, p)
      BY <1>1, <3>1 DEF ReadAt
    <3> QED
      BY <1>2, <3>1, <3>2 DEF LastRead
  <2> QED
    BY <2>1 DEF ValuesInv
<1>5. ModeInv(O)'
  BY <1>1, <1>2 DEF LoopInv, ModeInv, IsDirectory, IsSingleFlag
<1> QED
  BY <1>3, <1>4, <1>5 DEF LoopInv

\* An option that is accepted and stored in its own field.
LEMMA StoreKeeps ==
    ASSUME NEW O \in SUBSET (1 .. Len(args)), IsOptions(O), LoopInv(O), DOMAIN cli = Fields,
           args \in Seq(Argument), i \in 1 .. Len(args), Accepted(i),
           NEW field \in Fields, NEW value, Store(field, value, Width(i)), value # << >>,
           field = "dir" <=> IsDirectory(i),
           field = "dir" => cli["dir"] = << >> /\ value = <<args[i]>>,
           field = "--single-file" <=> IsSingleFlag(i),
           \A f \in Valued : args[i] = f <=> field = f,
           field = "--resize" => value = SubSeq(args, i + 1, i + Width(i) - 1),
           field \in ValueFlag => value = <<value[1]>> /\ Parsed(field, args[i + 1]) = {value[1]}
    PROVE  LoopInv(O)'
<1>1. /\ args' = args /\ i' = i + Width(i) /\ cli' = [cli EXCEPT ![field] = value]
  BY DEF Store
<1>2. Len(args) \in Nat /\ Width(i) \in 1 .. 3 /\ i' <= Len(args) + 1
  BY <1>1, WidthType DEF Accepted
<1>3. i \in O /\ Taken(O)' = Taken(O) \cup {i} /\ PositionInv(O)'
  BY <1>1, <1>2, Advance DEF LoopInv
<1>4. /\ \A p : Width(p)' = Width(p)
      /\ \A p : Accepted(p)' <=> Accepted(p)
  BY <1>1, ArgsStay
<1>5. /\ cli'[field] = value
      /\ \A f \in Fields : f # field => cli'[f] = cli[f]
  BY <1>1
<1>6. \A p \in Taken(O) : p < i /\ p \in Int
  BY DEF Taken
<1>7. ASSUME NEW f \in Valued PROVE LastRead(O, f)'
  <2>1. LastRead(O, f)
    BY DEF LoopInv, ValuesInv
  <2>2. CASE f = field
    <3>1. PICK p \in O : p = i
      BY <1>3
    <3>2. args'[p] = f /\ cli'[f] = value /\ p \in Taken(O)'
      BY <1>1, <1>3, <1>5, <2>2, <3>1
    <3>3. ReadAt(f, p)'
      <4>1. CASE f = "--resize"
        <5>1. cli'[f] = SubSeq(args', p + 1, p + Width(p) - 1)
          BY <1>1, <2>2, <3>1, <3>2, <4>1
        <5> QED
          BY <1>4, <4>1, <5>1 DEF ReadAt
      <4>2. CASE f # "--resize"
        <5>1. f \in ValueFlag
          BY <4>2 DEF Valued
        <5>2. cli'[f] = <<cli'[f][1]>> /\ Parsed(f, args'[p + 1]) = {cli'[f][1]}
          BY <1>1, <2>2, <3>1, <3>2, <5>1
        <5> QED
          BY <4>2, <5>2 DEF ReadAt
      <4> QED
        BY <4>1, <4>2
    <3>4. \A q \in Taken(O)' : args'[q] = f => q <= p
      BY <1>3, <1>6, <3>1
    <3> QED
      BY <3>2, <3>3, <3>4 DEF LastRead
  <2>3. CASE f # field
    <3>1. args[i] # f /\ cli'[f] = cli[f]
      BY <1>5, <2>3, FlagsDiffer
    <3>2. \A p : ReadAt(f, p)' <=> ReadAt(f, p)
      BY <1>1, <1>4, <3>1 DEF ReadAt
    <3> QED
      BY <1>1, <1>3, <2>1, <3>1, <3>2 DEF LastRead
  <2> QED
    BY <2>2, <2>3
<1>8. ModeInv(O)'
  <2>1. ModeInv(O)
    BY DEF LoopInv
  <2>2. \A p : (IsDirectory(p)' <=> IsDirectory(p)) /\ (IsSingleFlag(p)' <=> IsSingleFlag(p))
    BY <1>1 DEF IsDirectory, IsSingleFlag
  <2>3. \A p \in Taken(O)' : Accepted(p)'
    BY <1>3, <1>4, <2>1 DEF ModeInv
  <2>4. (cli["dir"] = << >> <=> \A p \in Taken(O) : ~IsDirectory(p))'
    BY <1>3, <1>5, <2>1, <2>2, FlagsDiffer DEF ModeInv
  <2>5. (cli["--single-file"] = << >> <=> \A p \in Taken(O) : ~IsSingleFlag(p))'
    BY <1>3, <1>5, <2>1, <2>2, FlagsDiffer DEF ModeInv
  <2>6. (\A p, q \in Taken(O) : IsDirectory(p) /\ IsDirectory(q) => p = q)'
    BY <1>3, <2>1, <2>2 DEF ModeInv
  <2>7. (\A p \in Taken(O) : IsDirectory(p) => cli["dir"] = <<args[p]>>)'
    <3>1. CASE field = "dir"
      <4>1. \A p \in Taken(O) : ~IsDirectory(p)
        BY <2>1, <3>1 DEF ModeInv
      <4> QED
        BY <1>1, <1>3, <1>5, <2>2, <3>1, <4>1
    <3>2. CASE field # "dir"
      BY <1>1, <1>3, <1>5, <2>1, <2>2, <3>2, FlagsDiffer DEF ModeInv
    <3> QED
      BY <3>1, <3>2
  <2> QED
    BY <2>3, <2>4, <2>5, <2>6, <2>7 DEF ModeInv
<1> QED
  BY <1>3, <1>7, <1>8 DEF LoopInv, ValuesInv

(***************************************************************************)
(* What Accepted says of each kind of argument                             *)
(***************************************************************************)

LEMMA ValueAccepted ==
    ASSUME i \in 1 .. Len(args), Len(args) \in Nat, args[i] \in ValueFlag
    PROVE  /\ Width(i) = 2
           /\ Accepted(i) <=> i < Len(args) /\ Parsed(args[i], args[i + 1]) # {}
<1>1. Width(i) = 2
  BY FlagsDiffer DEF Width
<1>2. i + 2 - 1 <= Len(args) <=> i < Len(args)
  OBVIOUS
<1> QED
  BY <1>1, <1>2, FlagsDiffer DEF Accepted

LEMMA ResizeAccepted ==
    ASSUME i \in 1 .. Len(args), Len(args) \in Nat, args[i] = "--resize"
    PROVE  /\ i < Len(args) /\ args[i + 1] \in Legacy => Width(i) = 2 /\ Accepted(i)
           /\ i + 1 < Len(args) /\ args[i + 1] \in FitMode /\ args[i + 2] \in LongEdge
                 => Width(i) = 3 /\ Accepted(i)
           /\ Accepted(i) => \/ i < Len(args) /\ args[i + 1] \in Legacy
                             \/ /\ i + 1 < Len(args)
                                /\ args[i + 1] \in FitMode /\ args[i + 2] \in LongEdge
<1>1. args[i] \notin ValueFlag
  BY FlagsDiffer
<1>2. Width(i) = IF i < Len(args) /\ args[i + 1] \in FitWord THEN 3 ELSE 2
  BY <1>1 DEF Width
<1>3. Accepted(i) <=>
         /\ i + Width(i) - 1 <= Len(args)
         /\ IF Width(i) = 3 THEN args[i + 1] \in FitMode /\ args[i + 2] \in LongEdge
            ELSE args[i + 1] \in Legacy
  BY <1>1 DEF Accepted
<1> QED
  BY <1>2, <1>3, ArgumentAssumption

LEMMA OtherAccepted ==
    ASSUME i \in 1 .. Len(args), Len(args) \in Nat, args[i] \notin Valued
    PROVE  /\ Width(i) = 1
           /\ Accepted(i) <=>
                 args[i] \in Switch \cup {"-1"} \cup (Argument \ (Dashed \cup Known))
<1>1. args[i] \notin ValueFlag /\ args[i] # "--resize"
  BY DEF Valued
<1>2. Width(i) = 1
  BY <1>1 DEF Width
<1> QED
  BY <1>1, <1>2 DEF Accepted

LEMMA ParsedIsOne ==
    ASSUME NEW flag \in ValueFlag, NEW a, NEW v \in Parsed(flag, a)
    PROVE  Parsed(flag, a) = {v}
BY DEF Parsed, NumberIn, ValueFlag

LEMMA SubSeqShort ==
    ASSUME NEW S, NEW s \in Seq(S), NEW k \in 1 .. Len(s)
    PROVE  /\ SubSeq(s, k, k) = <<s[k]>>
           /\ k < Len(s) => SubSeq(s, k, k + 1) = <<s[k], s[k + 1]>>
<1>1. SubSeq(s, k, k) = <<s[k]>>
  <2> DEFINE t == SubSeq(s, k, k)
  <2>1. t \in Seq(S) /\ Len(t) = 1 /\ t[1] = s[k]
    BY SubSeqProperties
  <2> HIDE DEF t
  <2>2. t = <<s[k]>>
    BY <2>1
  <2> QED
    BY <2>2 DEF t
<1>2. ASSUME k < Len(s) PROVE SubSeq(s, k, k + 1) = <<s[k], s[k + 1]>>
  <2> DEFINE t == SubSeq(s, k, k + 1)
  <2>1. t \in Seq(S) /\ Len(t) = 2 /\ t[1] = s[k] /\ t[2] = s[k + 1]
    BY <1>2, SubSeqProperties
  <2> HIDE DEF t
  <2>2. t = <<s[k], s[k + 1]>>
    BY <2>1
  <2> QED
    BY <2>2 DEF t
<1> QED
  BY <1>1, <1>2

(***************************************************************************)
(* The stages                                                              *)
(***************************************************************************)

\* The command line is none that the loop accepts.
Refused(O) ==
    \/ \E p \in O : ~Accepted(p)
    \/ \E p, q \in O : p # q /\ IsDirectory(p) /\ IsDirectory(q)

OneMode == (cli["--single-file"] = << >>) # (cli["dir"] = << >>)
AtGates == i = Len(args) + 1 /\ OneMode

\* The questions of the gates, about what the loop has stored.
FdPasses    == report_fd = 2 \/ (report_fd # 1 /\ host.writable)
BaseFound   == Single \/ cli["dir"][1] \in Slashed \/ host.gallery_base
FolderFound == Single \/ host.is_dir
CodecFound  == output_format # "heic" /\ input_format # output_format

\* Each gate is passed in its turn, and the code tells which one was not.
StageInv(O) ==
    /\ stage \notin {"args", "exited"} => AtGates
    /\ stage \in {"directory", "codec", "batch", "single"} => FdPasses
    /\ stage = "directory" => ~Single
    /\ stage \in {"codec", "batch", "single"} => BaseFound /\ FolderFound
    /\ stage \in {"batch", "single"} => CodecFound
    /\ stage = "exited" /\ i <= Len(args) => Refused(O)
    /\ exit # NoExit <=> stage = "exited"
    /\ exit = 1 => AtGates /\ FdPasses /\ BaseFound /\ ~FolderFound
    /\ exit = 2 /\ AtGates =>
          ~FdPasses \/ ~BaseFound \/ (FolderFound /\ ~CodecFound)

\* A round of the loop stores an accepted option, or refuses what is none.
LEMMA RoundKeeps ==
    ASSUME NEW O \in SUBSET (1 .. Len(args)), IsOptions(O), LoopInv(O), TypeOK,
           TakeValue \/ TakeResize \/ TakeSwitch \/ TakeUnknown \/ TakeDirectory
    PROVE  /\ i \in 1 .. Len(args) /\ stage = "args"
           /\ \/ LoopInv(O)' /\ UNCHANGED <<args, stage, exit, host>>
              \/ Refuse /\ Refused(O)
<1>1. i \in 1 .. Len(args) /\ stage = "args" /\ Len(args) \in Nat
  <2>1. \E a : At(a)
    BY DEF TakeValue, TakeResize, TakeSwitch, TakeUnknown, TakeDirectory
  <2> QED
    BY <2>1 DEF TypeOK, At
<1>2. i \in O
  BY <1>1 DEF LoopInv, PositionInv
<1>3. ~Accepted(i) => Refused(O)
  BY <1>2 DEF Refused
<1>4. args \in Seq(Argument) /\ DOMAIN cli = Fields
  BY DEF TypeOK
<1>5. ASSUME NEW field, NEW value, NEW width, Store(field, value, width)
      PROVE  UNCHANGED <<args, stage, exit, host>>
  BY <1>5 DEF Store
<1>6. CASE TakeValue
  <2>1. PICK flag \in ValueFlag :
           /\ At(flag)
           /\ IF i < Len(args) /\ Parsed(flag, args[i + 1]) # {}
                THEN \E v \in Parsed(flag, args[i + 1]) : Store(flag, <<v>>, 2)
                ELSE Refuse
    BY <1>6 DEF TakeValue
  <2>2. args[i] = flag
    BY <2>1 DEF At
  <2>3. /\ Width(i) = 2
        /\ Accepted(i) <=> i < Len(args) /\ Parsed(flag, args[i + 1]) # {}
    BY <1>1, <2>2, ValueAccepted
  <2>4. CASE ~Accepted(i)
    BY <1>1, <1>3, <2>1, <2>3, <2>4
  <2>5. CASE Accepted(i)
    <3>1. PICK v \in Parsed(flag, args[i + 1]) : Store(flag, <<v>>, 2)
      BY <2>1, <2>3, <2>5
    <3>2. Parsed(flag, args[i + 1]) = {v}
      BY ParsedIsOne
    <3>3. DEFINE value == <<v>>
    <3>4. value # << >> /\ value[1] = v /\ value = <<value[1]>>
      OBVIOUS
    <3> HIDE DEF value
    <3>5. Store(flag, value, Width(i))
      BY <2>3, <3>1 DEF value
    <3>6. /\ flag \in Fields /\ flag # "dir" /\ flag # "--single-file" /\ flag # "--resize"
          /\ ~IsDirectory(i) /\ ~IsSingleFlag(i)
      BY <2>2, FlagsDiffer DEF IsDirectory, IsSingleFlag, Valued
    <3>7. LoopInv(O)'
      BY <1>1, <1>4, <2>2, <2>5, <3>2, <3>4, <3>5, <3>6, StoreKeeps
    <3> QED
      BY <1>1, <1>5, <3>1, <3>7
  <2> QED
    BY <2>4, <2>5
<1>7. CASE TakeResize
  <2>1. args[i] = "--resize"
    BY <1>7 DEF TakeResize, At
  <2>2. /\ "--resize" \in Fields /\ "--resize" # "dir" /\ "--resize" # "--single-file"
        /\ "--resize" \notin ValueFlag /\ ~IsDirectory(i) /\ ~IsSingleFlag(i)
    BY <2>1, FlagsDiffer DEF IsDirectory, IsSingleFlag, Valued
  <2>3. ASSUME NEW value, Store("--resize", value, Width(i)), Accepted(i), value # << >>,
               value = SubSeq(args, i + 1, i + Width(i) - 1)
        PROVE  LoopInv(O)'
    BY <1>1, <1>4, <2>1, <2>2, <2>3, StoreKeeps
  <2>4. CASE /\ i < Len(args) /\ args[i + 1] \in Legacy
             /\ Store("--resize", <<args[i + 1]>>, 2)
    <3>1. Width(i) = 2 /\ Accepted(i)
      BY <1>1, <2>1, <2>4, ResizeAccepted
    <3>2. SubSeq(args, i + 1, i + 2 - 1) = <<args[i + 1]>>
      <4>1. SubSeq(args, i + 1, i + 1) = <<args[i + 1]>>
        BY <1>1, <1>4, <2>4, SubSeqShort
      <4> QED
        BY <1>1, <4>1
    <3>3. <<args[i + 1]>> # << >>
      OBVIOUS
    <3>4. LoopInv(O)'
      BY <2>3, <2>4, <3>1, <3>2, <3>3
    <3> QED
      BY <1>1, <1>5, <2>4, <3>4
  <2>5. CASE /\ i + 1 < Len(args)
             /\ args[i + 1] \in FitMode /\ args[i + 2] \in LongEdge
             /\ Store("--resize", <<args[i + 1], args[i + 2]>>, 3)
    <3>1. Width(i) = 3 /\ Accepted(i)
      BY <1>1, <2>1, <2>5, ResizeAccepted
    <3>2. SubSeq(args, i + 1, i + 3 - 1) = <<args[i + 1], args[i + 2]>>
      <4>1. SubSeq(args, i + 1, i + 1 + 1) = <<args[i + 1], args[i + 1 + 1]>>
        BY <1>1, <1>4, <2>5, SubSeqShort
      <4>2. i + 1 + 1 = i + 2 /\ i + 3 - 1 = i + 2
        BY <1>1
      <4> QED
        BY <4>1, <4>2
    <3>3. <<args[i + 1], args[i + 2]>> # << >>
      OBVIOUS
    <3>4. LoopInv(O)'
      BY <2>3, <2>5, <3>1, <3>2, <3>3
    <3> QED
      BY <1>1, <1>5, <2>5, <3>4
  <2>6. CASE /\ ~(i < Len(args) /\ args[i + 1] \in Legacy)
             /\ ~(i + 1 < Len(args) /\ args[i + 1] \in FitMode /\ args[i + 2] \in LongEdge)
             /\ Refuse
    BY <1>1, <1>3, <2>1, <2>6, ResizeAccepted
  <2> QED
    BY <1>7, <2>4, <2>5, <2>6 DEF TakeResize
<1>8. ASSUME NEW s \in Switch, Store(s, <<TRUE>>, 1), args[i] = s \/ (args[i] = "-1" /\ s = "--single-file")
      PROVE  LoopInv(O)'
  <2>1. args[i] \in Switch \cup {"-1"}
    BY <1>8
  <2>2. args[i] \notin Valued /\ s \notin Valued
    BY <1>8, FlagsDiffer DEF Valued
  <2>3. Width(i) = 1 /\ Accepted(i)
    BY <1>1, <2>1, <2>2, OtherAccepted
  <2>4. /\ s \in Fields /\ s # "dir" /\ ~IsDirectory(i)
        /\ s = "--single-file" <=> IsSingleFlag(i)
    BY <1>8, FlagsDiffer DEF IsDirectory, IsSingleFlag, Switch
  <2>5. <<TRUE>> # << >> /\ Store(s, <<TRUE>>, Width(i))
    BY <1>8, <2>3
  <2>6. s # "--resize" /\ s \notin ValueFlag
    BY <2>2 DEF Valued
  <2> DEFINE value == <<TRUE>>
  <2> HIDE DEF value
  <2>7. value # << >> /\ Store(s, value, Width(i))
    BY <2>5 DEF value
  <2> QED
    BY <1>1, <1>4, <2>2, <2>3, <2>4, <2>6, <2>7, StoreKeeps
<1>9. CASE TakeSwitch
  <2>1. \/ \E s \in Switch : args[i] = s /\ Store(s, <<TRUE>>, 1)
        \/ args[i] = "-1" /\ Store("--single-file", <<TRUE>>, 1)
    BY <1>9 DEF TakeSwitch, At
  <2> QED
    BY <1>1, <1>5, <1>8, <2>1, FlagsDiffer
<1>10. CASE TakeUnknown
  <2>1. Refuse /\ args[i] \in (Dashed \ (Known \ {"--help"})) \cup {"-h"}
    BY <1>10 DEF TakeUnknown, At
  <2>2. args[i] \notin Valued /\ args[i] \notin Switch \cup {"-1"}
        /\ args[i] \in Dashed \cup Known
    BY <2>1, FlagsDiffer
  <2>3. ~Accepted(i)
    BY <1>1, <2>2, OtherAccepted
  <2> QED
    BY <1>1, <1>3, <2>1, <2>3
<1>11. CASE TakeDirectory
  <2>1. PICK a \in Argument \ (Dashed \cup Known) :
           At(a) /\ IF cli["dir"] = << >> THEN Store("dir", <<a>>, 1) ELSE Refuse
    BY <1>11 DEF TakeDirectory
  <2>2. args[i] = a /\ IsDirectory(i) /\ args[i] \notin Valued /\ ~IsSingleFlag(i)
    BY <2>1, FlagsDiffer DEF At, IsDirectory, IsSingleFlag
  <2>3. Width(i) = 1 /\ Accepted(i)
    BY <1>1, <2>1, <2>2, OtherAccepted
  <2>4. CASE cli["dir"] = << >>
    <3> DEFINE value == <<a>>
    <3>1. value # << >> /\ Store("dir", value, Width(i)) /\ value = <<args[i]>>
      BY <2>1, <2>2, <2>3, <2>4
    <3>2. "dir" \in Fields /\ "dir" # "--single-file" /\ "dir" # "--resize" /\ "dir" \notin ValueFlag
          /\ "dir" \notin Valued
      BY FlagsDiffer DEF Valued
    <3> HIDE DEF value
    <3>3. LoopInv(O)'
      BY <1>1, <1>4, <2>2, <2>3, <2>4, <3>1, <3>2, StoreKeeps
    <3> QED
      BY <1>1, <1>5, <3>1, <3>3
  <2>5. CASE cli["dir"] # << >>
    <3>1. PICK p \in Taken(O) : IsDirectory(p)
      BY <2>5 DEF LoopInv, ModeInv
    <3>2. p \in O /\ p # i
      BY <1>1, <3>1 DEF Taken
    <3> QED
      BY <1>1, <1>2, <2>1, <2>2, <2>5, <3>1, <3>2 DEF Refused
  <2> QED
    BY <2>4, <2>5
<1> QED
  BY <1>6, <1>7, <1>9, <1>10, <1>11

LEMMA GateKeeps ==
    ASSUME NEW O, LoopInv(O), StageInv(O), TypeOK,
           SelectMode \/ ValidateReportFd \/ ResolveDirectory \/ SelectCodec
    PROVE  LoopInv(O)' /\ StageInv(O)'
<1>1. UNCHANGED <<args, i, cli>>
  BY DEF SelectMode, ValidateReportFd, ResolveDirectory, SelectCodec, Refuse, Exit
<1>2. LoopInv(O)'
  BY <1>1, LoopStays
<1> SUFFICES StageInv(O)'
  BY <1>2
<1>3. /\ Len(args)' = Len(args) /\ AtGates' = AtGates /\ Single' = Single
      /\ report_fd' = report_fd /\ input_format' = input_format
      /\ output_format' = output_format /\ CodecFound' = CodecFound
      /\ i \in Int /\ Len(args) \in Nat
  BY <1>1 DEF AtGates, OneMode, Single, report_fd, input_format, output_format, CodecFound,
              Given, TypeOK
<1>4. exit = NoExit /\ NoExit # 1 /\ NoExit # 2
  BY DEF StageInv, SelectMode, ValidateReportFd, ResolveDirectory, SelectCodec, NoExit
<1>5. AtGates => ~(i <= Len(args))
  BY <1>3 DEF AtGates
<1>6. CASE SelectMode
  <2>1. i = Len(args) + 1
    BY <1>6, <1>3 DEF SelectMode, TypeOK
  <2>2. CASE ~OneMode /\ Refuse
    BY <1>1, <1>3, <1>4, <2>1, <2>2 DEF StageInv, AtGates, Refuse, Exit
  <2>3. CASE OneMode /\ stage' = "fd" /\ exit' = exit
    BY <1>3, <1>4, <2>1, <2>3 DEF StageInv, AtGates
  <2> QED
    BY <1>6, <2>2, <2>3 DEF SelectMode, OneMode
<1>7. ASSUME ~SelectMode
      PROVE  /\ UNCHANGED <<host, FdPasses, BaseFound, FolderFound>>
             /\ AtGates
  <2>1. host' = host
    BY <1>7 DEF ValidateReportFd, ResolveDirectory, SelectCodec, Refuse, Exit
  <2>2. stage \in {"fd", "directory", "codec"}
    BY <1>7 DEF ValidateReportFd, ResolveDirectory, SelectCodec
  <2> QED
    BY <1>1, <1>3, <2>1, <2>2 DEF FdPasses, BaseFound, FolderFound, StageInv
<1>8. CASE ValidateReportFd /\ ~SelectMode
  <2>1. stage = "fd" /\ AtGates /\ AtGates'
    BY <1>3, <1>7, <1>8 DEF ValidateReportFd
  <2>2. CASE ~FdPasses /\ Refuse
    BY <1>3, <1>4, <1>5, <1>7, <1>8, <2>1, <2>2 DEF StageInv, Refuse, Exit
  <2>3. CASE FdPasses /\ stage' = (IF Single THEN "codec" ELSE "directory") /\ exit' = exit
    BY <1>3, <1>4, <1>7, <1>8, <2>1, <2>3 DEF StageInv, BaseFound, FolderFound
  <2> QED
    BY <1>8, <2>2, <2>3 DEF ValidateReportFd, FdPasses
<1>9. CASE ResolveDirectory /\ ~SelectMode
  <2>1. stage = "directory" /\ AtGates /\ AtGates' /\ FdPasses /\ ~Single
    BY <1>3, <1>7, <1>9 DEF ResolveDirectory, StageInv
  <2>2. CASE ~BaseFound /\ Refuse
    BY <1>3, <1>4, <1>5, <1>7, <1>9, <2>1, <2>2 DEF StageInv, Refuse, Exit
  <2>3. CASE BaseFound /\ ~FolderFound /\ Exit(1)
    BY <1>3, <1>4, <1>5, <1>7, <1>9, <2>1, <2>3 DEF StageInv, Exit
  <2>4. CASE BaseFound /\ FolderFound /\ stage' = "codec" /\ exit' = exit
    BY <1>3, <1>4, <1>7, <1>9, <2>1, <2>4 DEF StageInv
  <2> QED
    BY <1>9, <2>1, <2>2, <2>3, <2>4 DEF ResolveDirectory, BaseFound, FolderFound
<1>10. CASE SelectCodec /\ ~SelectMode
  <2>1. stage = "codec" /\ AtGates /\ AtGates' /\ FdPasses /\ BaseFound /\ FolderFound
    BY <1>3, <1>7, <1>10 DEF SelectCodec, StageInv
  <2>2. CASE ~CodecFound /\ Refuse
    BY <1>3, <1>4, <1>5, <1>7, <1>10, <2>1, <2>2 DEF StageInv, Refuse, Exit
  <2>3. CASE CodecFound /\ stage' = (IF Single THEN "single" ELSE "batch") /\ exit' = exit
    BY <1>3, <1>4, <1>7, <1>10, <2>1, <2>3 DEF StageInv
  <2> QED
    BY <1>10, <2>2, <2>3 DEF SelectCodec, CodecFound
<1> QED
  BY <1>6, <1>8, <1>9, <1>10

CmdInv ==
    /\ TypeOK
    /\ \A O \in SUBSET (1 .. Len(args)) : IsOptions(O) => LoopInv(O) /\ StageInv(O)

LEMMA CmdInit == Init => CmdInv
<1> SUFFICES ASSUME Init PROVE CmdInv
  OBVIOUS
<1>1. /\ i = 1 /\ stage = "args" /\ exit = NoExit /\ cli = [f \in Fields |-> << >>]
      /\ args \in UNION {[1 .. n -> Argument] : n \in 0 .. MaxArguments}
  BY DEF Init
<1>2. args \in Seq(Argument) /\ Len(args) \in Nat
  <2>1. PICK n \in 0 .. MaxArguments : args \in [1 .. n -> Argument]
    BY <1>1
  <2>2. n \in Nat
    BY BoundAssumption
  <2>3. args \in Seq(Argument)
    BY <2>1, <2>2
  <2> QED
    BY <2>3
<1>3. TypeOK
  BY <1>1, <1>2 DEF Init, TypeOK, Host, Empty
<1>4. ASSUME NEW O \in SUBSET (1 .. Len(args)), IsOptions(O)
      PROVE  LoopInv(O) /\ StageInv(O)
  <2>1. Taken(O) = {}
    <3>1. \A p \in O : ~(p < 1)
      BY <1>2
    <3> QED
      BY <1>1, <3>1 DEF Taken
  <2>2. PositionInv(O)
    BY <1>1, <1>2, <1>4, <2>1 DEF PositionInv, IsOptions
  <2>3. \A f \in Fields : cli[f] = << >>
    BY <1>1
  <2>4. ValuesInv(O) /\ ModeInv(O)
    BY <2>1, <2>3, FlagsDiffer DEF ValuesInv, LastRead, ModeInv
  <2>5. StageInv(O)
    BY <1>1 DEF StageInv, NoExit
  <2> QED
    BY <2>2, <2>4, <2>5 DEF LoopInv
<1> QED
  BY <1>3, <1>4 DEF CmdInv

LEMMA CmdTypeNext ==
    ASSUME TypeOK, Next
    PROVE  TypeOK' /\ UNCHANGED args
<1> USE DEF TypeOK
<1>1. Len(args) \in Nat
  OBVIOUS
<1>2. ASSUME NEW field \in Fields, NEW value, NEW width \in 1 .. 3, i + width <= Len(args) + 1,
             Store(field, value, width)
      PROVE  TypeOK' /\ UNCHANGED args
  BY <1>1, <1>2 DEF Store
<1>3. ASSUME NEW c \in {1, 2}, Exit(c)
      PROVE  TypeOK' /\ UNCHANGED args
  BY <1>3 DEF Exit
<1>4. CASE TakeValue
  <2>1. PICK flag \in ValueFlag :
           /\ At(flag)
           /\ IF i < Len(args) /\ Parsed(flag, args[i + 1]) # {}
                THEN \E v \in Parsed(flag, args[i + 1]) : Store(flag, <<v>>, 2)
                ELSE Refuse
    BY <1>4 DEF TakeValue
  <2>2. flag \in Fields
    BY FlagsDiffer DEF Valued
  <2>3. CASE i < Len(args) /\ Parsed(flag, args[i + 1]) # {}
    <3>1. PICK v \in Parsed(flag, args[i + 1]) : Store(flag, <<v>>, 2)
      BY <2>1, <2>3
    <3>2. i + 2 <= Len(args) + 1 /\ 2 \in 1 .. 3
      BY <1>1, <2>3
    <3> QED
      BY <1>2, <2>2, <3>1, <3>2
  <2>4. CASE Refuse
    BY <1>3, <2>4 DEF Refuse
  <2> QED
    BY <2>1, <2>3, <2>4
<1>5. CASE TakeResize
  <2>1. "--resize" \in Fields
    BY DEF Fields
  <2>2. CASE i < Len(args) /\ Store("--resize", <<args[i + 1]>>, 2)
    <3>1. i + 2 <= Len(args) + 1 /\ 2 \in 1 .. 3
      BY <1>1, <2>2
    <3> QED
      BY <1>2, <2>1, <2>2, <3>1
  <2>3. CASE i + 1 < Len(args) /\ Store("--resize", <<args[i + 1], args[i + 2]>>, 3)
    <3>1. i + 3 <= Len(args) + 1 /\ 3 \in 1 .. 3
      BY <1>1, <2>3
    <3> QED
      BY <1>2, <2>1, <2>3, <3>1
  <2>4. CASE Refuse
    BY <1>3, <2>4 DEF Refuse
  <2> QED
    BY <1>5, <2>2, <2>3, <2>4 DEF TakeResize
<1>6. CASE TakeSwitch \/ TakeUnknown \/ TakeDirectory
  <2>1. \/ i <= Len(args) /\ \E f \in Fields : \E value : Store(f, value, 1)
        \/ Refuse
    BY <1>6, FlagsDiffer DEF TakeSwitch, TakeUnknown, TakeDirectory, At
  <2>2. i <= Len(args) => i + 1 <= Len(args) + 1 /\ 1 \in 1 .. 3
    BY <1>1
  <2> QED
    BY <1>2, <1>3, <2>1, <2>2 DEF Refuse
<1>7. CASE SelectMode \/ ValidateReportFd \/ ResolveDirectory \/ SelectCodec
  <2>1. \/ Exit(1) \/ Exit(2)
        \/ /\ stage' \in {"fd", "directory", "codec", "batch", "single"}
           /\ host' \in Host /\ UNCHANGED <<args, i, cli, exit>>
    BY <1>7 DEF SelectMode, ValidateReportFd, ResolveDirectory, SelectCodec, Refuse
  <2>2. CASE /\ stage' \in {"fd", "directory", "codec", "batch", "single"}
             /\ host' \in Host /\ UNCHANGED <<args, i, cli, exit>>
    BY <2>2
  <2> QED
    BY <1>3, <2>1, <2>2
<1> QED
  BY <1>4, <1>5, <1>6, <1>7 DEF Next

LEMMA CmdNext == CmdInv /\ [Next]_vars => CmdInv'
<1> SUFFICES ASSUME CmdInv, [Next]_vars PROVE CmdInv'
  OBVIOUS
<1>1. TypeOK
  BY DEF CmdInv
<1>2. CASE Next
  <2>1. TypeOK' /\ args' = args
    BY <1>1, <1>2, CmdTypeNext
  <2>2. ASSUME NEW O \in SUBSET (1 .. Len(args)), IsOptions(O)
        PROVE  LoopInv(O)' /\ StageInv(O)'
    <3>1. LoopInv(O) /\ StageInv(O)
      BY <2>2 DEF CmdInv
    <3>2. CASE TakeValue \/ TakeResize \/ TakeSwitch \/ TakeUnknown \/ TakeDirectory
      <4>1. /\ i \in 1 .. Len(args) /\ stage = "args"
            /\ \/ LoopInv(O)' /\ UNCHANGED <<args, stage, exit, host>>
               \/ Refuse /\ Refused(O)
        BY <1>1, <2>2, <3>1, <3>2, RoundKeeps
      <4>2. exit = NoExit
        BY <3>1, <4>1 DEF StageInv
      <4>3. CASE LoopInv(O)' /\ UNCHANGED <<args, stage, exit, host>>
        BY <4>1, <4>2, <4>3 DEF StageInv, NoExit
      <4>4. CASE Refuse /\ Refused(O)
        <5>1. LoopInv(O)'
          BY <3>1, <4>4, LoopStays DEF Refuse, Exit
        <5>2. \A p : (Accepted(p)' <=> Accepted(p)) /\ (IsDirectory(p)' <=> IsDirectory(p))
          BY <2>1, ArgsStay DEF IsDirectory
        <5>3. Refused(O)'
          BY <4>4, <5>2 DEF Refused
        <5>4. stage' = "exited" /\ exit' = 2 /\ ~AtGates'
          BY <1>1, <2>1, <4>1, <4>4 DEF Refuse, Exit, AtGates, TypeOK
        <5> QED
          BY <5>1, <5>3, <5>4 DEF StageInv, NoExit
      <4> QED
        BY <4>1, <4>3, <4>4
    <3>3. CASE SelectMode \/ ValidateReportFd \/ ResolveDirectory \/ SelectCodec
      BY <1>1, <3>1, <3>3, GateKeeps
    <3> QED
      BY <1>2, <3>2, <3>3 DEF Next
  <2>3. \A O : IsOptions(O)' <=> IsOptions(O)
    BY <2>1, ArgsStay
  <2> QED
    BY <2>1, <2>2, <2>3 DEF CmdInv
<1>3. CASE UNCHANGED vars
  <2>1. TypeOK' /\ UNCHANGED <<args, i, cli, stage, exit, host>>
    BY <1>1, <1>3 DEF TypeOK, vars
  <2>2. \A p : (Accepted(p)' <=> Accepted(p)) /\ (IsDirectory(p)' <=> IsDirectory(p))
    BY <2>1, ArgsStay DEF IsDirectory
  <2>3. ASSUME NEW O \in SUBSET (1 .. Len(args)), IsOptions(O)
        PROVE  LoopInv(O)' /\ StageInv(O)'
    <3>1. LoopInv(O) /\ StageInv(O)
      BY <2>3 DEF CmdInv
    <3>2. LoopInv(O)'
      BY <2>1, <3>1, LoopStays
    <3>3. Refused(O)' <=> Refused(O)
      BY <2>2 DEF Refused
    <3>4. StageInv(O)'
      BY <2>1, <3>1, <3>3 DEF StageInv, AtGates, OneMode, Single, report_fd, input_format,
           output_format, Given, FdPasses, BaseFound, FolderFound, CodecFound
    <3> QED
      BY <3>2, <3>4
  <2>4. \A O : IsOptions(O)' <=> IsOptions(O)
    BY <2>1, ArgsStay
  <2> QED
    BY <2>1, <2>3, <2>4 DEF CmdInv
<1> QED
  BY <1>2, <1>3

LEMMA CmdInvHolds == Spec => []CmdInv
BY CmdInit, CmdNext, PTL DEF Spec

(***************************************************************************)
(* The command line as a whole                                             *)
(***************************************************************************)

LEMMA AtMostOne ==
    ASSUME NEW S, IsFiniteSet(S)
    PROVE  Cardinality(S) <= 1 <=> \A p, q \in S : p = q
<1>1. ASSUME \A p, q \in S : p = q PROVE Cardinality(S) <= 1
  <2>1. CASE S = {}
    BY <2>1, FS_EmptySet
  <2>2. CASE S # {}
    <3>1. PICK p \in S : S = {p}
      BY <1>1, <2>2
    <3> QED
      BY <3>1, FS_Singleton
  <2> QED
    BY <2>1, <2>2
<1>2. ASSUME Cardinality(S) <= 1, NEW p \in S, NEW q \in S PROVE p = q
  <2>1. SUFFICES ASSUME p # q PROVE FALSE
    OBVIOUS
  <2>2. Cardinality(S \ {p}) = Cardinality(S) - 1 /\ IsFiniteSet(S \ {p})
    BY FS_RemoveElement
  <2>3. Cardinality((S \ {p}) \ {q}) = Cardinality(S \ {p}) - 1 /\ IsFiniteSet((S \ {p}) \ {q})
    BY <2>1, <2>2, FS_RemoveElement
  <2>4. Cardinality(S) \in Nat /\ Cardinality((S \ {p}) \ {q}) \in Nat
    BY <2>3, FS_CardinalityType
  <2> QED
    BY <1>2, <2>2, <2>3, <2>4
<1> QED
  BY <1>1, <1>2

\* The invariant, for the Options of the properties.
LEMMA OptionsInv ==
    ASSUME CmdInv
    PROVE  /\ Options \in SUBSET (1 .. Len(args)) /\ IsOptions(Options)
           /\ LoopInv(Options) /\ StageInv(Options)
           /\ Len(args) \in Nat /\ IsFiniteSet(Options)
           /\ i = Len(args) + 1 => Taken(Options) = Options
<1>1. Len(args) \in Nat
  BY DEF CmdInv, TypeOK
<1>2. Options \in SUBSET (1 .. Len(args)) /\ IsOptions(Options)
  BY <1>1, OptionsExist
<1>3. IsFiniteSet(Options)
  <2>1. IsFiniteSet(1 .. Len(args))
    BY <1>1, FS_Interval
  <2>2. Options \subseteq 1 .. Len(args)
    BY <1>2
  <2> QED
    BY <2>1, <2>2, FS_Subset
<1>4. ASSUME i = Len(args) + 1 PROVE Taken(Options) = Options
  <2>1. \A p \in Options : p < i
    BY <1>1, <1>2, <1>4
  <2> QED
    BY <2>1 DEF Taken
<1> QED
  BY <1>1, <1>2, <1>3, <1>4 DEF CmdInv

LEMMA WellFormedIs ==
    ASSUME IsFiniteSet(Options)
    PROVE  WellFormed <=>
              /\ \A p \in Options : Accepted(p)
              /\ \A p, q \in Options : IsDirectory(p) /\ IsDirectory(q) => p = q
              /\ (\A p \in Options : ~IsSingleFlag(p)) # (\A p \in Options : ~IsDirectory(p))
<1>1. Directories \subseteq Options /\ IsFiniteSet(Directories)
  BY FS_Subset DEF Directories
<1>2. Cardinality(Directories) <= 1
         <=> \A p, q \in Options : IsDirectory(p) /\ IsDirectory(q) => p = q
  <2>1. Cardinality(Directories) <= 1 <=> \A p, q \in Directories : p = q
    BY <1>1, AtMostOne
  <2> QED
    BY <2>1 DEF Directories, IsDirectory
<1>3. Directories = {} <=> \A p \in Options : ~IsDirectory(p)
  BY DEF Directories, IsDirectory
<1>4. SingleFlags = {} <=> \A p \in Options : ~IsSingleFlag(p)
  BY DEF SingleFlags, IsSingleFlag
<1> QED
  BY <1>2, <1>3, <1>4 DEF WellFormed

\* What the loop has read to the end with one mode is well-formed.
LEMMA ReadToTheEnd ==
    ASSUME CmdInv, i = Len(args) + 1, OneMode
    PROVE  WellFormed /\ (SingleFlags = {} <=> ~Single)
<1>1. LoopInv(Options) /\ Taken(Options) = Options /\ IsFiniteSet(Options)
  BY OptionsInv
<1>2. ModeInv(Options)
  BY <1>1 DEF LoopInv
<1>3. SingleFlags = {} <=> \A p \in Options : ~IsSingleFlag(p)
  BY DEF SingleFlags, IsSingleFlag
<1> QED
  BY <1>1, <1>2, <1>3, WellFormedIs DEF ModeInv, OneMode, Single

-----------------------------------------------------------------------------

\* The index never runs past the end by more than one, and only the codes 1
\* and 2 end the process before a mode starts.
THEOREM TypeCorrect == Spec => []TypeOK
<1>1. CmdInv => TypeOK
  BY DEF CmdInv
<1> QED
  BY <1>1, CmdInvHolds, PTL

\* The loop accepts exactly the well-formed command lines, of every length.
THEOREM LoopIsExact == Spec => []AcceptsWellFormed
<1>1. ASSUME CmdInv PROVE AcceptsWellFormed
  <2>1. StageInv(Options) /\ Len(args) \in Nat /\ IsFiniteSet(Options) /\ i \in Int
    BY <1>1, OptionsInv DEF CmdInv, TypeOK
  <2>2. ASSUME stage \notin {"args", "exited"} PROVE WellFormed
    BY <1>1, <2>1, <2>2, ReadToTheEnd DEF StageInv, AtGates
  <2>3. ASSUME stage = "exited", WellFormed, ~(i > Len(args)) PROVE FALSE
    <3>1. Refused(Options)
      BY <2>1, <2>3 DEF StageInv
    <3> QED
      BY <2>1, <2>3, <3>1, WellFormedIs DEF Refused
  <2> QED
    BY <2>2, <2>3 DEF AcceptsWellFormed
<1> QED
  BY <1>1, CmdInvHolds, PTL

\* Once a mode has started, each setting is the one given last.
THEOREM LastGivenIsUsed == Spec => []LastOptionWins
<1>1. ASSUME CmdInv, stage \in {"batch", "single"}, NEW f \in Valued
      PROVE  LET given == {p \in Options : args[p] = f}
                 last  == CHOOSE p \in given : \A q \in given : q <= p
             IN IF given = {} THEN cli[f] = << >>
                ELSE IF f # "--resize" THEN {cli[f][1]} = Parsed(f, args[last + 1])
                ELSE cli[f] = SubSeq(args, last + 1, last + Width(last) - 1)
  <2> DEFINE given == {p \in Options : args[p] = f}
             last  == CHOOSE p \in given : \A q \in given : q <= p
  <2>1. i = Len(args) + 1
    BY <1>1, OptionsInv DEF StageInv, AtGates
  <2>2. LastRead(Options, f) /\ Taken(Options) = Options /\ Options \subseteq Int
    BY <1>1, <2>1, OptionsInv DEF LoopInv, ValuesInv
  <2>3. CASE given = {}
    BY <2>2, <2>3 DEF LastRead
  <2>4. CASE given # {}
    <3>1. PICK p \in Options : /\ args[p] = f /\ ReadAt(f, p)
                               /\ \A q \in Options : args[q] = f => q <= p
      BY <2>2, <2>4 DEF LastRead
    <3>2. p \in given /\ \A q \in given : q <= p
      BY <3>1
    <3>3. \A r \in given : (\A q \in given : q <= r) => r = p
      <4>1. ASSUME NEW r \in given, \A q \in given : q <= r PROVE r = p
        <5>1. r <= p /\ p <= r /\ r \in Int /\ p \in Int
          BY <2>2, <3>2, <4>1
        <5> QED
          BY <5>1
      <4> QED
        BY <4>1
    <3> HIDE DEF given
    <3>4. last = p
      BY <3>2, <3>3
    <3> HIDE DEF last
    <3>5. IF f # "--resize" THEN {cli[f][1]} = Parsed(f, args[last + 1])
          ELSE cli[f] = SubSeq(args, last + 1, last + Width(last) - 1)
      BY <3>1, <3>4 DEF ReadAt
    <3> QED
      BY <2>4, <3>5 DEF last, given
  <2> QED
    BY <2>3, <2>4
<1>2. CmdInv => LastOptionWins
  BY <1>1 DEF LastOptionWins, Valued
<1> QED
  BY <1>2, CmdInvHolds, PTL

\* No mode starts with its reports on standard output.
THEOREM StdoutIsKept == Spec => []ReportsAvoidStdout
<1>1. ASSUME CmdInv, stage \in {"batch", "single"}
      PROVE  \/ \A p \in Options : args[p] # "--report-fd"
             \/ \E p \in Options :
                   /\ args[p] = "--report-fd" /\ Number[args[p + 1]] # 1
                   /\ \A q \in Options : args[q] = "--report-fd" => q <= p
  <2>1. i = Len(args) + 1 /\ report_fd # 1
    BY <1>1, OptionsInv DEF StageInv, AtGates, FdPasses
  <2>2. "--report-fd" \in Valued /\ "--report-fd" \in ValueFlag /\ "--report-fd" # "--resize"
    BY DEF Valued, ValueFlag
  <2>3. LastRead(Options, "--report-fd") /\ Taken(Options) = Options
    BY <1>1, <2>1, <2>2, OptionsInv DEF LoopInv, ValuesInv
  <2>4. ASSUME NEW p \in Options, args[p] = "--report-fd", ReadAt("--report-fd", p)
        PROVE  Number[args[p + 1]] # 1
    <3> DEFINE v == cli["--report-fd"][1]
    <3>1. cli["--report-fd"] = <<v>> /\ Parsed("--report-fd", args[p + 1]) = {v}
      BY <2>2, <2>4 DEF ReadAt
    <3>2. Parsed("--report-fd", args[p + 1]) = NumberIn(args[p + 1], 0, I32_MAX)
      BY DEF Parsed
    <3>3. Number[args[p + 1]] = v
      BY <3>1, <3>2 DEF NumberIn
    <3>4. cli["--report-fd"] # << >>
      <4> HIDE DEF v
      <4> QED
        BY <3>1
    <3>5. v # 1
      BY <2>1, <3>4 DEF report_fd, Given
    <3> QED
      BY <3>3, <3>5
  <2> QED
    BY <2>3, <2>4 DEF LastRead
<1> QED
  BY <1>1, CmdInvHolds, PTL DEF ReportsAvoidStdout

\* What the last option gives is what the loop has stored.
LEMMA LastGivenIsStored ==
    ASSUME CmdInv, i = Len(args) + 1, NEW flag \in ValueFlag, NEW default
    PROVE  LastGiven(flag, default) = Given(flag, default)
<1> DEFINE given == {p \in Options : args[p] = flag}
           last  == CHOOSE p \in given : \A q \in given : q <= p
<1>1. flag \in Valued /\ flag # "--resize"
  BY DEF Valued, ValueFlag
<1>2. LastRead(Options, flag) /\ Taken(Options) = Options /\ Options \subseteq Int
  BY <1>1, OptionsInv DEF LoopInv, ValuesInv
<1>3. CASE given = {}
  <2>1. cli[flag] = << >>
    BY <1>2, <1>3 DEF LastRead
  <2> QED
    BY <1>3, <2>1 DEF LastGiven, Given
<1>4. CASE given # {}
  <2>1. PICK p \in Options : /\ args[p] = flag /\ ReadAt(flag, p)
                             /\ \A q \in Options : args[q] = flag => q <= p
    BY <1>2, <1>4 DEF LastRead
  <2>2. p \in given /\ \A q \in given : q <= p
    BY <2>1
  <2>3. \A r \in given : (\A q \in given : q <= r) => r = p
    BY <1>2, <2>2
  <2> DEFINE v == cli[flag][1]
  <2>4. cli[flag] = <<v>> /\ Parsed(flag, args[p + 1]) = {v}
    BY <1>1, <2>1 DEF ReadAt
  <2>5. LastGiven(flag, default) =
           IF given = {} THEN default ELSE CHOOSE x \in Parsed(flag, args[last + 1]) : TRUE
    BY DEF LastGiven
  <2> HIDE DEF given
  <2>6. last = p
    BY <2>2, <2>3
  <2> HIDE DEF last, v
  <2>7. LastGiven(flag, default) = v
    BY <1>4, <2>4, <2>5, <2>6
  <2>8. Given(flag, default) = v
    <3>1. cli[flag] # << >> /\ cli[flag][1] = v
      BY <2>4
    <3> QED
      BY <3>1 DEF Given
  <2> QED
    BY <2>7, <2>8
<1> QED
  BY <1>3, <1>4

\* What the gates ask, about the options of the line.
LEMMA GatesReadTheLine ==
    ASSUME CmdInv, AtGates
    PROVE  /\ WellFormed
           /\ BadDescriptor <=> ~FdPasses
           /\ NoBase <=> ~BaseFound
           /\ NoFolder <=> ~FolderFound
           /\ NoCodec <=> ~CodecFound
<1>1. i = Len(args) + 1 /\ OneMode
  BY DEF AtGates
<1>2. WellFormed /\ (SingleFlags = {} <=> ~Single)
  BY <1>1, ReadToTheEnd
<1>3. /\ LastGiven("--report-fd", 2) = report_fd
      /\ LastGiven("--input-format", "jpg") = input_format
      /\ LastGiven("--output-format", "webp") = output_format
  BY <1>1, LastGivenIsStored DEF report_fd, input_format, output_format, ValueFlag
<1>4. Directories = {} <=> Single
  BY <1>2 DEF WellFormed
<1>5. ModeInv(Options) /\ Taken(Options) = Options
  BY <1>1, OptionsInv DEF LoopInv
<1>6. \A p \in Directories : args[p] = cli["dir"][1]
  <2>1. ASSUME NEW p \in Directories PROVE args[p] = cli["dir"][1]
    <3>1. p \in Options /\ IsDirectory(p)
      BY DEF Directories, IsDirectory
    <3>2. cli["dir"] = <<args[p]>>
      BY <1>5, <3>1 DEF ModeInv
    <3> QED
      BY <3>2
  <2> QED
    BY <2>1
<1>7. BadDescriptor <=> ~FdPasses
  BY <1>3 DEF BadDescriptor, FdPasses
<1>8. NoBase <=> ~BaseFound
  BY <1>4, <1>6 DEF NoBase, BaseFound
<1>9. NoFolder <=> ~FolderFound
  BY <1>4 DEF NoFolder, FolderFound
<1>10. NoCodec <=> ~CodecFound
  BY <1>3 DEF NoCodec, CodecFound
<1> QED
  BY <1>2, <1>7, <1>8, <1>9, <1>10

\* The exit code tells which gate a command line fails, if any, over every
\* vocabulary and on every host.
THEOREM GatesAnswerInOrder == Spec => []ExitCodeTellsGate
<1>1. ASSUME CmdInv, stage \in {"batch", "single", "exited"}
      PROVE  LET passes == WellFormed /\ ~BadDescriptor /\ ~NoBase
             IN /\ exit = 1 <=> passes /\ NoFolder
                /\ exit = NoExit <=> passes /\ ~NoFolder /\ ~NoCodec
  <2>1. StageInv(Options) /\ LoopInv(Options) /\ IsFiniteSet(Options) /\ Len(args) \in Nat
    BY <1>1, OptionsInv
  <2>2. exit \in {NoExit, 1, 2} /\ NoExit # 1 /\ NoExit # 2 /\ i \in 1 .. Len(args) + 1
    BY <1>1 DEF CmdInv, TypeOK, NoExit
  <2>3. CASE AtGates
    <3>1. /\ WellFormed /\ (BadDescriptor <=> ~FdPasses) /\ (NoBase <=> ~BaseFound)
          /\ (NoFolder <=> ~FolderFound) /\ (NoCodec <=> ~CodecFound)
      BY <1>1, <2>3, GatesReadTheLine
    <3>2. exit = 1 => FdPasses /\ BaseFound /\ ~FolderFound
      BY <2>1 DEF StageInv
    <3>3. exit = 2 => ~FdPasses \/ ~BaseFound \/ (FolderFound /\ ~CodecFound)
      BY <2>1, <2>3 DEF StageInv
    <3>4. exit = NoExit => FdPasses /\ BaseFound /\ FolderFound /\ CodecFound
      BY <1>1, <2>1 DEF StageInv
    <3> QED
      BY <2>2, <3>1, <3>2, <3>3, <3>4
  <2>4. CASE ~AtGates
    <3>1. exit # NoExit /\ exit # 1
      BY <1>1, <2>1, <2>4 DEF StageInv
    <3>2. ~WellFormed
      <4>1. CASE i <= Len(args)
        <5>1. Refused(Options)
          BY <1>1, <2>1, <2>4, <4>1 DEF StageInv
        <5> QED
          BY <2>1, <5>1, WellFormedIs DEF Refused
      <4>2. CASE i = Len(args) + 1
        <5>1. ModeInv(Options) /\ Taken(Options) = Options /\ ~OneMode
          BY <1>1, <2>1, <2>4, <4>2, OptionsInv DEF LoopInv, AtGates
        <5> QED
          BY <2>1, <5>1, WellFormedIs DEF ModeInv, OneMode
      <4> QED
        BY <2>1, <2>2, <4>1, <4>2
    <3> QED
      BY <3>1, <3>2
  <2> QED
    BY <2>3, <2>4
<1>2. CmdInv => ExitCodeTellsGate
  BY <1>1 DEF ExitCodeTellsGate
<1> QED
  BY <1>2, CmdInvHolds, PTL

(***************************************************************************)
(* The forwarder                                                           *)
(***************************************************************************)

\* Every behaviour of the two processes is one of the converter's start, so
\* that all of the above holds behind the forwarder too.
THEOREM ForwardedIsConverter == AliasSpec => Spec
<1>1. AliasInit => Init
  BY DEF AliasInit
<1>2. [AliasNext]_<<vars, aliasVars>> => [Next]_vars
  BY DEF AliasNext, Converter, ModeEnds, Spawn, Wait, KillConverter, KillForwarder
<1> QED
  BY <1>1, <1>2, PTL DEF AliasSpec, Spec

\* The exit code of a status.
CodeOf(s) == IF s[1] = "exit" THEN s[2] ELSE 128 + s[2]

ForwarderInv ==
    /\ forwarder \in {"none", "hint", "waiting", "exited", "killed"}
    /\ \/ status = << >>
       \/ \E c \in {0, 1, 2} : status = <<"exit", c>>
       \/ \E n \in Signal : status = <<"signal", n>>
    /\ forwarder \in {"none", "waiting"} => started
    /\ ~started => status = << >>
    /\ forwarder = "hint" => ~started
    /\ forwarder = "exited" =>
          IF started THEN status # << >> /\ code = CodeOf(status) ELSE code = 127
    /\ started \in BOOLEAN

LEMMA ForwarderHolds == AliasSpec => []ForwarderInv
<1>1. AliasInit => ForwarderInv
  BY DEF AliasInit, ForwarderInv
<1>2. ASSUME ForwarderInv, CmdInv, [AliasNext]_<<vars, aliasVars>>
      PROVE  ForwarderInv'
  <2> USE DEF ForwarderInv
  <2>1. CASE Converter
    <3>1. stage = "exited" => exit \in {1, 2}
      BY <1>2, OptionsInv DEF StageInv, CmdInv, TypeOK
    <3>2. CASE Next /\ UNCHANGED aliasVars
      BY <1>2, <3>2 DEF aliasVars
    <3>3. CASE /\ stage = "exited" /\ status' = <<"exit", exit>>
               /\ UNCHANGED <<vars, forwarder, started, code>>
      <4>1. \E c \in {0, 1, 2} : status' = <<"exit", c>>
        BY <3>1, <3>3
      <4>2. Running
        BY <2>1 DEF Converter
      <4> QED
        BY <1>2, <3>3, <4>1, <4>2 DEF Running
    <3> QED
      BY <2>1, <3>2, <3>3 DEF Converter
  <2>2. CASE ModeEnds
    <3>1. \E c \in {0, 1, 2} : status' = <<"exit", c>>
      BY <2>2 DEF ModeEnds
    <3> QED
      BY <1>2, <2>2, <3>1 DEF ModeEnds, Running
  <2>3. CASE Spawn
    <3>1. ~started /\ status = << >> /\ status' = status
      BY <1>2, <2>3 DEF Spawn
    <3>2. CASE forwarder' = "waiting" /\ started' = TRUE
      BY <3>1, <3>2
    <3>3. CASE forwarder' = "exited" /\ code' = 127 /\ started' = started
      BY <1>2, <3>1, <3>3
    <3> QED
      BY <2>3, <3>2, <3>3 DEF Spawn
  <2>4. CASE Wait
    BY <1>2, <2>4 DEF Wait, CodeOf
  <2>5. CASE KillConverter
    BY <1>2, <2>5 DEF KillConverter, Running
  <2>6. CASE KillForwarder
    BY <1>2, <2>6 DEF KillForwarder
  <2>7. CASE UNCHANGED <<vars, aliasVars>>
    BY <1>2, <2>7 DEF aliasVars
  <2> QED
    BY <1>2, <2>1, <2>2, <2>3, <2>4, <2>5, <2>6, <2>7 DEF AliasNext
<1> QED
  BY <1>1, <1>2, ForwardedIsConverter, CmdInvHolds, PTL DEF AliasSpec

\* The forwarder's exit code tells how the conversion ended.
THEOREM CodeTellsTheEnd == AliasSpec => []ForwarderTellsHowItEnded
<1>1. ASSUME ForwarderInv PROVE ForwarderTellsHowItEnded
  <2>1. SUFFICES ASSUME forwarder = "exited"
                 PROVE  /\ ~Running
                        /\ code = 127 <=> ~started
                        /\ \A n \in {0, 1, 2} : code = n <=> status = <<"exit", n>>
                        /\ \A n \in Signal : code = 128 + n <=> status = <<"signal", n>>
    BY DEF ForwarderTellsHowItEnded
  <2>2. CASE ~started
    <3>1. status = << >> /\ code = 127
      BY <1>1, <2>1, <2>2 DEF ForwarderInv
    <3>2. \A n : status # <<"exit", n>> /\ status # <<"signal", n>>
      BY <3>1
    <3>3. \A n \in Signal : 127 # 128 + n
      BY SignalAssumption
    <3> QED
      BY <2>2, <3>1, <3>2, <3>3 DEF Running
  <2>3. CASE started /\ \E c \in {0, 1, 2} : status = <<"exit", c>>
    <3>1. PICK c \in {0, 1, 2} : status = <<"exit", c>>
      BY <2>3
    <3>2. code = c /\ status # << >>
      BY <1>1, <2>1, <2>3, <3>1 DEF ForwarderInv, CodeOf
    <3>3. \A n \in Signal : c # 128 + n /\ status # <<"signal", n>>
      BY <3>1, SignalAssumption
    <3> QED
      BY <2>3, <3>1, <3>2, <3>3 DEF Running
  <2>4. CASE started /\ \E n \in Signal : status = <<"signal", n>>
    <3>1. PICK m \in Signal : status = <<"signal", m>>
      BY <2>4
    <3>2. code = 128 + m /\ status # << >> /\ m \in 1 .. 64
      BY <1>1, <2>1, <2>4, <3>1, SignalAssumption DEF ForwarderInv, CodeOf
    <3>3. \A n \in Signal : code = 128 + n <=> n = m
      BY <3>2, SignalAssumption
    <3>4. \A n : status # <<"exit", n>>
      BY <3>1
    <3> QED
      BY <2>4, <3>1, <3>2, <3>3, <3>4 DEF Running
  <2> QED
    BY <1>1, <2>1, <2>2, <2>3, <2>4 DEF ForwarderInv
<1> QED
  BY <1>1, ForwarderHolds, PTL
=============================================================================
