----------------------------- MODULE CommandLine -----------------------------
(***************************************************************************)
(* The command line: `parse_cli` of src/main.rs, one action per round of   *)
(* its loop, and the gates of `main` between the parsed command line and   *)
(* the start of one of the two modes.                                      *)
(*                                                                         *)
(* An argument is a string of a small vocabulary; the constants say which  *)
(* of them the value parsers accept.  Every refusal prints the usage text  *)
(* or a message and ends the process with code 2, before a picture is      *)
(* read; a directory that is not there ends it with code 1.  Which of the  *)
(* two it is when several things are wrong is a matter of the order of the *)
(* gates.                                                                  *)
(***************************************************************************)
EXTENDS Integers, Sequences, FiniteSets

CONSTANTS
    Argument,        \* bound: the vocabulary of the command lines
    MaxArguments,    \* bound: their length
    Dashed,          \* the arguments that start with "--"
    Slashed,         \* the arguments that contain a "/"
    Number,          \* Number[a]: the value of an argument that is an integer
    FitWord,         \* the arguments that start with "fit="
    FitMode,         \* those of them that name a mode
    LongEdge,        \* the arguments long-edge=<N> with N in 1..20000
    Legacy,          \* the arguments that parse_resize accepts
    I32_MAX

ASSUME ArgumentAssumption ==
    /\ Dashed \cup Slashed \cup FitWord \cup LongEdge \cup Legacy \subseteq Argument
    /\ DOMAIN Number \subseteq Argument \ Dashed
    /\ FitMode \subseteq FitWord /\ FitWord \cap Legacy = {}
ASSUME BoundAssumption == MaxArguments \in Nat /\ I32_MAX \in Nat

VARIABLES
    args,     \* env::args() without the name of the program
    i,        \* index of the parse loop
    cli,      \* the values given so far: << >> if absent, else <<value>>
    stage,    \* what parse_cli or `main` does next
    exit,     \* exit code, NoExit while running
    host      \* what the gates find outside the process

vars == <<args, i, cli, stage, exit, host>>

NoExit == -1

\* The descriptor of --report-fd is open for writing, GALLERY_BASE is set and
\* not empty, and the directory is one.
Host  == [writable : BOOLEAN, gallery_base : BOOLEAN, is_dir : BOOLEAN]
Empty == [writable |-> FALSE, gallery_base |-> FALSE, is_dir |-> FALSE]

ValueFlag == {"--input-format", "--output-format", "--quality", "--subsampling",
              "--optimize-cru", "--trellis-ac", "--report-fd"}
Switch    == {"--keep-source", "--single-file", "--json"}
Short     == {"-1", "-h"}
Fields    == ValueFlag \cup Switch \cup {"--resize", "dir"}
Known     == ValueFlag \cup Switch \cup Short \cup {"--resize", "--help"}

FormatOf == [w \in {"jpg", "jpeg", "png", "webp", "heic", "heif"} |->
                IF w = "jpeg" THEN "jpg" ELSE IF w = "heif" THEN "heic" ELSE w]

NumberIn(a, lo, hi) ==
    IF a \in DOMAIN Number THEN {Number[a]} \cap (lo .. hi) ELSE {}

\* The value a flag's parser makes of an argument; none if it refuses it.
Parsed(flag, a) ==
    CASE flag \in {"--input-format", "--output-format"} ->
            IF a \in DOMAIN FormatOf THEN {FormatOf[a]} ELSE {}
      [] flag = "--quality"     -> NumberIn(a, 1, 100)
      [] flag = "--trellis-ac"  -> NumberIn(a, 0, 50)
      [] flag = "--report-fd"   -> NumberIn(a, 0, I32_MAX)
      [] flag = "--subsampling" -> {a} \cap {"4:4:4", "4:2:2", "4:2:0"}
      [] flag = "--optimize-cru" ->
            {a} \cap {"4:4:4", "4:2:2", "4:2:0-cosited", "4:2:0-non-cosited"}

Init ==
    /\ args \in UNION {[1 .. n -> Argument] : n \in 0 .. MaxArguments}
    /\ i = 1 /\ cli = [f \in Fields |-> << >>]
    /\ stage = "args" /\ exit = NoExit /\ host = Empty

Exit(code) == stage' = "exited" /\ exit' = code /\ UNCHANGED <<args, i, cli, host>>
Refuse == Exit(2)

(***************************************************************************)
(* parse_cli                                                               *)
(***************************************************************************)

\* The loop is at argument a.
At(a) == stage = "args" /\ i <= Len(args) /\ a = args[i]

\* A value is stored, and the loop goes on width arguments later.
Store(field, value, width) ==
    /\ cli' = [cli EXCEPT ![field] = value]
    /\ i' = i + width
    /\ UNCHANGED <<args, stage, exit, host>>

\* Mutant of TakeValue: the first value of a repeated flag is kept.
TakeValueOnce ==
    \E flag \in ValueFlag :
        /\ At(flag)
        /\ IF i < Len(args) /\ Parsed(flag, args[i + 1]) # {}
             THEN \E v \in Parsed(flag, args[i + 1]) :
                    Store(flag, IF cli[flag] = << >> THEN <<v>> ELSE cli[flag], 2)
             ELSE Refuse
\* A flag and its value.
TakeValue ==
    \E flag \in ValueFlag :
        /\ At(flag)
        /\ IF i < Len(args) /\ Parsed(flag, args[i + 1]) # {}
             THEN \E v \in Parsed(flag, args[i + 1]) : Store(flag, <<v>>, 2)
             ELSE Refuse

\* Mutant of TakeResize: three arguments are taken for every policy.
TakeResizeWide ==
    /\ At("--resize")
    /\ IF i < Len(args) /\ args[i + 1] \in Legacy \cup FitMode
         THEN Store("--resize", <<args[i + 1]>>, 3)
         ELSE Refuse
\* --resize: "fit=" takes one argument more than the other policies.
TakeResize ==
    /\ At("--resize")
    /\ \/ /\ i < Len(args) /\ args[i + 1] \in Legacy
          /\ Store("--resize", <<args[i + 1]>>, 2)
       \/ /\ i + 1 < Len(args)
          /\ args[i + 1] \in FitMode /\ args[i + 2] \in LongEdge
          /\ Store("--resize", <<args[i + 1], args[i + 2]>>, 3)
       \/ /\ ~(i < Len(args) /\ args[i + 1] \in Legacy)
          /\ ~(i + 1 < Len(args) /\ args[i + 1] \in FitMode /\ args[i + 2] \in LongEdge)
          /\ Refuse

TakeSwitch ==
    \/ \E s \in Switch : At(s) /\ Store(s, <<TRUE>>, 1)
    \/ At("-1") /\ Store("--single-file", <<TRUE>>, 1)

\* Anything else that starts with "--" is refused, as is -h.
TakeUnknown ==
    \E a \in (Dashed \ (Known \ {"--help"})) \cup {"-h"} : At(a) /\ Refuse

\* What is left is the directory, "-q" included; a second one is refused.
TakeDirectory ==
    \E a \in Argument \ (Dashed \cup Known) :
        /\ At(a)
        /\ IF cli["dir"] = << >> THEN Store("dir", <<a>>, 1) ELSE Refuse

\* Mutant of SelectMode: --single-file wins over a directory.
SelectModeLax ==
    /\ stage = "args" /\ i > Len(args)
    /\ IF cli["--single-file"] = << >> /\ cli["dir"] = << >>
         THEN Refuse
         ELSE stage' = "fd" /\ host' \in Host /\ UNCHANGED <<args, i, cli, exit>>
\* The end of parse_cli: one of --single-file and a directory, not both.  What
\* the gates will find is settled here, before the first of them looks.
SelectMode ==
    /\ stage = "args" /\ i > Len(args)
    /\ IF (cli["--single-file"] = << >>) = (cli["dir"] = << >>)
         THEN Refuse
         ELSE stage' = "fd" /\ host' \in Host /\ UNCHANGED <<args, i, cli, exit>>

(***************************************************************************)
(* The gates of `main`                                                     *)
(***************************************************************************)

Given(field, default) == IF cli[field] = << >> THEN default ELSE cli[field][1]
report_fd     == Given("--report-fd", 2)
input_format  == Given("--input-format", "jpg")
output_format == Given("--output-format", "webp")
Single        == cli["--single-file"] # << >>

\* Mutant of ValidateReportFd: a standard stream needs no check.
ValidateReportFdLax ==
    /\ stage = "fd"
    /\ IF report_fd \in {0, 1, 2} \/ host.writable
         THEN /\ stage' = IF Single THEN "codec" ELSE "directory"
              /\ UNCHANGED <<args, i, cli, exit, host>>
         ELSE Refuse
\* validate_report_fd: 2 passes, 1 does not, any other descriptor has to be
\* open for writing.
ValidateReportFd ==
    /\ stage = "fd"
    /\ IF report_fd = 2 \/ (report_fd # 1 /\ host.writable)
         THEN /\ stage' = IF Single THEN "codec" ELSE "directory"
              /\ UNCHANGED <<args, i, cli, exit, host>>
         ELSE Refuse

\* Mutant of ResolveDirectory: the directory is looked for before the base of
\* a bare name.
ResolveDirectoryLooksFirst ==
    /\ stage = "directory"
    /\ IF ~host.is_dir THEN Exit(1)
       ELSE IF cli["dir"][1] \notin Slashed /\ ~host.gallery_base THEN Refuse
       ELSE stage' = "codec" /\ UNCHANGED <<args, i, cli, exit, host>>
\* A bare name needs GALLERY_BASE, and then the directory has to exist.
ResolveDirectory ==
    /\ stage = "directory"
    /\ IF cli["dir"][1] \notin Slashed /\ ~host.gallery_base THEN Refuse
       ELSE IF ~host.is_dir THEN Exit(1)
       ELSE stage' = "codec" /\ UNCHANGED <<args, i, cli, exit, host>>

\* The codec dispatch, which both modes have, refuses two kinds of pairs.
SelectCodec ==
    /\ stage = "codec"
    /\ IF output_format = "heic" \/ input_format = output_format
         THEN Refuse
         ELSE /\ stage' = IF Single THEN "single" ELSE "batch"
              /\ UNCHANGED <<args, i, cli, exit, host>>

Next ==
    \/ TakeValue \/ TakeResize \/ TakeSwitch \/ TakeUnknown \/ TakeDirectory
    \/ SelectMode \/ ValidateReportFd \/ ResolveDirectory \/ SelectCodec

Spec == Init /\ [][Next]_vars

-----------------------------------------------------------------------------
(***************************************************************************)
(* What a command line means, without a loop                               *)
(***************************************************************************)

\* Arguments that belong together with the one at p.
Width(p) ==
    CASE args[p] \in ValueFlag -> 2
      [] args[p] = "--resize"  ->
            IF p < Len(args) /\ args[p + 1] \in FitWord THEN 3 ELSE 2
      [] OTHER -> 1

\* The positions at which a new option or the directory starts.
IsOptions(starts) ==
    /\ Len(args) > 0 => 1 \in starts
    /\ \A p \in starts : p + Width(p) <= Len(args) => p + Width(p) \in starts
    /\ \A q \in starts \ {1} : \E p \in starts : q = p + Width(p)
Options == CHOOSE starts \in SUBSET (1 .. Len(args)) : IsOptions(starts)

\* The option at p is complete and its values are accepted.
Accepted(p) ==
    /\ p + Width(p) - 1 <= Len(args)
    /\ CASE args[p] \in ValueFlag -> Parsed(args[p], args[p + 1]) # {}
         [] args[p] = "--resize" ->
               IF Width(p) = 3
                 THEN args[p + 1] \in FitMode /\ args[p + 2] \in LongEdge
                 ELSE args[p + 1] \in Legacy
         [] OTHER -> args[p] \in Switch \cup {"-1"} \cup (Argument \ (Dashed \cup Known))

Directories == {p \in Options : args[p] \notin Dashed \cup Known}
SingleFlags == {p \in Options : args[p] \in {"--single-file", "-1"}}

WellFormed ==
    /\ \A p \in Options : Accepted(p)
    /\ Cardinality(Directories) <= 1
    /\ (SingleFlags = {}) # (Directories = {})

\* The value of the last option that gave one; only for a well-formed line.
LastGiven(flag, default) ==
    LET given == {p \in Options : args[p] = flag}
        last  == CHOOSE p \in given : \A q \in given : q <= p
    IN IF given = {} THEN default ELSE CHOOSE v \in Parsed(flag, args[last + 1]) : TRUE

\* What can be wrong with a well-formed line, on a given host.
BadDescriptor ==
    LET fd == LastGiven("--report-fd", 2)
    IN fd = 1 \/ (fd # 2 /\ ~host.writable)
NoBase   == ~host.gallery_base /\ \E p \in Directories : args[p] \notin Slashed
NoFolder == ~host.is_dir /\ Directories # {}
NoCodec ==
    LET from == LastGiven("--input-format", "jpg")
        to   == LastGiven("--output-format", "webp")
    IN to = "heic" \/ from = to

-----------------------------------------------------------------------------
(***************************************************************************)
(* Properties                                                              *)
(***************************************************************************)

\* Type invariant.
TypeOK ==
    /\ args \in Seq(Argument) /\ i \in 1 .. Len(args) + 1
    /\ DOMAIN cli = Fields
    /\ stage \in {"args", "fd", "directory", "codec", "batch", "single", "exited"}
    /\ exit \in {NoExit, 1, 2} /\ host \in Host

\* The loop accepts exactly the well-formed command lines: every option has
\* its values, and there is either one directory or --single-file.  An
\* argument is never read twice or skipped, also behind a `fit=` policy.
AcceptsWellFormed ==
    /\ stage \notin {"args", "exited"} => WellFormed
    /\ stage = "exited" /\ WellFormed => i > Len(args)

\* Once a mode has started, each setting is the one of the last option that
\* gave it, whatever stood before, and what no option gave is absent.
LastOptionWins ==
    stage \in {"batch", "single"} =>
        \A f \in ValueFlag \cup {"--resize"} :
            LET given == {p \in Options : args[p] = f}
                last  == CHOOSE p \in given : \A q \in given : q <= p
            IN IF given = {} THEN cli[f] = << >>
               ELSE IF f # "--resize" THEN {cli[f][1]} = Parsed(f, args[last + 1])
               ELSE cli[f] = SubSeq(args, last + 1, last + Width(last) - 1)

\* INV-RS-7: no command line starts a mode whose reports would go to standard
\* output, where they would mix with the picture.
ReportsAvoidStdout ==
    stage \in {"batch", "single"} =>
        \/ \A p \in Options : args[p] # "--report-fd"
        \/ \E p \in Options :
              /\ args[p] = "--report-fd" /\ Number[args[p + 1]] # 1
              /\ \A q \in Options : args[q] = "--report-fd" => q <= p

\* The gates answer in their order, over the last value of every option.  A
\* line that ends with 1 is well-formed, has a writable report descriptor other
\* than stdout and a base for a bare name, and only lacks the directory; a line
\* that starts a mode lacks nothing; every other one ends with 2 (the gates of
\* `main`).  So a line with one format twice, which the README counts under 2,
\* ends with 1 where its directory is missing.
ExitCodeTellsGate ==
    stage \in {"batch", "single", "exited"} =>
        LET passes == WellFormed /\ ~BadDescriptor /\ ~NoBase
        IN /\ exit = 1 <=> passes /\ NoFolder
           /\ exit = NoExit <=> passes /\ ~NoFolder /\ ~NoCodec
=============================================================================
