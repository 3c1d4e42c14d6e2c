------------------------- MODULE BatchOutcomeProofs -------------------------
(***************************************************************************)
(* Theorems about what a run of batch mode reports: the results of its     *)
(* candidates, the counters of its summary and its exit code.              *)
(***************************************************************************)
EXTENDS BatchConvertProofs, InductionLemmas

USE DEF dst

(***************************************************************************)
(* Results                                                                 *)
(*                                                                         *)
(* Unlike the content of the outputs, none of this depends on candidates   *)
(* having outputs of their own.                                            *)
(***************************************************************************)

Bad == Result \ {"none", "ok"}

\* What is known of a picture from the step and the result of its worker.
OutcomeInv(src) ==
    /\ phase = "list" => pc[src] = "none" /\ result[src] = "none"
    /\ phase # "exited" => exit # 0
    /\ pc[src] \in HasSource => src \in sources
    /\ pc[src] = "done" <=> result[src] # "none"
    /\ result[src] \in Bad => src \in sources /\ failed > 0
    /\ pc[src] = "remove" => ~keep_source
    /\ pc[src] = "tally" \/ result[src] = "ok" => (src \in sources <=> keep_source)
    /\ exit = 0 => pc[src] \in {"none", "done"} /\ result[src] \notin Bad

OInv == \A src \in Image : OutcomeInv(src)

LEMMA OInvInit == Init => OInv
BY DEF Init, OInv, OutcomeInv, HasSource, Bad, NoExit

\* A worker sets the result of its own picture only, and never lowers the
\* number of failures.
LEMMA OtherOutcome ==
    ASSUME TypeOK, NEW src \in Image, NEW other \in Image, other # src,
           Worker(src), OutcomeInv(other)
    PROVE  OutcomeInv(other)'
<1>1. UNCHANGED <<phase, exit, run, keep_source>>
  BY WorkerKeepsCommand
<1>2. pc'[other] = pc[other] /\ result'[other] = result[other]
  BY DEF Worker, Start, Decode, Encode, Create, Write, Restat, Remove, Tally,
         Fail, Goto, TypeOK
<1>3. other \in sources' <=> other \in sources
  BY DEF Worker, Start, Decode, Encode, Create, Write, Restat, Remove, Tally,
         Fail, dirVars
<1>4. failed' = failed \/ failed' = failed + 1
  BY DEF Worker, Start, Decode, Encode, Create, Write, Restat, Remove, Tally,
         Fail, tallies
<1>5. failed \in Nat
  BY DEF TypeOK
<1>6. failed > 0 => failed' > 0
  BY <1>4, <1>5
<1> QED
  BY <1>1, <1>2, <1>3, <1>6 DEF OutcomeInv

\* A failed step ends its worker with a result, a count and its source.
LEMMA OwnFailOutcome ==
    ASSUME TypeOK, NEW src \in Image, OutcomeInv(src),
           NEW from \in HasSource, NEW kind \in Bad, Fail(src, from, kind)
    PROVE  OutcomeInv(src)'
<1>1. /\ phase = "running" /\ pc[src] = from /\ pc'[src] = "done"
      /\ result'[src] = kind /\ failed' = failed + 1
      /\ UNCHANGED <<sources, disk, phase, exit, run, keep_source>>
  BY DEF Fail, Goto, dirVars, mainVars, command, TypeOK
<1>2. failed' > 0
  BY <1>1 DEF TypeOK
<1>3. kind # "none" /\ kind # "ok"
  BY DEF Bad
<1>4. exit # 0
  BY <1>1 DEF OutcomeInv
<1> QED
  BY <1>1, <1>2, <1>3, <1>4 DEF OutcomeInv, HasSource

LEMMA OwnOutcome ==
    ASSUME TypeOK, NEW src \in Image, Worker(src), OutcomeInv(src)
    PROVE  OutcomeInv(src)'
<1>1. ASSUME NEW from \in HasSource, NEW kind \in Kind \cup {"delete"},
             Fail(src, from, kind)
      PROVE  OutcomeInv(src)'
  <2>1. kind \in Bad
    BY DEF Kind, Bad, Result
  <2> QED
    BY <1>1, <2>1, OwnFailOutcome
<1>2. CASE Start(src)
  <2>1. CASE \E kind \in Kind : Fail(src, "queued", kind)
    BY <1>1, <2>1 DEF HasSource
  <2>2. CASE ~\E kind \in Kind : Fail(src, "queued", kind)
    <3>1. /\ Goto(src, "queued", "decode")
          /\ UNCHANGED <<sources, result, failed, phase, exit, keep_source>>
      BY <1>2, <2>2 DEF Start, dirVars, tallies, mainVars, command, Kind
    <3> QED
      BY <3>1 DEF Goto, TypeOK, OutcomeInv, HasSource, Bad
  <2> QED
    BY <2>1, <2>2
<1>3. CASE Decode(src)
  <2>1. CASE \E kind \in Kind : Fail(src, "decode", kind)
    BY <1>1, <2>1 DEF HasSource
  <2>2. CASE ~\E kind \in Kind : Fail(src, "decode", kind)
    <3>1. /\ Goto(src, "decode", "encode")
          /\ UNCHANGED <<sources, result, failed, phase, exit, keep_source>>
      BY <1>3, <2>2 DEF Decode, dirVars, tallies, mainVars, command, Kind
    <3> QED
      BY <3>1 DEF Goto, TypeOK, OutcomeInv, HasSource, Bad
  <2> QED
    BY <2>1, <2>2
<1>4. CASE Encode(src)
  <2>1. CASE \E kind \in Kind : Fail(src, "encode", kind)
    BY <1>1, <2>1 DEF HasSource
  <2>2. CASE ~\E kind \in Kind : Fail(src, "encode", kind)
    <3>1. /\ Goto(src, "encode", "create")
          /\ UNCHANGED <<sources, result, failed, phase, exit, keep_source>>
      BY <1>4, <2>2 DEF Encode, dirVars, tallies, mainVars, command, Kind
    <3> QED
      BY <3>1 DEF Goto, TypeOK, OutcomeInv, HasSource, Bad
  <2> QED
    BY <2>1, <2>2
<1>5. CASE Create(src)
  <2>1. CASE \E kind \in Kind : Fail(src, "create", kind)
    BY <1>1, <2>1 DEF HasSource
  <2>2. CASE ~\E kind \in Kind : Fail(src, "create", kind)
    <3>1. /\ Goto(src, "create", "write")
          /\ UNCHANGED <<sources, result, failed, phase, exit, keep_source>>
      BY <1>5, <2>2 DEF Create, tallies, mainVars, command, Kind
    <3> QED
      BY <3>1 DEF Goto, TypeOK, OutcomeInv, HasSource, Bad
  <2> QED
    BY <2>1, <2>2
<1>6. CASE Write(src)
  <2>1. CASE \E kind \in Kind : Fail(src, "write", kind)
    BY <1>1, <2>1 DEF HasSource
  <2>2. CASE ~\E kind \in Kind : Fail(src, "write", kind)
    <3>1. /\ Goto(src, "write", "write") \/ Goto(src, "write", "restat")
          /\ UNCHANGED <<sources, result, failed, phase, exit, keep_source>>
      BY <1>6, <2>2 DEF Write, tallies, mainVars, command, Kind
    <3> QED
      BY <3>1 DEF Goto, TypeOK, OutcomeInv, HasSource, Bad
  <2> QED
    BY <2>1, <2>2
<1>7. CASE Restat(src)
  <2>1. CASE \E kind \in Kind : Fail(src, "restat", kind)
    BY <1>1, <2>1 DEF HasSource
  <2>2. CASE ~\E kind \in Kind : Fail(src, "restat", kind)
    <3>1. /\ Goto(src, "restat", IF keep_source THEN "tally" ELSE "remove")
          /\ UNCHANGED <<sources, result, failed, phase, exit, keep_source>>
      BY <1>7, <2>2 DEF Restat, dirVars, tallies, mainVars, command, Kind
    <3> QED
      BY <3>1 DEF Goto, TypeOK, OutcomeInv, HasSource, Bad
  <2> QED
    BY <2>1, <2>2
<1>8. CASE Remove(src)
  <2>1. CASE Fail(src, "remove", "delete")
    BY <1>1, <2>1 DEF HasSource
  <2>2. CASE ~Fail(src, "remove", "delete")
    <3>1. /\ phase = "running" /\ pc[src] = "remove" /\ pc'[src] = "tally"
          /\ sources' = sources \ {src} /\ UNCHANGED <<result, failed, phase, exit, keep_source>>
      BY <1>8, <2>2 DEF Remove, Goto, TypeOK, tallies, mainVars, command
    <3> QED
      BY <3>1 DEF OutcomeInv, HasSource, Bad
  <2> QED
    BY <2>1, <2>2
<1>9. CASE Tally(src)
  <2>1. /\ phase = "running" /\ pc[src] = "tally" /\ pc'[src] = "done"
        /\ result'[src] = "ok" /\ UNCHANGED <<sources, failed, phase, exit, keep_source>>
    BY <1>9 DEF Tally, Goto, TypeOK, dirVars, mainVars, command
  <2> QED
    BY <2>1 DEF OutcomeInv, HasSource, Bad
<1> QED
  BY <1>2, <1>3, <1>4, <1>5, <1>6, <1>7, <1>8, <1>9 DEF Worker

LEMMA OInvNext == TypeOK /\ OInv /\ [Next]_vars => OInv'
<1> SUFFICES ASSUME TypeOK, OInv, [Next]_vars, NEW src \in Image
             PROVE  OutcomeInv(src)'
  BY DEF OInv
<1>0. OutcomeInv(src)
  BY DEF OInv
<1>1. CASE List
  BY <1>0, <1>1
     DEF List, OutcomeInv, HasSource, Bad, dirVars, tallies, command, TypeOK
<1>2. CASE ListFails
  BY <1>0, <1>2 DEF ListFails, OutcomeInv, HasSource, Bad, dirVars, tallies, command
<1>3. CASE Summarise
  <2>1. pc[src] \in {"none", "done"}
    BY <1>3 DEF Summarise, candidates
  <2>2. failed > 0 \/ failed = 0
    BY DEF TypeOK
  <2> QED
    BY <1>0, <1>3, <2>1, <2>2
       DEF Summarise, OutcomeInv, HasSource, Bad, dirVars, tallies, command
<1>4. ASSUME NEW s \in Image, Worker(s) PROVE OutcomeInv(src)'
  BY <1>0, <1>4, OwnOutcome, OtherOutcome
<1>5. CASE Abort \/ Rerun
  BY <1>5 DEF Abort, Rerun, NewProcess, OutcomeInv, HasSource, Bad, NoExit
<1>6. CASE UNCHANGED vars
  BY <1>0, <1>6 DEF vars, OutcomeInv
<1> QED
  BY <1>1, <1>2, <1>3, <1>4, <1>5, <1>6 DEF Next

\* A candidate that is reported as failed keeps its source file, whether or
\* not its output is shared with another one.
THEOREM FailureKeepsSource == Spec => []FailedKeepsSource
<1>1. TypeOK /\ OInv => FailedKeepsSource
  BY DEF TypeOK, OInv, OutcomeInv, FailedKeepsSource, Bad
<1> QED
  BY <1>1, OInvInit, OInvNext, TypeCorrect, PTL DEF Spec

(***************************************************************************)
(* The exit code                                                           *)
(***************************************************************************)

\* A picture that was converted, whether or not its source could be deleted,
\* has a complete output file, if that file is its own.
OkInv ==
    \A src \in Image :
        OwnOutput(src) /\ result[src] \in {"ok", "delete"}
            => disk[dst(src)] = Encoded(src)

LEMMA OkInvInit == Init => OkInv
BY DEF Init, OkInv

\* Every other failure comes before the output is complete.
LEMMA OnlyRemoveFailsToDelete ==
    ASSUME TypeOK, OInv, NEW src \in Image, Worker(src),
           result'[src] \in {"ok", "delete"}
    PROVE  /\ pc[src] \in {"remove", "tally"}
           /\ disk' = disk
<1>1. pc[src] # "done" /\ result[src] = "none"
  BY DEF OInv, OutcomeInv, Worker, Start, Decode, Encode, Create, Write, Restat,
         Remove, Tally, Fail, Goto
<1>2. ASSUME NEW from, NEW kind \in Kind, Fail(src, from, kind) PROVE FALSE
  BY <1>2 DEF Fail, Kind, TypeOK
<1>3. CASE Remove(src) \/ Tally(src)
  BY <1>3 DEF Remove, Tally, Fail, Goto, dirVars
<1>4. CASE ~(Remove(src) \/ Tally(src))
  <2>1. result' = result
    BY <1>2, <1>4
       DEF Worker, Start, Decode, Encode, Create, Write, Restat, Kind
  <2> QED
    BY <1>1, <2>1
<1> QED
  BY <1>3, <1>4

LEMMA OkInvNext == TypeOK /\ WInv /\ OInv /\ OkInv /\ [Next]_vars => OkInv'
<1> SUFFICES ASSUME TypeOK, WInv, OInv, OkInv, [Next]_vars, NEW src \in Image,
                    OwnOutput(src), result'[src] \in {"ok", "delete"}
             PROVE  disk'[Stem[src]] = Encoded(src)
  BY DEF OkInv, OwnOutput, Encoded, Prefix
<1>1. ASSUME UNCHANGED <<disk, result>> PROVE disk'[Stem[src]] = Encoded(src)
  BY <1>1 DEF OkInv
<1>2. CASE List \/ ListFails \/ Summarise
  BY <1>1, <1>2 DEF List, ListFails, Summarise, dirVars
<1>3. CASE Worker(src)
  BY <1>3, OnlyRemoveFailsToDelete DEF WInv, WorkerInv
<1>4. ASSUME NEW other \in Image, other # src, Worker(other)
      PROVE  disk'[Stem[src]] = Encoded(src)
  <2>1. result'[src] = result[src]
    BY <1>4 DEF Worker, Start, Decode, Encode, Create, Write, Restat, Remove,
                Tally, Fail, TypeOK
  <2>2. Stem[other] # Stem[src] /\ Stem[src] \in Stems
    BY <1>4, DstType DEF OwnOutput
  <2>3. disk'[Stem[src]] = disk[Stem[src]]
    BY <1>4, <2>2 DEF Worker, Start, Decode, Encode, Create, Write, Restat,
                      Remove, Tally, Fail, dirVars, TypeOK
  <2> QED
    BY <2>1, <2>3 DEF OkInv
<1>5. CASE Abort \/ Rerun
  BY <1>5 DEF Abort, Rerun, NewProcess
<1>6. CASE UNCHANGED vars
  BY <1>1, <1>6 DEF vars
<1> QED
  BY <1>2, <1>3, <1>4, <1>5, <1>6 DEF Next

\* When every candidate has an output of its own, exit code 0 means that each
\* listed candidate was converted completely and its source is gone, unless
\* --keep-source was given.
THEOREM ExitZeroIsTrue ==
    ASSUME DistinctOutputs
    PROVE  Spec => []ExitZeroMeansConverted
<1>1. TypeOK /\ OInv /\ OkInv => ExitZeroMeansConverted
  BY DistinctAreOwn
     DEF TypeOK, OInv, OutcomeInv, OkInv, ExitZeroMeansConverted, candidates, Bad
<1> QED
  BY <1>1, WInvInit, WInvNext, OInvInit, OInvNext, OkInvInit, OkInvNext,
     TypeCorrect, PTL
     DEF Spec

(***************************************************************************)
(* The counters                                                            *)
(***************************************************************************)

Converted == {src \in Image : result[src] = "ok"}
Refused   == {src \in Image : result[src] \in Bad}

\* The two counters are the numbers of candidates with either result, at all
\* times and not only after the join.
CountInv == count = Cardinality(Converted) /\ failed = Cardinality(Refused)

LEMMA FiniteOutcomes == IsFiniteSet(Converted) /\ IsFiniteSet(Refused)
BY ImageAssumption, FS_Subset DEF Converted, Refused

LEMMA NoOutcomes ==
    ASSUME \A src \in Image : result[src] = "none", count = 0, failed = 0
    PROVE  CountInv
<1>1. Converted = {} /\ Refused = {}
  BY DEF Converted, Refused, Bad
<1> QED
  BY <1>1, FS_EmptySet DEF CountInv

LEMMA CountInvInit == Init => CountInv
<1> SUFFICES ASSUME Init PROVE CountInv
  OBVIOUS
<1>1. (\A src \in Image : result[src] = "none") /\ count = 0 /\ failed = 0
  BY DEF Init
<1> QED
  BY <1>1, NoOutcomes

\* A step that ends no worker.
LEMMA CountUnchanged ==
    ASSUME CountInv, UNCHANGED <<result, count, failed>>
    PROVE  CountInv'
BY DEF CountInv, Converted, Refused

LEMMA FailCounts ==
    ASSUME TypeOK, OInv, CountInv, NEW src \in Image,
           NEW from \in HasSource, NEW kind \in Bad, Fail(src, from, kind)
    PROVE  CountInv'
<1>1. /\ pc[src] = from /\ result' = [result EXCEPT ![src] = kind]
      /\ failed' = failed + 1 /\ count' = count
  BY DEF Fail, Goto
<1>2. result[src] = "none"
  BY <1>1 DEF OInv, OutcomeInv, HasSource
<1>3. src \notin Refused
  BY <1>2 DEF Refused, Bad
<1>4. Converted' = Converted
  BY <1>1, <1>2 DEF Converted, Bad, TypeOK
<1>5. Refused' = Refused \cup {src}
  BY <1>1 DEF Refused, Bad, TypeOK
<1>6. Cardinality(Refused') = Cardinality(Refused) + 1
  BY <1>3, <1>5, FiniteOutcomes, FS_AddElement
<1> QED
  BY <1>1, <1>4, <1>6 DEF CountInv

LEMMA TallyCounts ==
    ASSUME TypeOK, OInv, CountInv, NEW src \in Image, Tally(src)
    PROVE  CountInv'
<1>1. /\ pc[src] = "tally" /\ result' = [result EXCEPT ![src] = "ok"]
      /\ count' = count + 1 /\ failed' = failed
  BY DEF Tally, Goto
<1>2. result[src] = "none"
  BY <1>1 DEF OInv, OutcomeInv
<1>3. src \notin Converted
  BY <1>2 DEF Converted
<1>4. Refused' = Refused
  BY <1>1, <1>2 DEF Refused, Bad, TypeOK
<1>5. Converted' = Converted \cup {src}
  BY <1>1 DEF Converted, TypeOK
<1>6. Cardinality(Converted') = Cardinality(Converted) + 1
  BY <1>3, <1>5, FiniteOutcomes, FS_AddElement
<1> QED
  BY <1>1, <1>4, <1>6 DEF CountInv

LEMMA CountInvNext == TypeOK /\ OInv /\ CountInv /\ [Next]_vars => CountInv'
<1> SUFFICES ASSUME TypeOK, OInv, CountInv, [Next]_vars PROVE CountInv'
  OBVIOUS
<1>1. CASE List \/ ListFails \/ Summarise
  BY <1>1, CountUnchanged DEF List, ListFails, Summarise, tallies
<1>2. ASSUME NEW src \in Image, Worker(src) PROVE CountInv'
  <2>1. CASE \E from \in HasSource, kind \in Bad : Fail(src, from, kind)
    BY <2>1, FailCounts
  <2>2. CASE Tally(src)
    BY <2>2, TallyCounts
  <2>3. CASE /\ ~\E from \in HasSource, kind \in Bad : Fail(src, from, kind)
             /\ ~Tally(src)
    <3>1. UNCHANGED <<result, count, failed>>
      BY <1>2, <2>3 DEF Worker, Start, Decode, Encode, Create, Write, Restat,
                        Remove, tallies, HasSource, Bad, Result, Kind
    <3> QED
      BY <3>1, CountUnchanged
  <2> QED
    BY <2>1, <2>2, <2>3
<1>3. CASE Abort \/ Rerun
  <2>1. /\ \A src \in Image : result'[src] = "none"
        /\ count' = 0 /\ failed' = 0
    BY <1>3 DEF Abort, Rerun, NewProcess
  <2>2. Converted' = {} /\ Refused' = {}
    BY <2>1 DEF Converted, Refused, Bad
  <2> QED
    BY <2>1, <2>2, FS_EmptySet DEF CountInv
<1>4. CASE UNCHANGED vars
  BY <1>4, CountUnchanged DEF vars
<1> QED
  BY <1>1, <1>2, <1>3, <1>4 DEF Next

\* After the join, the two counters of the summary add up to the candidates,
\* and each of them is the number of candidates with that result.
THEOREM SummaryIsTrue == Spec => []SummaryAccounts
<1>1. TypeOK /\ OInv /\ CountInv => SummaryAccounts
  <2> SUFFICES ASSUME TypeOK, OInv, CountInv, NEW src \in candidates,
                      \A other \in candidates : pc[other] = "done"
               PROVE  /\ result[src] # "none"
                      /\ count = Cardinality({i \in candidates : result[i] = "ok"})
                      /\ failed = Cardinality({i \in candidates : result[i] # "ok"})
    BY DEF SummaryAccounts
  <2>1. \A i \in candidates : result[i] # "none"
    BY DEF candidates, OInv, OutcomeInv
  <2>2. \A i \in Image : result[i] # "none" => i \in candidates
    BY DEF candidates, OInv, OutcomeInv
  <2>3. candidates \subseteq Image
    BY DEF candidates
  <2>4. {i \in candidates : result[i] = "ok"} = Converted
    BY <2>2, <2>3 DEF Converted
  <2>5. {i \in candidates : result[i] # "ok"} = Refused
    BY <2>1, <2>2, <2>3 DEF Refused, Bad, TypeOK
  <2> QED
    BY <2>1, <2>4, <2>5 DEF CountInv
<1> QED
  BY <1>1, CountInvInit, CountInvNext, OInvInit, OInvNext, TypeCorrect, PTL DEF Spec

(***************************************************************************)
(* The byte total                                                          *)
(*                                                                         *)
(* SumFunction of the community modules, taken apart: the recursive        *)
(* function behind it has a value for every subset of a finite domain, and *)
(* the order in which the elements are chosen does not matter.             *)
(***************************************************************************)

Some(s) == CHOOSE x \in s : TRUE

Sums(f, S) ==
    CHOOSE g : g = [s \in SUBSET S |->
                       IF s = {} THEN 0 ELSE f[Some(s)] + g[s \ {Some(s)}]]

AreSums(g, f, S) ==
    \A s \in SUBSET S :
        g[s] = IF s = {} THEN 0 ELSE f[Some(s)] + g[s \ {Some(s)}]

LEMMA SumFunctionIs ==
    ASSUME NEW f
    PROVE  SumFunction(f) = Sums(f, DOMAIN f)[DOMAIN f]
BY DEF SumFunction, SumFunctionOnSet, FoldFunctionOnSet, MapThenFoldSet, Sums, Some

LEMMA SumsExist ==
    ASSUME NEW f, NEW S, IsFiniteSet(S)
    PROVE  AreSums(Sums(f, S), f, S)
<1> DEFINE UpTo(n)  == {s \in SUBSET S : Cardinality(s) <= n}
           Of(g, n) == g = [s \in UpTo(n) |->
                              IF s = {} THEN 0 ELSE f[Some(s)] + g[s \ {Some(s)}]]
           T        == {n \in Nat : \E g : Of(g, n)}
<1>1. /\ \A s \in SUBSET S : IsFiniteSet(s) /\ Cardinality(s) \in Nat
      /\ \A s \in SUBSET S : Cardinality(s) = 0 <=> s = {}
      /\ \A s \in SUBSET S : Cardinality(s) <= Cardinality(S)
      /\ \A s \in SUBSET S : s # {} => Some(s) \in s
      /\ \A s \in SUBSET S : s # {} => Cardinality(s \ {Some(s)}) = Cardinality(s) - 1
  BY FS_Subset, FS_CardinalityType, FS_EmptySet, FS_RemoveElement DEF Some
<1>2. 0 \in T
  <2>1. \A s \in UpTo(0) : s = {}
    BY <1>1
  <2>2. Of([s \in UpTo(0) |-> 0], 0)
    BY <2>1
  <2> QED
    BY <2>2
<1>3. ASSUME NEW n \in Nat, n \in T PROVE n + 1 \in T
  <2>1. PICK g : Of(g, n)
    BY <1>3
  <2> DEFINE h == [s \in UpTo(n + 1) |->
                     IF s = {} THEN 0 ELSE f[Some(s)] + g[s \ {Some(s)}]]
  <2>2. ASSUME NEW s \in UpTo(n + 1), s # {}
        PROVE  h[s \ {Some(s)}] = g[s \ {Some(s)}]
    <3> DEFINE r == s \ {Some(s)}
    <3>1. r \in UpTo(n) /\ r \in UpTo(n + 1)
      BY <1>1, <2>2
    <3> HIDE DEF r
    <3>2. g[r] = IF r = {} THEN 0 ELSE f[Some(r)] + g[r \ {Some(r)}]
      BY <2>1, <3>1
    <3>3. h[r] = IF r = {} THEN 0 ELSE f[Some(r)] + g[r \ {Some(r)}]
      BY <3>1
    <3> QED
      BY <3>2, <3>3 DEF r
  <2>3. Of(h, n + 1)
    BY <2>2
  <2> HIDE DEF h, Of
  <2> QED
    BY <2>3
<1>4. \E g : Of(g, Cardinality(S))
  <2> HIDE DEF T
  <2>1. Nat \subseteq T
    BY <1>2, <1>3, SetInduction
  <2>2. Cardinality(S) \in Nat
    BY FS_CardinalityType
  <2> QED
    BY <2>1, <2>2 DEF T
<1>5. UpTo(Cardinality(S)) = SUBSET S
  BY <1>1
<1>6. PICK g : g = [s \in SUBSET S |->
                      IF s = {} THEN 0 ELSE f[Some(s)] + g[s \ {Some(s)}]]
  BY <1>4, <1>5
<1>7. Sums(f, S) = [s \in SUBSET S |->
                      IF s = {} THEN 0 ELSE f[Some(s)] + Sums(f, S)[s \ {Some(s)}]]
  BY <1>6 DEF Sums
<1> QED
  BY <1>7 DEF AreSums

\* Sums of natural numbers are natural numbers, and any element can be taken
\* out first.
LEMMA SumOfAny ==
    ASSUME NEW g, NEW f, NEW S, IsFiniteSet(S), AreSums(g, f, S),
           \A x \in S : f[x] \in Nat
    PROVE  \A s \in SUBSET S :
              g[s] \in Nat /\ \A x \in s : g[s] = f[x] + g[s \ {x}]
<1>1. \A s \in SUBSET S : s # {} => Some(s) \in s
  BY DEF Some
<1>2. \A s \in SUBSET S : g[s] \in Nat
  <2> DEFINE T == {s \in SUBSET S : g[s] \in Nat}
  <2>1. ASSUME NEW s \in SUBSET S, \A x \in s : s \ {x} \in T PROVE s \in T
    <3>1. CASE s = {}
      <4>1. g[s] = 0
        BY <3>1 DEF AreSums
      <4> QED
        BY <4>1
    <3>2. CASE s # {}
      <4>1. g[s] = f[Some(s)] + g[s \ {Some(s)}]
        BY <3>2 DEF AreSums
      <4>2. f[Some(s)] \in Nat /\ g[s \ {Some(s)}] \in Nat
        BY <1>1, <2>1, <3>2
      <4> QED
        BY <4>1, <4>2
    <3> QED
      BY <3>1, <3>2
  <2> HIDE DEF T
  <2>2. SUBSET S \subseteq T
    BY <2>1, RemovalInduction
  <2> QED
    BY <2>2 DEF T
<1> DEFINE Any(s) == \A x \in s : g[s] = f[x] + g[s \ {x}]
           T      == {s \in SUBSET S : Any(s)}
<1>3. ASSUME NEW s \in SUBSET S, \A y \in s : s \ {y} \in T, NEW x \in s
      PROVE  g[s] = f[x] + g[s \ {x}]
  <2> DEFINE c == Some(s)
  <2>1. c \in s
    BY <1>1
  <2>2. g[s] = f[c] + g[s \ {c}]
    BY DEF AreSums
  <2> HIDE DEF c
  <2>3. CASE x = c
    BY <2>2, <2>3
  <2>4. CASE x # c
    <3>1. g[s \ {c}] = f[x] + g[(s \ {c}) \ {x}]
      BY <1>3, <2>1, <2>4
    <3>2. g[s \ {x}] = f[c] + g[(s \ {x}) \ {c}]
      BY <1>3, <2>1, <2>4
    <3>3. (s \ {c}) \ {x} = (s \ {x}) \ {c}
      OBVIOUS
    <3>4. (s \ {c}) \ {x} \in SUBSET S /\ f[x] \in Nat /\ f[c] \in Nat
      BY <2>1
    <3>5. g[(s \ {c}) \ {x}] \in Nat
      BY <1>2, <3>4
    <3>6. \A a, b, d \in Nat : a + (b + d) = b + (a + d)
      OBVIOUS
    <3>7. g[s] = f[c] + (f[x] + g[(s \ {c}) \ {x}])
      BY <2>2, <3>1
    <3>8. f[x] + g[s \ {x}] = f[x] + (f[c] + g[(s \ {c}) \ {x}])
      BY <3>2, <3>3
    <3> QED
      BY <3>4, <3>5, <3>6, <3>7, <3>8
  <2> QED
    BY <2>3, <2>4
<1>4. \A s \in SUBSET S : (\A y \in s : s \ {y} \in T) => s \in T
  BY <1>3
<1> HIDE DEF T
<1>5. SUBSET S \subseteq T
  BY <1>4, RemovalInduction
<1> QED
  BY <1>2, <1>5 DEF T

\* A sum depends on the values it adds up only.
LEMMA SumsAgree ==
    ASSUME NEW g, NEW f, NEW S, NEW h, NEW e, NEW R,
           S \subseteq R, IsFiniteSet(S), AreSums(g, f, S), AreSums(h, e, R),
           \A x \in S : f[x] = e[x]
    PROVE  g[S] = h[S]
<1> DEFINE T == {s \in SUBSET S : g[s] = h[s]}
<1>1. ASSUME NEW s \in SUBSET S, \A x \in s : s \ {x} \in T PROVE s \in T
  <2>1. s \in SUBSET R
    OBVIOUS
  <2>2. s # {} => Some(s) \in s
    BY DEF Some
  <2>3. CASE s = {}
    BY <2>1, <2>3 DEF AreSums
  <2>4. CASE s # {}
    <3>1. g[s \ {Some(s)}] = h[s \ {Some(s)}] /\ f[Some(s)] = e[Some(s)]
      BY <1>1, <2>2, <2>4
    <3>2. g[s] = f[Some(s)] + g[s \ {Some(s)}]
      BY <2>4 DEF AreSums
    <3>3. h[s] = e[Some(s)] + h[s \ {Some(s)}]
      BY <2>1, <2>4 DEF AreSums
    <3> QED
      BY <3>1, <3>2, <3>3
  <2> QED
    BY <2>3, <2>4
<1> HIDE DEF T
<1>2. SUBSET S \subseteq T
  BY <1>1, RemovalInduction
<1> QED
  BY <1>2 DEF T

\* The byte counter is the encoded size of what was converted, at all times.
TotalInv == total_out = Sums(Size, Image)[Converted]

LEMMA SizesAddUp ==
    /\ AreSums(Sums(Size, Image), Size, Image)
    /\ \A src \in Image : Size[src] \in Nat
BY SumsExist, ImageAssumption, SizeAssumption

LEMMA TotalNone ==
    ASSUME \A src \in Image : result[src] = "none", total_out = 0
    PROVE  TotalInv
<1>1. Converted = {}
  BY DEF Converted
<1> QED
  BY <1>1, SizesAddUp DEF TotalInv, AreSums

LEMMA TotalInvInit == Init => TotalInv
<1> SUFFICES ASSUME Init PROVE TotalInv
  OBVIOUS
<1>1. (\A src \in Image : result[src] = "none") /\ total_out = 0
  BY DEF Init
<1> QED
  BY <1>1, TotalNone

LEMMA TotalInvNext == TypeOK /\ OInv /\ TotalInv /\ [Next]_vars => TotalInv'
<1> SUFFICES ASSUME TypeOK, OInv, TotalInv, [Next]_vars PROVE TotalInv'
  OBVIOUS
<1>1. ASSUME UNCHANGED <<result, total_out>> PROVE TotalInv'
  BY <1>1 DEF TotalInv, Converted
<1>2. CASE List \/ ListFails \/ Summarise
  BY <1>1, <1>2 DEF List, ListFails, Summarise, tallies
<1>3. ASSUME NEW src \in Image, Worker(src) PROVE TotalInv'
  <2>1. ASSUME NEW from \in HasSource, NEW kind \in Bad, Fail(src, from, kind)
        PROVE  TotalInv'
    <3>1. /\ pc[src] = from /\ result' = [result EXCEPT ![src] = kind]
          /\ total_out' = total_out
      BY <2>1 DEF Fail, Goto
    <3>2. result[src] = "none" /\ kind # "ok"
      BY <3>1 DEF OInv, OutcomeInv, HasSource, Bad
    <3>3. Converted' = Converted
      BY <3>1, <3>2 DEF Converted, TypeOK
    <3> QED
      BY <3>1, <3>3 DEF TotalInv
  <2>2. CASE Tally(src)
    <3>1. /\ pc[src] = "tally" /\ result' = [result EXCEPT ![src] = "ok"]
          /\ total_out' = total_out + Size[src]
      BY <2>2 DEF Tally, Goto
    <3>2. result[src] = "none"
      BY <3>1 DEF OInv, OutcomeInv
    <3>3. Converted' = Converted \cup {src} /\ src \notin Converted
      BY <3>1, <3>2 DEF Converted, TypeOK
    <3>4. Converted \in SUBSET Image /\ Converted' \in SUBSET Image
      BY DEF Converted
    <3> DEFINE sums == Sums(Size, Image)
    <3>5. AreSums(sums, Size, Image) /\ (\A s \in Image : Size[s] \in Nat)
      BY SizesAddUp
    <3> HIDE DEF sums
    <3>6. /\ sums[Converted] \in Nat
          /\ sums[Converted'] = Size[src] + sums[Converted' \ {src}]
      BY <3>3, <3>4, <3>5, SumOfAny, ImageAssumption
    <3>7. Converted' \ {src} = Converted
      BY <3>3
    <3>8. total_out = sums[Converted]
      BY DEF TotalInv, sums
    <3>9. total_out' = sums[Converted']
      <4>1. \A a, b \in Nat : a + b = b + a
        OBVIOUS
      <4>2. total_out' = sums[Converted] + Size[src]
        BY <3>1, <3>8
      <4>3. sums[Converted'] = Size[src] + sums[Converted]
        BY <3>6, <3>7
      <4>4. Size[src] \in Nat /\ sums[Converted] \in Nat
        BY <3>5, <3>6
      <4> QED
        BY <4>1, <4>2, <4>3, <4>4
    <3> QED
      BY <3>9 DEF TotalInv, sums
  <2>3. CASE /\ ~\E from \in HasSource, kind \in Bad : Fail(src, from, kind)
             /\ ~Tally(src)
    <3>1. UNCHANGED <<result, total_out>>
      BY <1>3, <2>3 DEF Worker, Start, Decode, Encode, Create, Write, Restat,
                        Remove, tallies, HasSource, Bad, Result, Kind
    <3> QED
      BY <1>1, <3>1
  <2> QED
    BY <2>1, <2>2, <2>3
<1>4. CASE Abort \/ Rerun
  <2>1. (\A src \in Image : result'[src] = "none") /\ total_out' = 0
    BY <1>4 DEF Abort, Rerun, NewProcess
  <2>2. Converted' = {}
    BY <2>1 DEF Converted
  <2> QED
    BY <2>1, <2>2, SizesAddUp DEF TotalInv, AreSums
<1>5. CASE UNCHANGED vars
  BY <1>1, <1>5 DEF vars
<1> QED
  BY <1>2, <1>3, <1>4, <1>5 DEF Next

LEMMA LengthOfEncoded ==
    ASSUME NEW src \in Image
    PROVE  Len(Encoded(src)) = Size[src]
BY SizeAssumption DEF Encoded, Prefix

\* When every candidate has an output of its own, the byte total of the
\* summary is what the output files of the run hold on disk.
THEOREM TotalIsOnDisk ==
    ASSUME DistinctOutputs
    PROVE  Spec => []TotalMatchesDisk
<1>1. TypeOK /\ OInv /\ OkInv /\ TotalInv => TotalMatchesDisk
  <2> SUFFICES ASSUME TypeOK, OInv, OkInv, TotalInv
               PROVE  total_out = SumFunction([src \in {i \in candidates : result[i] = "ok"}
                                                 |-> Len(disk[dst(src)])])
    BY DEF TotalMatchesDisk
  <2>1. \A i \in Image : result[i] = "ok" => i \in candidates
    BY DEF candidates, OInv, OutcomeInv
  <2>2. {i \in candidates : result[i] = "ok"} = Converted
    BY <2>1 DEF candidates, Converted
  <2> DEFINE lengths == [src \in Converted |-> Len(disk[dst(src)])]
  <2>3. \A src \in Converted : lengths[src] = Size[src]
    BY DistinctAreOwn, LengthOfEncoded DEF OkInv, Converted
  <2>4. SumFunction(lengths) = Sums(lengths, Converted)[Converted]
    BY SumFunctionIs
  <2> HIDE DEF lengths
  <2>5. Sums(lengths, Converted)[Converted] = Sums(Size, Image)[Converted]
    <3>1. AreSums(Sums(lengths, Converted), lengths, Converted)
      BY SumsExist, FiniteOutcomes
    <3>2. Converted \subseteq Image /\ IsFiniteSet(Converted)
      BY FiniteOutcomes DEF Converted
    <3> QED
      BY <2>3, <3>1, <3>2, SizesAddUp, SumsAgree
  <2> QED
    BY <2>2, <2>4, <2>5 DEF TotalInv, lengths
<1> QED
  BY <1>1, WInvInit, WInvNext, OInvInit, OInvNext, OkInvInit, OkInvNext,
     TotalInvInit, TotalInvNext, TypeCorrect, PTL
     DEF Spec
=============================================================================
