------------------------- MODULE BatchConvertProofs -------------------------
(***************************************************************************)
(* Theorems about BatchConvert, for every directory, file size, pool size, *)
(* and number of runs, each of them with or without --keep-source.         *)
(***************************************************************************)
EXTENDS BatchConvert, TLAPS

USE DEF dst

(***************************************************************************)
(* Lemmas about file contents                                              *)
(***************************************************************************)

\* Every source has an output file in the directory.
LEMMA DstType == ASSUME NEW src \in Image PROVE Stem[src] \in Stems
BY DEF Stems

\* A write of one chunk leaves a sequence of chunks.
LEMMA SpliceType ==
    ASSUME NEW f \in Seq(Chunk), NEW k \in Nat \ {0}, NEW src \in Image
    PROVE  Splice(f, k, src) \in Seq(Chunk)
<1> DEFINE n == IF k > Len(f) THEN k ELSE Len(f)
<1>1. Len(f) \in Nat /\ n \in Nat
  OBVIOUS
<1>2. \A p \in 1 .. n : p <= Len(f) => f[p] \in Chunk
  BY <1>1
<1>3. Splice(f, k, src) \in [1 .. n -> Chunk]
  BY <1>1, <1>2 DEF Splice, Chunk
<1> HIDE DEF n
<1> QED
  BY <1>1, <1>3

\* The next chunk in order extends an uninterrupted write by one chunk.
LEMMA SplicePrefix ==
    ASSUME NEW src \in Image, NEW k \in Nat
    PROVE  Splice(Prefix(src, k), k + 1, src) = Prefix(src, k + 1)
<1>1. Prefix(src, k) \in Seq({src}) /\ Len(Prefix(src, k)) = k
  BY DEF Prefix
<1> QED
  BY <1>1 DEF Splice, Prefix

(***************************************************************************)
(* Type correctness                                                        *)
(***************************************************************************)

LEMMA TypeInit == Init => TypeOK
<1> SUFFICES ASSUME Init PROVE TypeOK
  OBVIOUS
<1>1. disk \in [Stems -> Seq(Chunk)]
  <2>1. << >> \in Seq(Chunk) /\ <<Foreign>> \in Seq(Chunk)
    BY DEF Chunk
  <2> QED
    BY <2>1 DEF Init
<1> QED
  BY <1>1, RunsAssumption
     DEF Init, TypeOK, Phase, Step, Result, Kind, NoExit

\* A failed step keeps the types, whatever step it is.
LEMMA TypeFail ==
    ASSUME TypeOK, NEW src \in Image, NEW from, NEW kind \in Kind \cup {"delete"},
           Fail(src, from, kind)
    PROVE  TypeOK'
BY DEF Fail, Goto, TypeOK, Step, Result, Kind, dirVars, mainVars, command

LEMMA TypeWorker ==
    ASSUME TypeOK, NEW src \in Image, Worker(src)
    PROVE  TypeOK'
<1> USE DEF Kind
<1>1. CASE Start(src)
  BY <1>1, TypeFail
     DEF Start, Goto, TypeOK, Step, dirVars, mainVars, command, tallies
<1>2. CASE Decode(src)
  BY <1>2, TypeFail
     DEF Decode, Goto, TypeOK, Step, dirVars, mainVars, command, tallies
<1>3. CASE Encode(src)
  BY <1>3, TypeFail
     DEF Encode, Goto, TypeOK, Step, dirVars, mainVars, command, tallies
<1>4. CASE Create(src)
  <2>1. CASE Fail(src, "create", "io")
    BY <2>1, TypeFail
  <2>2. CASE ~Fail(src, "create", "io")
    <3>1. << >> \in Seq(Chunk)
      OBVIOUS
    <3>2. disk' \in [Stems -> Seq(Chunk)]
      BY <1>4, <2>2, <3>1 DEF Create, TypeOK
    <3>3. Goto(src, "create", "write") /\ written' = [written EXCEPT ![src] = 0]
          /\ UNCHANGED <<sources, result, tallies, mainVars>>
      BY <1>4, <2>2 DEF Create
    <3> QED
      BY <3>2, <3>3 DEF Goto, TypeOK, Step, mainVars, command, tallies
  <2> QED
    BY <2>1, <2>2
<1>5. CASE Write(src)
  <2>1. CASE Fail(src, "write", "io")
    BY <2>1, TypeFail
  <2>2. CASE ~Fail(src, "write", "io")
    <3>1. disk[Stem[src]] \in Seq(Chunk) /\ written[src] + 1 \in Nat \ {0}
      BY DstType DEF TypeOK
    <3>2. Splice(disk[Stem[src]], written[src] + 1, src) \in Seq(Chunk)
      BY <3>1, SpliceType
    <3>3. disk' \in [Stems -> Seq(Chunk)]
      BY <1>5, <2>2, <3>2 DEF Write, TypeOK
    <3>4. Goto(src, "write",
               IF written[src] + 1 < Size[src] THEN "write" ELSE "restat")
          /\ written' = [written EXCEPT ![src] = @ + 1]
          /\ UNCHANGED <<sources, result, tallies, mainVars>>
      BY <1>5, <2>2 DEF Write
    <3> QED
      BY <3>3, <3>4 DEF Goto, TypeOK, Step, mainVars, command, tallies
  <2> QED
    BY <2>1, <2>2
<1>6. CASE Restat(src)
  BY <1>6, TypeFail
     DEF Restat, Goto, TypeOK, Step, dirVars, mainVars, command, tallies
<1>7. CASE Remove(src)
  BY <1>7, TypeFail
     DEF Remove, Goto, TypeOK, Step, mainVars, command, tallies
<1>8. CASE Tally(src)
  <2>1. total_out' \in Nat /\ count' \in Nat
    <3>1. count' = count + 1 /\ total_out' = total_out + Size[src]
      BY <1>8 DEF Tally
    <3>2. Size[src] \in Nat /\ count \in Nat /\ total_out \in Nat
      BY SizeAssumption DEF TypeOK
    <3> QED
      BY <3>1, <3>2
  <2>2. /\ Goto(src, "tally", "done")
        /\ result' = [result EXCEPT ![src] = "ok"]
        /\ UNCHANGED <<dirVars, written, failed, mainVars>>
    BY <1>8 DEF Tally
  <2> QED
    BY <2>1, <2>2 DEF Goto, TypeOK, Step, Result, dirVars, mainVars, command
<1> QED
  BY <1>1, <1>2, <1>3, <1>4, <1>5, <1>6, <1>7, <1>8 DEF Worker

LEMMA TypeNext == TypeOK /\ [Next]_vars => TypeOK'
<1> SUFFICES ASSUME TypeOK, [Next]_vars PROVE TypeOK'
  OBVIOUS
<1>1. CASE List
  BY <1>1 DEF List, TypeOK, Phase, Step, NoExit, dirVars, tallies, command
<1>2. CASE ListFails
  BY <1>2 DEF ListFails, TypeOK, Phase, dirVars, tallies, command
<1>3. CASE Summarise
  BY <1>3 DEF Summarise, TypeOK, Phase, dirVars, tallies, command
<1>4. ASSUME NEW src \in Image, Worker(src) PROVE TypeOK'
  BY <1>4, TypeWorker
<1>5. CASE Abort
  BY <1>5 DEF Abort, NewProcess, TypeOK, Phase, Step, Result, dirVars, command
<1>6. CASE Rerun
  BY <1>6, RunsAssumption
     DEF Rerun, NewProcess, TypeOK, Phase, Step, Result, dirVars, command
<1>7. CASE UNCHANGED vars
  BY <1>7 DEF vars, TypeOK
<1> QED
  BY <1>1, <1>2, <1>3, <1>4, <1>5, <1>6, <1>7 DEF Next

\* The directory, the process and the counters keep their types through every
\* failure, crash and new run.
THEOREM TypeCorrect == Spec => []TypeOK
BY TypeInit, TypeNext, PTL DEF Spec

(***************************************************************************)
(* No image is lost                                                        *)
(*                                                                         *)
(* NoImageLost is not inductive: that a removed source was fully written   *)
(* follows from what is on disk at each step of the worker that removed it *)
(* and from no other worker touching that output file.                     *)
(***************************************************************************)

\* The steps of a worker up to and including its fs::remove_file.
HasSource == {"queued", "decode", "encode", "create", "write", "restat", "remove"}

\* What the worker of src has done so far, as the directory shows it.
WorkerInv(src) ==
    /\ pc[src] \in HasSource => src \in sources
    /\ pc[src] = "write" =>
          /\ written[src] < Size[src]
          /\ disk[dst(src)] = Prefix(src, written[src])
    /\ pc[src] \in {"restat", "remove", "tally"} =>
          disk[dst(src)] = Encoded(src)
    /\ pc[src] = "remove" => ~keep_source
    /\ src \notin sources => disk[dst(src)] = Encoded(src)

\* No other candidate is converted to the output file of src.
OwnOutput(src) == \A other \in Image \ {src} : dst(other) # dst(src)

WInv == \A src \in Image : OwnOutput(src) => WorkerInv(src)

LEMMA DistinctAreOwn ==
    ASSUME DistinctOutputs, NEW src \in Image
    PROVE  OwnOutput(src)
BY DEF DistinctOutputs, OwnOutput

LEMMA WInvInit == Init => WInv
BY DEF Init, WInv, WorkerInv, HasSource

\* No worker changes the command line or the phase.
LEMMA WorkerKeepsCommand ==
    ASSUME NEW src \in Image, Worker(src)
    PROVE  UNCHANGED <<phase, exit, run, keep_source>>
<1>1. UNCHANGED mainVars
  BY DEF Worker, Start, Decode, Encode, Create, Write, Restat, Remove, Tally, Fail
<1> QED
  BY <1>1 DEF mainVars, command

\* A step of one worker leaves the files and the position of another alone.
LEMMA OtherWorker ==
    ASSUME TypeOK, NEW src \in Image, NEW other \in Image, other # src,
           OwnOutput(other), Worker(src), WorkerInv(other)
    PROVE  WorkerInv(other)'
<1>1. Stem[other] # Stem[src] /\ Stem[other] \in Stems
  BY DstType DEF OwnOutput
<1>2. pc'[other] = pc[other]
  BY DEF Worker, Start, Decode, Encode, Create, Write, Restat, Remove, Tally,
         Fail, Goto, TypeOK
<1>3. written'[other] = written[other]
  BY DEF Worker, Start, Decode, Encode, Create, Write, Restat, Remove, Tally,
         Fail, TypeOK
<1>4. disk'[Stem[other]] = disk[Stem[other]]
  BY <1>1
     DEF Worker, Start, Decode, Encode, Create, Write, Restat, Remove, Tally,
         Fail, dirVars, TypeOK
<1>5. other \in sources' <=> other \in sources
  BY DEF Worker, Start, Decode, Encode, Create, Write, Restat, Remove, Tally,
         Fail, dirVars
<1>6. keep_source' = keep_source
  BY WorkerKeepsCommand
<1> QED
  BY <1>2, <1>3, <1>4, <1>5, <1>6 DEF WorkerInv, Prefix, Encoded

\* A failed step gives up nothing.
LEMMA OwnFail ==
    ASSUME TypeOK, NEW src \in Image, WorkerInv(src),
           NEW from, NEW kind, Fail(src, from, kind)
    PROVE  WorkerInv(src)'
<1>1. pc'[src] = "done" /\ UNCHANGED <<sources, disk>>
  BY DEF Fail, Goto, dirVars, TypeOK
<1> QED
  BY <1>1 DEF WorkerInv, HasSource, Encoded, Prefix

\* A worker keeps its own part of the invariant.
LEMMA OwnWorker ==
    ASSUME TypeOK, NEW src \in Image, Worker(src), WorkerInv(src)
    PROVE  WorkerInv(src)'
<1>1. Size[src] \in Nat \ {0} /\ written[src] \in Nat /\ Stem[src] \in Stems
  BY SizeAssumption, DstType DEF TypeOK
<1>2. ASSUME NEW from, NEW kind, Fail(src, from, kind) PROVE WorkerInv(src)'
  BY <1>2, OwnFail
<1>3. ASSUME NEW from \in HasSource, NEW to \in {"decode", "encode", "create"},
             Goto(src, from, to), UNCHANGED <<sources, disk>>
      PROVE  WorkerInv(src)'
  BY <1>3 DEF Goto, TypeOK, WorkerInv, HasSource, Encoded, Prefix
<1>4. CASE Start(src) \/ Decode(src) \/ Encode(src)
  BY <1>2, <1>3, <1>4 DEF Start, Decode, Encode, dirVars, HasSource
<1>5. CASE Create(src)
  <2>1. CASE Fail(src, "create", "io")
    BY <1>2, <2>1
  <2>2. CASE ~Fail(src, "create", "io")
    <3>1. /\ pc[src] = "create" /\ pc'[src] = "write" /\ written'[src] = 0
          /\ disk'[Stem[src]] = << >> /\ sources' = sources
      BY <1>1, <1>5, <2>2 DEF Create, Goto, TypeOK
    <3>2. Prefix(src, 0) = << >>
      BY DEF Prefix
    <3> QED
      BY <1>1, <3>1, <3>2 DEF WorkerInv, HasSource, Encoded, Prefix
  <2> QED
    BY <2>1, <2>2
<1>6. CASE Write(src)
  <2>1. CASE Fail(src, "write", "io")
    BY <1>2, <2>1
  <2>2. CASE ~Fail(src, "write", "io")
    <3>1. /\ pc[src] = "write"
          /\ pc'[src] = IF written[src] + 1 < Size[src] THEN "write" ELSE "restat"
          /\ written'[src] = written[src] + 1
          /\ disk'[Stem[src]] = Splice(disk[Stem[src]], written[src] + 1, src)
          /\ sources' = sources
      BY <1>1, <1>6, <2>2 DEF Write, Goto, TypeOK
    <3>2. disk'[Stem[src]] = Prefix(src, written[src] + 1)
      BY <1>1, <3>1, SplicePrefix DEF WorkerInv
    <3>3. written[src] + 1 < Size[src] \/ written[src] + 1 = Size[src]
      BY <1>1, <3>1 DEF WorkerInv
    <3>4. src \in sources'
      BY <3>1 DEF WorkerInv, HasSource
    <3> QED
      BY <1>1, <3>1, <3>2, <3>3, <3>4 DEF WorkerInv, HasSource, Encoded
  <2> QED
    BY <2>1, <2>2
<1>7. CASE Restat(src)
  <2>1. CASE Fail(src, "restat", "io")
    BY <1>2, <2>1
  <2>2. CASE ~Fail(src, "restat", "io")
    BY <1>7, <2>2
       DEF Restat, Goto, TypeOK, dirVars, mainVars, command, WorkerInv,
           HasSource, Encoded, Prefix
  <2> QED
    BY <2>1, <2>2
<1>8. CASE Remove(src)
  <2>1. CASE Fail(src, "remove", "delete")
    BY <1>2, <2>1
  <2>2. CASE ~Fail(src, "remove", "delete")
    BY <1>8, <2>2
       DEF Remove, Goto, TypeOK, WorkerInv, HasSource, Encoded, Prefix
  <2> QED
    BY <2>1, <2>2
<1>9. CASE Tally(src)
  BY <1>9 DEF Tally, Goto, TypeOK, dirVars, WorkerInv, HasSource, Encoded, Prefix
<1> QED
  BY <1>4, <1>5, <1>6, <1>7, <1>8, <1>9 DEF Worker

LEMMA WInvNext == TypeOK /\ WInv /\ [Next]_vars => WInv'
<1> SUFFICES ASSUME TypeOK, WInv, [Next]_vars, NEW src \in Image, OwnOutput(src)
             PROVE  WorkerInv(src)'
  BY DEF WInv, OwnOutput
<1> USE DEF HasSource, Encoded, Prefix
<1>0. WorkerInv(src)
  BY DEF WInv
<1>1. CASE List
  BY <1>0, <1>1 DEF List, WorkerInv, dirVars, command
<1>2. CASE ListFails \/ Summarise
  <2>1. phase' = "exited" /\ UNCHANGED <<sources, disk, pc, written, keep_source>>
    BY <1>2 DEF ListFails, Summarise, dirVars, command
  <2> QED
    BY <1>0, <2>1 DEF WorkerInv
<1>3. ASSUME NEW other \in Image, Worker(other) PROVE WorkerInv(src)'
  BY <1>0, <1>3, OwnWorker, OtherWorker
<1>4. CASE Abort \/ Rerun
  BY <1>0, <1>4 DEF Abort, Rerun, NewProcess, WorkerInv, dirVars
<1>5. CASE UNCHANGED vars
  BY <1>0, <1>5 DEF vars, WorkerInv
<1> QED
  BY <1>1, <1>2, <1>3, <1>4, <1>5 DEF Next

\* A picture whose output file is its own survives every failure, crash and
\* new run, also when other candidates of the directory collide.
THEOREM OwnOutputIsSafe ==
    ASSUME NEW src \in Image, OwnOutput(src)
    PROVE  Spec => [](src \in sources \/ disk[dst(src)] = Encoded(src))
<1>1. WInv => (src \in sources \/ disk[dst(src)] = Encoded(src))
  BY DEF WInv, WorkerInv
<1> QED
  BY <1>1, WInvInit, WInvNext, TypeCorrect, PTL DEF Spec

\* When every candidate has an output file of its own, no failure, crash or
\* new run can lose a picture: its source or its complete output exists.
THEOREM NothingLost ==
    ASSUME DistinctOutputs
    PROVE  Spec => []NoImageLost
<1>1. WInv => NoImageLost
  BY DistinctAreOwn DEF WInv, WorkerInv, NoImageLost
<1> QED
  BY <1>1, WInvInit, WInvNext, TypeCorrect, PTL DEF Spec

(***************************************************************************)
(* Batch mode implements ImageStore                                        *)
(***************************************************************************)

\* What a picture is held by, in the four situations of its two files.
LEMMA HoldersCases ==
    ASSUME NEW src \in Image
    PROVE  /\ "source" \in Holders(src) <=> src \in sources
           /\ "output" \in Holders(src) <=> disk[dst(src)] = Encoded(src)
           /\ Holders(src) \subseteq {"source", "output"}
BY DEF Holders

LEMMA HoldersCasesPrime ==
    ASSUME NEW src \in Image
    PROVE  /\ "source" \in Holders(src)' <=> src \in sources'
           /\ "output" \in Holders(src)' <=> disk'[dst(src)] = Encoded(src)
           /\ Holders(src)' \subseteq {"source", "output"}
BY DEF Holders, Encoded, Prefix

\* Different lengths make different files: an unfinished one is not complete.
LEMMA UnfinishedIsNotEncoded ==
    ASSUME NEW src \in Image, NEW k \in Nat, k < Size[src]
    PROVE  Prefix(src, k) # Encoded(src)
<1>1. Size[src] \in Nat
  BY SizeAssumption
<1>2. Len(Prefix(src, k)) = k /\ Len(Encoded(src)) = Size[src]
  BY <1>1 DEF Prefix, Encoded
<1> QED
  BY <1>1, <1>2

\* The first run starts with sources alone: no file has its picture yet.
LEMMA StoreInit == Init => Store!Init
<1> SUFFICES ASSUME Init, NEW src \in Image PROVE Holders(src) = {"source"}
  BY DEF Store!Init, Init
<1>1. Encoded(src) # << >>
  <2>1. Prefix(src, 0) = << >>
    BY DEF Prefix
  <2>2. 0 < Size[src]
    BY SizeAssumption
  <2> QED
    BY <2>1, <2>2, UnfinishedIsNotEncoded
<1>2. Encoded(src) # <<Foreign>>
  <2>1. Encoded(src)[1] = src
    BY SizeAssumption DEF Encoded, Prefix
  <2> QED
    BY <2>1, ChunkAssumption
<1>3. disk[dst(src)] # Encoded(src)
  BY <1>1, <1>2, DstType DEF Init
<1> QED
  BY <1>3, HoldersCases DEF Init

\* A step that touches neither files of src changes nothing for it.
LEMMA HoldersSame ==
    ASSUME NEW src \in Image, src \in sources' <=> src \in sources,
           disk'[dst(src)] = disk[dst(src)]
    PROVE  Holders(src)' = Holders(src)
BY HoldersCases, HoldersCasesPrime

\* A worker moves the picture it handles by a step of the store or not at all.
LEMMA WorkerMovesOwn ==
    ASSUME TypeOK, NEW src \in Image, WorkerInv(src), Worker(src)
    PROVE  \/ Holders(src)' = Holders(src)
           \/ /\ Holders(src) = {"source"}
              /\ Holders(src)' = {"source", "output"}
           \/ /\ ~keep_source
              /\ Holders(src) = {"source", "output"}
              /\ Holders(src)' = {"output"}
           \/ /\ Holders(src) = {"source", "output"}
              /\ Holders(src)' = {"source"}
<1>1. Size[src] \in Nat \ {0} /\ written[src] \in Nat /\ Stem[src] \in Stems
  BY SizeAssumption, DstType DEF TypeOK
<1>2. ASSUME NEW from, NEW kind, Fail(src, from, kind)
      PROVE  Holders(src)' = Holders(src)
  BY <1>2, HoldersSame DEF Fail, dirVars
<1>3. CASE Start(src) \/ Decode(src) \/ Encode(src) \/ Restat(src) \/ Tally(src)
  BY <1>2, <1>3, HoldersSame DEF Start, Decode, Encode, Restat, Tally, dirVars
<1>4. CASE Create(src)
  <2>1. CASE Fail(src, "create", "io")
    BY <1>2, <2>1
  <2>2. CASE ~Fail(src, "create", "io")
    <3>1. pc[src] = "create" /\ disk'[Stem[src]] = << >> /\ sources' = sources
      BY <1>1, <1>4, <2>2 DEF Create, Goto, TypeOK
    <3>2. src \in sources
      BY <3>1 DEF WorkerInv, HasSource
    <3>3. Encoded(src) # << >>
      <4>1. Prefix(src, 0) = << >> /\ 0 < Size[src]
        BY <1>1 DEF Prefix
      <4> QED
        BY <4>1, UnfinishedIsNotEncoded
    <3>4. Holders(src)' = {"source"}
      BY <3>1, <3>2, <3>3, HoldersCasesPrime
    <3>5. Holders(src) = {"source"} \/ Holders(src) = {"source", "output"}
      BY <3>2, HoldersCases
    <3> QED
      BY <3>4, <3>5
  <2> QED
    BY <2>1, <2>2
<1>5. CASE Write(src)
  <2>1. CASE Fail(src, "write", "io")
    BY <1>2, <2>1
  <2>2. CASE ~Fail(src, "write", "io")
    <3>1. pc[src] = "write" /\ sources' = sources
      BY <1>5, <2>2 DEF Write, Goto
    <3>2. src \in sources /\ written[src] < Size[src]
          /\ disk[Stem[src]] = Prefix(src, written[src])
      BY <3>1 DEF WorkerInv, HasSource
    <3>3. disk[Stem[src]] # Encoded(src)
      BY <1>1, <3>2, UnfinishedIsNotEncoded
    <3>4. Holders(src) = {"source"}
      BY <3>2, <3>3, HoldersCases
    <3>5. Holders(src)' = {"source"} \/ Holders(src)' = {"source", "output"}
      BY <3>1, <3>2, HoldersCasesPrime
    <3> QED
      BY <3>4, <3>5
  <2> QED
    BY <2>1, <2>2
<1>6. CASE Remove(src)
  <2>1. CASE Fail(src, "remove", "delete")
    BY <1>2, <2>1
  <2>2. CASE ~Fail(src, "remove", "delete")
    <3>1. pc[src] = "remove" /\ sources' = sources \ {src} /\ disk' = disk
      BY <1>6, <2>2 DEF Remove, Goto
    <3>2. src \in sources /\ ~keep_source /\ disk[Stem[src]] = Encoded(src)
      BY <3>1 DEF WorkerInv, HasSource
    <3> QED
      BY <3>1, <3>2, HoldersCases, HoldersCasesPrime
  <2> QED
    BY <2>1, <2>2
<1> QED
  BY <1>3, <1>4, <1>5, <1>6 DEF Worker

\* A worker leaves the files of every other picture alone.
LEMMA WorkerLeavesOthers ==
    ASSUME TypeOK, DistinctOutputs, NEW src \in Image, Worker(src),
           NEW other \in Image, other # src
    PROVE  Holders(other)' = Holders(other)
<1>1. Stem[other] # Stem[src] /\ Stem[other] \in Stems
  BY DstType DEF DistinctOutputs
<1>2. disk'[Stem[other]] = disk[Stem[other]]
  BY <1>1
     DEF Worker, Start, Decode, Encode, Create, Write, Restat, Remove, Tally,
         Fail, dirVars, TypeOK
<1>3. other \in sources' <=> other \in sources
  BY DEF Worker, Start, Decode, Encode, Create, Write, Restat, Remove, Tally,
         Fail, dirVars
<1> QED
  BY <1>2, <1>3, HoldersSame

LEMMA StoreNext ==
    ASSUME TypeOK, DistinctOutputs, WInv, [Next]_vars
    PROVE  [Store!Next]_<<[src \in Image |-> Holders(src)], keep_source>>
<1> DEFINE holders == [src \in Image |-> Holders(src)]
<1>1. ASSUME UNCHANGED dirVars PROVE UNCHANGED holders
  <2>1. \A src \in Image : Holders(src)' = Holders(src)
    BY <1>1, HoldersSame DEF dirVars
  <2> QED
    BY <2>1
<1>2. CASE List \/ ListFails \/ Summarise \/ Abort
  BY <1>1, <1>2 DEF List, ListFails, Summarise, Abort, command
<1>3. CASE Rerun
  <2>1. UNCHANGED holders /\ keep_source' \in BOOLEAN
    BY <1>1, <1>3 DEF Rerun
  <2> QED
    BY <2>1 DEF Store!Next, Store!Command
<1>4. ASSUME NEW src \in Image, Worker(src)
      PROVE  Store!Next \/ UNCHANGED <<holders, keep_source>>
  <2>0. keep_source' = keep_source
    BY <1>4, WorkerKeepsCommand
  <2>1. \A other \in Image : other # src => Holders(other)' = Holders(other)
    BY <1>4, WorkerLeavesOthers
  <2>2. holders' = [holders EXCEPT ![src] = Holders(src)']
    BY <2>1
  <2>3. holders[src] = Holders(src)
    OBVIOUS
  <2>4. CASE Holders(src)' = Holders(src)
    BY <2>0, <2>2, <2>4
  <2>5. CASE Holders(src)' # Holders(src)
    <3>1. Store!Publish(src) \/ Store!Retire(src) \/ Store!Reopen(src)
      BY <1>4, <2>2, <2>3, <2>5, WorkerMovesOwn, DistinctAreOwn
         DEF WInv, Store!Publish, Store!Retire, Store!Reopen
    <3> QED
      BY <2>0, <3>1 DEF Store!Next
  <2> QED
    BY <2>4, <2>5
<1>5. CASE UNCHANGED vars
  BY <1>1, <1>5 DEF vars, dirVars
<1> QED
  BY <1>2, <1>3, <1>4, <1>5 DEF Next

\* Batch mode implements ImageStore: through failures, crashes and new runs a
\* picture moves between its files only by the three steps of the store.
THEOREM ImplementsStore ==
    ASSUME DistinctOutputs
    PROVE  Spec => StoreSpec
<1>1. TypeOK /\ WInv /\ [Next]_vars
        => [Store!Next]_<<[src \in Image |-> Holders(src)], keep_source>>
  BY StoreNext
<1> QED
  BY <1>1, WInvInit, WInvNext, StoreInit, TypeCorrect, PTL
     DEF Spec, StoreSpec, Store!Spec

=============================================================================
