-------------------------- MODULE BatchReportProofs --------------------------
(***************************************************************************)
(* Theorems about batch mode with its reports: the program is a run of     *)
(* BatchConvert, what its report stream says is true of the directory at   *)
(* any moment, and its stream agrees with its summary.                     *)
(*                                                                         *)
(* The invariants of the two parts carry over.  A step of the program is a *)
(* step of the conversion or none, and a step of the stream or none but    *)
(* for the end of the process, so each invariant is kept by the lemma that *)
(* keeps it in the module of its part.                                     *)
(***************************************************************************)
EXTENDS BatchReport, BatchOutcomeProofs

USE DEF dst

RP == INSTANCE ReportStreamProofs
        WITH Record <- Image, alive <- phase # "aborted",
             pc <- at, failed <- given_up

allVars == <<vars, reportVars>>

(***************************************************************************)
(* A run of the program is a run of BatchConvert                           *)
(***************************************************************************)

LEMMA StepConverts == [ReportNext]_allVars => [Next]_vars
<1>1. ASSUME NEW src \in Image, Closure(src) PROVE [Next]_vars
  BY <1>1 DEF Closure, Convert, Begin, Continue, Panic, Next
<1>2. ASSUME Main PROVE [Next]_vars
  BY <1>2 DEF Main, Next
<1>3. ASSUME Crash PROVE [Next]_vars
  BY <1>3 DEF Crash, Next
<1> QED
  BY <1>1, <1>2, <1>3 DEF ReportNext, allVars

\* The closures report what they did, and do nothing else: with its reports
\* the program still is batch mode, so that all theorems on it hold.
THEOREM ReportsOnlyTell == ReportSpec => Spec
<1>1. ReportInit => Init
  BY DEF ReportInit
<1> QED
  BY <1>1, StepConverts, PTL DEF Spec, ReportSpec, allVars

(***************************************************************************)
(* A step of the program is a step of ReportStream, or leaves it alone     *)
(***************************************************************************)

\* What ReportStreamProofs assumes of its constants.
LEMMA StreamConstants ==
    /\ RP!IsFiniteSet(Image)
    /\ Bytes \in [Image -> Nat \ {0}]
    /\ MAX_EINTR_RETRIES \in Nat /\ MAX_EAGAIN_RETRIES \in Nat
    /\ Newline \notin Image /\ Nobody \notin Image
BY ImageAssumption, LineAssumption DEF IsFiniteSet, RP!IsFiniteSet

LEMMA SameInit == R!Init => RP!Init
BY DEF R!Init, RP!Init

LEMMA SameTypeOK == R!TypeOK <=> RP!TypeOK
BY DEF R!TypeOK, RP!TypeOK, R!Step, RP!Step

LEMMA SameIntact == \A src \in Image : R!Intact(src) <=> RP!Intact(src)
BY DEF R!Intact, RP!Intact, R!LineStarts, RP!LineStarts, R!LineEnds, RP!LineEnds

\* What the conversion, and the end of the process, leave of the stream.
StreamUntouched ==
    UNCHANGED <<report_fd, lock, at, done_bytes, eintr_retries, eagain_retries,
                given_up, stream>>

LEMMA BeginEmits ==
    ASSUME NEW src \in Image, Begin(src)
    PROVE  /\ RP!Lock(src) /\ RP!Emit(src)
           /\ at[src] = "ready" /\ at' = [at EXCEPT ![src] = "payload"]
<1> USE DEF R!Lock, RP!Lock, R!Enter, RP!Enter
<1> QED
  BY DEF Begin, RP!Emit

LEMMA ContinueEmits ==
    ASSUME NEW src \in Image, Continue(src)
    PROVE  /\ RP!Emit(src)
           /\ at[src] \in {"payload", "newline"}
           /\ phase # "aborted"
<1> USE DEF R!Writing, RP!Writing, R!Target, RP!Target, R!Byte, RP!Byte,
            R!Enter, RP!Enter, R!Leave, RP!Leave, R!GiveUp, RP!GiveUp
<1>1. CASE R!Accept(src)
  BY <1>1 DEF R!Accept, RP!Accept, RP!Emit
<1>2. CASE R!Interrupted(src)
  BY <1>2 DEF R!Interrupted, RP!Interrupted, RP!Emit
<1>3. CASE R!WouldBlock(src)
  BY <1>3 DEF R!WouldBlock, RP!WouldBlock, RP!Emit
<1>4. CASE R!WriteError(src)
  BY <1>4 DEF R!WriteError, RP!WriteError, RP!Emit
<1> QED
  BY <1>1, <1>2, <1>3, <1>4 DEF Continue

LEMMA PanicEmits ==
    ASSUME NEW src \in Image, Panic(src)
    PROVE  RP!Emit(src) /\ StreamUntouched
BY DEF Panic, R!StderrError, RP!StderrError, R!Writing, RP!Writing,
       R!retries, RP!retries, RP!Emit, StreamUntouched

\* A step of the program, as the stream sees it.
LEMMA StreamStep ==
    ASSUME [ReportNext]_allVars
    PROVE  (\E src \in Image : RP!Emit(src)) \/ StreamUntouched
<1>1. ASSUME NEW src \in Image, Closure(src)
      PROVE  (\E s \in Image : RP!Emit(s)) \/ StreamUntouched
  BY <1>1, BeginEmits, ContinueEmits, PanicEmits
     DEF Closure, Convert, reportVars, streamVars, StreamUntouched
<1>2. CASE Main \/ Crash
  BY <1>2 DEF Main, Crash, reportVars, streamVars, StreamUntouched
<1>3. CASE UNCHANGED allVars
  BY <1>3 DEF allVars, reportVars, streamVars, StreamUntouched
<1> QED
  BY <1>1, <1>2, <1>3 DEF ReportNext

(***************************************************************************)
(* The invariants of the stream hold in the program                        *)
(***************************************************************************)

StreamInv == RP!TypeOK /\ RP!LockInv /\ RP!BlockInv /\ RP!DamageInv

LEMMA StreamInvInit == ReportInit => StreamInv
<1> SUFFICES ASSUME ReportInit PROVE StreamInv
  OBVIOUS
<1>1. RP!Init
  BY SameInit DEF ReportInit
<1>2. RP!TypeOK
  BY <1>1, RP!TypeInit, StreamConstants
<1>3. RP!LockInv
  BY <1>1, RP!LockInvInit, StreamConstants
<1>4. RP!BlockInv
  BY <1>1, RP!BlockInvInit, StreamConstants
<1>5. RP!DamageInv
  BY <1>1, RP!DamageInvInit, StreamConstants
<1> QED
  BY <1>2, <1>3, <1>4, <1>5 DEF StreamInv

LEMMA StreamInvUntouched ==
    ASSUME StreamInv, StreamUntouched
    PROVE  StreamInv'
<1> USE DEF StreamUntouched, RP!Base, RP!Held
<1>1. RP!TypeOK'
  BY DEF StreamInv, RP!TypeOK
<1>2. RP!LockInv'
  BY DEF StreamInv, RP!LockInv
<1>3. RP!BlockInv'
  BY DEF StreamInv, RP!BlockInv, RP!NoInterleaving
<1>4. RP!DamageInv'
  BY DEF StreamInv, RP!DamageInv, RP!Spoiled, RP!Dirty, RP!Intact, RP!LineStarts,
         RP!LineEnds
<1> QED
  BY <1>1, <1>2, <1>3, <1>4 DEF StreamInv

LEMMA StreamInvNext == StreamInv /\ [ReportNext]_allVars => StreamInv'
<1> SUFFICES ASSUME StreamInv, [ReportNext]_allVars PROVE StreamInv'
  OBVIOUS
<1>1. ASSUME NEW src \in Image, RP!Emit(src) PROVE StreamInv'
  <2>1. RP!TypeOK /\ RP!LockInv /\ RP!BlockInv /\ RP!DamageInv
    BY DEF StreamInv
  <2>2. RP!TypeOK'
    <3>1. RP!Next
      BY <1>1 DEF RP!Next
    <3> QED
      BY <2>1, <3>1, RP!TypeNext, StreamConstants
  <2>3. RP!LockInv'
    BY <1>1, <2>1, RP!LockInvEmit, StreamConstants
  <2>4. RP!BlockInv'
    BY <1>1, <2>1, RP!BlockInvEmit, StreamConstants
  <2>5. RP!DamageInv'
    BY <1>1, <2>1, <2>2, RP!DamageInvEmit, StreamConstants
  <2> QED
    BY <2>2, <2>3, <2>4, <2>5 DEF StreamInv
<1> QED
  BY <1>1, StreamStep, StreamInvUntouched

(***************************************************************************)
(* Closures                                                                *)
(*                                                                         *)
(* What a record says is decided before the stream is locked for it, and   *)
(* nobody touches the files of the picture after that.                     *)
(***************************************************************************)

ToldTypeOK ==
    /\ json \in BOOLEAN
    /\ told \in [Image -> {"nothing", "ok", "undeleted", "err"}]

\* The line about src, once it is begun, tells the truth.
Truth(src) ==
    /\ told[src] # "nothing"
    /\ src \in sources <=> (told[src] = "ok" => keep_source)
    /\ told[src] # "err" /\ OwnOutput(src) => disk[dst(src)] = Encoded(src)

\* A closure begins its line when its candidate is decided, and main waits
\* for it.
ClosureInv(src) ==
    /\ phase = "list" => at[src] = "ready"
    /\ phase \in {"running", "exited"} /\ at[src] # "ready" =>
          pc[src] = "done" /\ Emits(src) /\ told[src] = Verdict(src)
    /\ phase = "exited" /\ pc[src] # "none" => Returned(src)
    /\ at[src] # "ready" => Truth(src)

ClosuresInv == \A src \in Image : ClosureInv(src)

\* The verdict on a candidate whose result is known.
LEMMA VerdictCases ==
    ASSUME TypeOK, NEW src \in Image, result[src] # "none"
    PROVE  /\ Verdict(src) \in {"ok", "undeleted", "err"}
           /\ Verdict(src) = "ok" <=> result[src] = "ok"
           /\ Verdict(src) = "undeleted" <=> result[src] = "delete"
BY DEF Verdict, TypeOK, Result, Kind

\* A worker step moves its own candidate, which is not decided before it.
LEMMA WorkerMoves ==
    ASSUME TypeOK, NEW src \in Image, Worker(src)
    PROVE  /\ phase = "running" /\ pc[src] \notin {"none", "done"}
           /\ pc'[src] \notin {"none", "queued"}
           /\ \A other \in Image \ {src} :
                 /\ pc'[other] = pc[other] /\ result'[other] = result[other]
                 /\ other \in sources' <=> other \in sources
                 /\ OwnOutput(other) => disk'[dst(other)] = disk[dst(other)]
<1>1. phase = "running" /\ pc[src] \notin {"none", "done"}
  BY DEF Worker, Start, Decode, Encode, Create, Write, Restat, Remove, Tally,
         Fail, Goto
<1>2. pc'[src] \notin {"none", "queued"}
  BY DEF Worker, Start, Decode, Encode, Create, Write, Restat, Remove, Tally,
         Fail, Goto, TypeOK
<1>3. ASSUME NEW other \in Image \ {src}
      PROVE  /\ pc'[other] = pc[other] /\ result'[other] = result[other]
             /\ other \in sources' <=> other \in sources
  BY DEF Worker, Start, Decode, Encode, Create, Write, Restat, Remove, Tally,
         Fail, Goto, dirVars, TypeOK
<1>4. ASSUME NEW other \in Image \ {src}, OwnOutput(other)
      PROVE  disk'[dst(other)] = disk[dst(other)]
  <2>1. Stem[other] # Stem[src] /\ Stem[other] \in Stems
    BY <1>4, DstType DEF OwnOutput
  <2> QED
    BY <2>1 DEF Worker, Start, Decode, Encode, Create, Write, Restat, Remove,
                Tally, Fail, dirVars, TypeOK
<1> QED
  BY <1>1, <1>2, <1>3, <1>4

LEMMA ToldNext ==
    ASSUME TypeOK, OInv, ToldTypeOK, [ReportNext]_allVars
    PROVE  ToldTypeOK'
<1>1. ASSUME NEW src \in Image, Begin(src) PROVE ToldTypeOK'
  <2>1. result[src] # "none"
    BY <1>1 DEF Begin, OInv, OutcomeInv
  <2> QED
    BY <1>1, <2>1, VerdictCases DEF Begin, ToldTypeOK
<1>2. ASSUME UNCHANGED <<json, told>> PROVE ToldTypeOK'
  BY <1>2 DEF ToldTypeOK
<1> QED
  BY <1>1, <1>2
     DEF ReportNext, allVars, reportVars, Closure, Convert, Continue, Panic, Main, Crash

LEMMA ClosuresInit == ReportInit => ToldTypeOK /\ ClosuresInv
BY DEF ReportInit, Init, R!Init, ToldTypeOK, ClosuresInv, ClosureInv

\* What a closure has begun to tell stays true while its candidate and the
\* command stay as they are.
LEMMA ClosureStays ==
    ASSUME NEW src \in Image, ClosureInv(src), phase' = phase,
           UNCHANGED <<json, keep_source>>,
           at'[src] = at[src], told'[src] = told[src],
           pc'[src] = pc[src], result'[src] = result[src],
           src \in sources' <=> src \in sources,
           OwnOutput(src) => disk'[dst(src)] = disk[dst(src)]
    PROVE  ClosureInv(src)'
<1>1. Truth(src) => Truth(src)'
  BY DEF Truth, OwnOutput, Encoded, Prefix
<1>2. Verdict(src)' = Verdict(src) /\ Emits(src)' = Emits(src)
  BY DEF Verdict, Emits
<1>3. Returned(src)' = Returned(src)
  BY <1>2 DEF Returned
<1> QED
  BY <1>1, <1>2, <1>3 DEF ClosureInv

\* The end of the process leaves the directory as it is.
LEMMA ClosureAborts ==
    ASSUME NEW src \in Image, ClosureInv(src), Abort,
           at'[src] = at[src], told'[src] = told[src]
    PROVE  ClosureInv(src)'
<1>1. phase' = "aborted" /\ UNCHANGED <<sources, disk, keep_source>>
  BY DEF Abort, dirVars, command
<1>2. Truth(src) => Truth(src)'
  BY <1>1 DEF Truth, OwnOutput, Encoded, Prefix
<1> QED
  BY <1>1, <1>2 DEF ClosureInv

LEMMA ClosureConvert ==
    ASSUME TypeOK, ClosuresInv, NEW src \in Image, NEW other \in Image, Convert(other)
    PROVE  ClosureInv(src)'
<1>0. ClosureInv(src)
  BY DEF ClosuresInv
<1>1. Worker(other) /\ UNCHANGED <<at, told, json, phase, keep_source>>
  BY WorkerKeepsCommand DEF Convert, reportVars, streamVars
<1>2. CASE src = other
  <2>1. phase = "running" /\ pc[src] # "done"
    BY <1>1, <1>2, WorkerMoves
  <2>2. at[src] = "ready"
    BY <1>0, <2>1 DEF ClosureInv
  <2> QED
    BY <1>1, <2>1, <2>2 DEF ClosureInv
<1>3. CASE src # other
  BY <1>0, <1>1, <1>3, WorkerMoves, ClosureStays
<1> QED
  BY <1>2, <1>3

LEMMA ClosureBegin ==
    ASSUME TypeOK, OInv, OkInv, StreamInv, ToldTypeOK, ClosuresInv,
           NEW src \in Image, NEW other \in Image, Begin(other)
    PROVE  ClosureInv(src)'
<1>0. ClosureInv(src)
  BY DEF ClosuresInv
<1>1. /\ pc[other] = "done" /\ Emits(other)
      /\ told' = [told EXCEPT ![other] = Verdict(other)]
      /\ UNCHANGED vars /\ json' = json
      /\ at[other] = "ready" /\ at' = [at EXCEPT ![other] = "payload"]
  BY BeginEmits DEF Begin
<1>2. UNCHANGED <<sources, disk, phase, pc, result, keep_source>>
  BY <1>1 DEF vars
<1>3. at \in [Image -> RP!Step]
  BY DEF StreamInv, RP!TypeOK
<1>4. CASE src # other
  <2>1. at'[src] = at[src] /\ told'[src] = told[src]
    BY <1>1, <1>3, <1>4 DEF ToldTypeOK
  <2> QED
    BY <1>0, <1>1, <1>2, <2>1, ClosureStays
<1>5. CASE src = other
  <2>1. at'[src] = "payload" /\ told'[src] = Verdict(src)
    BY <1>1, <1>3, <1>5 DEF ToldTypeOK
  <2>2. OutcomeInv(src) /\ result[src] # "none" /\ result[src] \in Result
    BY <1>1, <1>5 DEF OInv, OutcomeInv, TypeOK
  <2>3. Truth(src)'
    <3>1. told'[src] # "nothing"
      BY <2>1, <2>2, VerdictCases
    <3>2. src \in sources <=> (told'[src] = "ok" => keep_source)
      BY <2>1, <2>2, VerdictCases DEF OutcomeInv, Bad
    <3>3. told'[src] # "err" /\ OwnOutput(src) => disk[dst(src)] = Encoded(src)
      BY <2>1, <2>2, VerdictCases DEF OkInv
    <3> QED
      BY <1>2, <3>1, <3>2, <3>3 DEF Truth, OwnOutput, Encoded, Prefix
  <2>4. Verdict(src)' = Verdict(src) /\ Emits(src)' = Emits(src)
    BY <1>1, <1>2 DEF Verdict, Emits
  <2>5. phase \notin {"list", "exited"}
    BY <1>0, <1>1, <1>5 DEF ClosureInv, Returned, OInv, OutcomeInv
  <2> QED
    BY <1>1, <1>2, <1>5, <2>1, <2>3, <2>4, <2>5 DEF ClosureInv
<1> QED
  BY <1>4, <1>5

\* A call of write(2) moves the closure that makes it, if any, and onwards.
LEMMA ContinueMoves ==
    ASSUME StreamInv, NEW src \in Image, Continue(src)
    PROVE  /\ at[src] \in {"payload", "newline"}
           /\ at' = at \/ \E s \in {"newline", "done"} : at' = [at EXCEPT ![src] = s]
<1>1. RP!TypeOK /\ RP!LockInv
  BY DEF StreamInv
<1>2. at[src] \in {"payload", "newline"} /\ RP!Emit(src)
  BY ContinueEmits
<1>3. CASE R!Accept(src)
  <2> USE DEF R!Target, R!Leave, R!Enter
  <2> QED
    BY <1>2, <1>3 DEF R!Accept
<1>4. CASE R!Interrupted(src) \/ R!WouldBlock(src) \/ R!WriteError(src)
  BY <1>2, <1>4 DEF R!Interrupted, R!WouldBlock, R!WriteError, R!GiveUp, R!Leave, R!Enter
<1> QED
  BY <1>2, <1>3, <1>4 DEF Continue

LEMMA ClosureContinue ==
    ASSUME TypeOK, StreamInv, ClosuresInv,
           NEW src \in Image, NEW other \in Image, Continue(other)
    PROVE  ClosureInv(src)'
<1>0. ClosureInv(src)
  BY DEF ClosuresInv
<1>1. UNCHANGED <<vars, json, told>>
  BY DEF Continue
<1>2. UNCHANGED <<sources, disk, phase, pc, result, keep_source>>
  BY <1>1 DEF vars
<1>3. at \in [Image -> RP!Step]
  BY DEF StreamInv, RP!TypeOK
<1>4. CASE at'[src] = at[src]
  BY <1>0, <1>1, <1>2, <1>4, ClosureStays
<1>5. CASE at'[src] # at[src]
  <2>1. src = other /\ at[src] # "ready" /\ at'[src] # "ready"
    BY <1>3, <1>5, ContinueMoves
  <2>2. Truth(src)'
    BY <1>0, <1>1, <1>2, <2>1 DEF ClosureInv, Truth, OwnOutput, Encoded, Prefix
  <2>3. Verdict(src)' = Verdict(src) /\ Emits(src)' = Emits(src)
    BY <1>1, <1>2 DEF Verdict, Emits
  <2>4. phase # "exited"
    <3>1. at[src] \notin {"ready", "done"}
      BY <2>1, ContinueMoves
    <3> QED
      BY <1>0, <3>1 DEF ClosureInv, Returned
  <2>5. phase # "list"
    BY <1>0, <2>1 DEF ClosureInv
  <2> QED
    BY <1>0, <1>1, <1>2, <2>1, <2>2, <2>3, <2>4, <2>5 DEF ClosureInv
<1> QED
  BY <1>4, <1>5

LEMMA ClosureMain ==
    ASSUME TypeOK, OInv, ClosuresInv, NEW src \in Image, Main
    PROVE  ClosureInv(src)'
<1>0. ClosureInv(src) /\ OutcomeInv(src)
  BY DEF ClosuresInv, OInv
<1>1. UNCHANGED <<sources, disk, keep_source, result, at, told, json>>
  BY DEF Main, List, ListFails, Summarise, dirVars, command, reportVars, streamVars
<1>2. Truth(src) => Truth(src)'
  BY <1>1 DEF Truth, OwnOutput, Encoded, Prefix
<1>3. Verdict(src)' = Verdict(src) /\ Emits(src)' = Emits(src)
  BY <1>1 DEF Verdict, Emits
<1>4. CASE List \/ ListFails
  <2>1. phase = "list" /\ pc[src] = "none" /\ at[src] = "ready"
    BY <1>0, <1>4 DEF List, ListFails, ClosureInv, OutcomeInv
  <2>2. phase' \in {"running", "exited"} /\ (phase' = "exited" => pc' = pc)
    BY <1>4 DEF List, ListFails
  <2> QED
    BY <1>1, <2>1, <2>2 DEF ClosureInv
<1>5. CASE Summarise /\ \A s \in candidates : Returned(s)
  <2>1. phase = "running" /\ phase' = "exited" /\ pc' = pc
    BY <1>5 DEF Summarise
  <2>2. pc[src] # "none" => Returned(src)
    BY <1>5 DEF candidates
  <2>3. Returned(src)' = Returned(src)
    BY <1>1, <1>3, <2>1 DEF Returned
  <2> QED
    BY <1>0, <1>1, <1>2, <1>3, <2>1, <2>2, <2>3 DEF ClosureInv
<1> QED
  BY <1>4, <1>5 DEF Main

LEMMA ClosuresNext ==
    /\ TypeOK /\ OInv /\ OkInv /\ StreamInv /\ ToldTypeOK /\ ClosuresInv
    /\ [ReportNext]_allVars
    => ClosuresInv'
<1> SUFFICES ASSUME TypeOK, OInv, OkInv, StreamInv, ToldTypeOK, ClosuresInv,
                    [ReportNext]_allVars, NEW src \in Image
             PROVE  ClosureInv(src)'
  BY DEF ClosuresInv
<1>0. ClosureInv(src)
  BY DEF ClosuresInv
<1>1. ASSUME NEW other \in Image, Convert(other) \/ Begin(other) \/ Continue(other)
      PROVE  ClosureInv(src)'
  BY <1>1, ClosureConvert, ClosureBegin, ClosureContinue
<1>2. ASSUME NEW other \in Image, Panic(other) PROVE ClosureInv(src)'
  <2>1. Abort /\ at' = at /\ told' = told
    BY <1>2, PanicEmits DEF Panic, StreamUntouched
  <2> QED
    BY <1>0, <2>1, ClosureAborts
<1>3. CASE Main
  BY <1>3, ClosureMain
<1>4. CASE Crash
  BY <1>0, <1>4, ClosureAborts DEF Crash, reportVars, streamVars
<1>5. CASE UNCHANGED allVars
  BY <1>0, <1>5, ClosureStays DEF allVars, vars, reportVars, streamVars
<1> QED
  BY <1>1, <1>2, <1>3, <1>4, <1>5 DEF ReportNext, Closure

\* A whole line on the stream is one that its closure has begun.
LEMMA IntactHasBegun ==
    ASSUME StreamInv, NEW src \in Image, R!Intact(src)
    PROVE  at[src] # "ready"
<1>1. RP!TypeOK /\ RP!BlockInv
  BY DEF StreamInv
<1>2. RP!HasWhole(stream, src)
  BY <1>1, SameIntact, RP!IntactIsWhole, StreamConstants
<1>3. \E p \in 1 .. Len(stream) : stream[p] = src
  <2>1. Bytes[src] \in Nat \ {0} /\ Len(stream) \in Nat
    BY <1>1, StreamConstants DEF RP!TypeOK
  <2>2. PICK p \in 1 .. Len(stream) :
           \A b \in p .. p + Bytes[src] - 1 : stream[b] = src
    BY <1>2 DEF RP!HasWhole
  <2>3. p \in p .. p + Bytes[src] - 1
    BY <2>1
  <2> QED
    BY <2>2, <2>3
<1> QED
  BY <1>1, <1>3 DEF RP!BlockInv

\* At any moment of a run, a whole line on the stream tells the truth about
\* the files of its picture.
THEOREM RecordsAreTrue == ReportSpec => []RecordsTellTheTruth
<1>1. StreamInv /\ ClosuresInv => RecordsTellTheTruth
  BY IntactHasBegun DEF ClosuresInv, ClosureInv, RecordsTellTheTruth, Truth, OwnOutput
<1>2. ReportInit => Init
  BY DEF ReportInit
<1> QED
  BY <1>1, <1>2, ReportsOnlyTell, TypeCorrect, WInvInit, WInvNext, OInvInit,
     OInvNext, OkInvInit, OkInvNext, StepConverts, StreamInvInit, StreamInvNext,
     ClosuresInit, ToldNext, ClosuresNext, PTL
     DEF ReportSpec, allVars

(***************************************************************************)
(* The pool                                                                *)
(***************************************************************************)

ThreadsInv == Cardinality(Open) <= Threads

LEMMA FiniteImages ==
    ASSUME NEW S \in SUBSET Image
    PROVE  IsFiniteSet(S) /\ Cardinality(S) \in Nat
BY ImageAssumption, FS_Subset, FS_CardinalityType

LEMMA FewerClosures ==
    ASSUME ThreadsInv, Open' \subseteq Open
    PROVE  ThreadsInv'
<1>1. Open \in SUBSET Image /\ Open' \in SUBSET Image
  BY DEF Open
<1>2. Cardinality(Open') <= Cardinality(Open)
  BY <1>1, FiniteImages, FS_Subset
<1> QED
  BY <1>1, <1>2, FiniteImages, ThreadsAssumption DEF ThreadsInv

\* A closure starts only when one of the threads is free.
LEMMA ThreadsConvert ==
    ASSUME TypeOK, ThreadsInv, NEW src \in Image, Convert(src)
    PROVE  ThreadsInv'
<1>1. /\ Worker(src) /\ UNCHANGED <<at, json>>
      /\ pc[src] = "queued" => Cardinality(Open) < Threads
  BY DEF Convert, reportVars, streamVars
<1>2. \A other \in Image \ {src} : other \in Open' <=> other \in Open
  BY <1>1, WorkerMoves DEF Open, Returned, Emits
<1>3. Open \in SUBSET Image /\ Open' \in SUBSET Image
  BY DEF Open
<1>4. CASE pc[src] = "queued"
  <2>1. src \notin Open
    BY <1>4 DEF Open
  <2>2. Open' \subseteq Open \cup {src}
    BY <1>2, <1>3
  <2>3. /\ IsFiniteSet(Open \cup {src})
        /\ Cardinality(Open \cup {src}) = Cardinality(Open) + 1
    BY <1>3, <2>1, FiniteImages, FS_AddElement
  <2>4. Cardinality(Open') <= Cardinality(Open) + 1
    BY <2>2, <2>3, FS_Subset
  <2> QED
    BY <1>1, <1>3, <1>4, <2>4, FiniteImages, ThreadsAssumption DEF ThreadsInv
<1>5. CASE pc[src] # "queued"
  <2>1. src \in Open
    BY <1>1, <1>5, WorkerMoves DEF Open, Returned
  <2> QED
    BY <1>2, <1>3, <2>1, FewerClosures
<1> QED
  BY <1>4, <1>5

LEMMA ThreadsNext ==
    /\ TypeOK /\ OInv /\ StreamInv /\ ClosuresInv /\ ThreadsInv
    /\ [ReportNext]_allVars
    => ThreadsInv'
<1> SUFFICES ASSUME TypeOK, OInv, StreamInv, ClosuresInv, ThreadsInv,
                    [ReportNext]_allVars
             PROVE  ThreadsInv'
  OBVIOUS
<1>0. at \in [Image -> RP!Step]
  BY DEF StreamInv, RP!TypeOK
<1>1. ASSUME NEW src \in Image, Begin(src) PROVE Open' \subseteq Open
  <2>1. /\ UNCHANGED <<pc, result, json>>
        /\ pc[src] = "done" /\ Emits(src) /\ at[src] = "ready"
        /\ at' = [at EXCEPT ![src] = "payload"]
    BY <1>1, BeginEmits DEF Begin, vars
  <2>2. src \in Open
    BY <2>1 DEF Open, Returned
  <2>3. \A other \in Image \ {src} : at'[other] = at[other]
    BY <1>0, <2>1
  <2> QED
    BY <2>1, <2>2, <2>3 DEF Open, Returned, Emits
<1>2. ASSUME NEW src \in Image, Continue(src) PROVE Open' \subseteq Open
  <2>1. /\ UNCHANGED <<phase, pc, result, json>> /\ phase # "aborted"
        /\ at[src] \in {"payload", "newline"}
        /\ \A other \in Image \ {src} : at'[other] = at[other]
    BY <1>0, <1>2, ContinueEmits, ContinueMoves DEF Continue, vars
  <2>2. phase \in {"running", "exited"}
    BY <2>1 DEF ClosuresInv, ClosureInv, TypeOK, Phase
  <2>3. src \in Open
    BY <2>1, <2>2 DEF ClosuresInv, ClosureInv, Open, Returned
  <2> QED
    BY <2>1, <2>3 DEF Open, Returned, Emits
<1>3. ASSUME Abort PROVE Open' \subseteq Open
  BY <1>3 DEF Abort, NewProcess, Open
<1>4. CASE Main
  <2>1. CASE List
    <3>1. \A src \in Image : pc[src] = "none"
      BY <2>1 DEF List, OInv, OutcomeInv
    <3>2. \A src \in Image : pc'[src] \in {"none", "queued"}
      BY <2>1, <3>1 DEF List
    <3> QED
      BY <3>2, FewerClosures DEF Open
  <2>2. CASE ListFails \/ Summarise
    <3>1. UNCHANGED <<pc, result, json, at>>
      BY <1>4, <2>2 DEF Main, ListFails, Summarise, reportVars, streamVars
    <3> QED
      BY <3>1, FewerClosures DEF Open, Returned, Emits
  <2> QED
    BY <1>4, <2>1, <2>2 DEF Main
<1>5. CASE UNCHANGED allVars
  BY <1>5, FewerClosures DEF allVars, vars, reportVars, streamVars, Open, Returned, Emits
<1> QED
  BY <1>1, <1>2, <1>3, <1>4, <1>5, FewerClosures, ThreadsConvert
     DEF ReportNext, Closure, Panic, Crash

LEMMA ThreadsInit == ReportInit => ThreadsInv
<1> SUFFICES ASSUME ReportInit PROVE ThreadsInv
  OBVIOUS
<1>1. Open = {}
  BY DEF ReportInit, Init, Open
<1> QED
  BY <1>1, FS_EmptySet, ThreadsAssumption DEF ThreadsInv

\* The types of the whole program; the holder of the stream has decided its
\* candidate; and no more closures are open than the pool has threads.
THEOREM ReportTypeCorrect == ReportSpec => []ReportTypeOK
<1>1. TypeOK /\ StreamInv /\ ToldTypeOK /\ ClosuresInv /\ ThreadsInv => ReportTypeOK
  <2> SUFFICES ASSUME TypeOK, StreamInv, ToldTypeOK, ClosuresInv, ThreadsInv
               PROVE  ReportTypeOK
    OBVIOUS
  <2>1. R!TypeOK
    BY SameTypeOK DEF StreamInv
  <2>2. lock # Nobody /\ phase = "running" => pc[lock] = "done"
    <3> SUFFICES ASSUME lock # Nobody, phase = "running" PROVE pc[lock] = "done"
      OBVIOUS
    <3>1. lock \in Image
      BY DEF StreamInv, RP!TypeOK
    <3>2. at[lock] # "ready"
      BY <3>1 DEF StreamInv, RP!LockInv
    <3> QED
      BY <3>1, <3>2 DEF ClosuresInv, ClosureInv
  <2> QED
    BY <2>1, <2>2 DEF ReportTypeOK, ToldTypeOK, ThreadsInv
<1>2. ReportInit => Init
  BY DEF ReportInit
<1> QED
  BY <1>1, <1>2, ReportsOnlyTell, TypeCorrect, WInvInit, WInvNext, OInvInit,
     OInvNext, OkInvInit, OkInvNext, StepConverts, StreamInvInit, StreamInvNext,
     ClosuresInit, ToldNext, ClosuresNext, ThreadsInit, ThreadsNext, PTL
     DEF ReportSpec, allVars

(***************************************************************************)
(* The stream and the summary                                              *)
(***************************************************************************)

\* The candidates that have a line, when the process has exited.
TalkedAbout == {src \in Image : pc[src] = "done" /\ Emits(src)}

\* A line that is whole is the line of a candidate with that verdict.
LEMMA WholeLines ==
    ASSUME TypeOK, OInv, StreamInv, ClosuresInv, phase = "exited"
    PROVE  /\ Whole({"ok"}) \subseteq {src \in Converted : json}
           /\ Whole({"undeleted", "err"}) \subseteq Refused
           /\ TalkedAbout \subseteq Whole({"ok"}) \cup Whole({"undeleted", "err"})
                                      \cup RP!Spoiled
           /\ TalkedAbout = {src \in Converted : json} \cup Refused
<1>1. ASSUME NEW src \in Image, at[src] # "ready"
      PROVE  /\ pc[src] = "done" /\ Emits(src) /\ told[src] = Verdict(src)
             /\ result[src] # "none"
  BY <1>1 DEF ClosuresInv, ClosureInv, OInv, OutcomeInv
<1>2. ASSUME NEW src \in Image, R!Intact(src) PROVE at[src] # "ready"
  BY <1>2, IntactHasBegun
<1>3. Whole({"ok"}) \subseteq {src \in Converted : json}
  BY <1>1, <1>2, VerdictCases DEF Whole, Converted, Emits
<1>4. Whole({"undeleted", "err"}) \subseteq Refused
  BY <1>1, <1>2, VerdictCases DEF Whole, Refused, Bad, TypeOK
<1>5. ASSUME NEW src \in TalkedAbout
      PROVE  src \in Whole({"ok"}) \cup Whole({"undeleted", "err"}) \cup RP!Spoiled
  <2>1. src \in Image /\ at[src] = "done"
    BY <1>5 DEF TalkedAbout, ClosuresInv, ClosureInv, Returned
  <2>2. told[src] \in {"ok", "undeleted", "err"}
    BY <1>1, <2>1, VerdictCases
  <2> QED
    BY <2>1, <2>2, SameIntact DEF Whole, RP!Spoiled
<1>6. TalkedAbout = {src \in Converted : json} \cup Refused
  BY DEF TalkedAbout, Converted, Refused, Emits, OInv, OutcomeInv, Bad, TypeOK
<1> QED
  BY <1>3, <1>4, <1>5, <1>6

\* Sets that cover another one have as many elements together.
LEMMA UnionCounts ==
    ASSUME NEW A \in SUBSET Image, NEW B \in SUBSET Image
    PROVE  Cardinality(A \cup B) <= Cardinality(A) + Cardinality(B)
<1>1. Cardinality(A \cup B) = Cardinality(A) + Cardinality(B) - Cardinality(A \cap B)
  BY FiniteImages, FS_Union
<1>2. A \cap B \in SUBSET Image
  OBVIOUS
<1>3. Cardinality(A) \in Nat /\ Cardinality(B) \in Nat /\ Cardinality(A \cap B) \in Nat
  BY <1>2, FiniteImages
<1> QED
  BY <1>1, <1>3

LEMMA CoverCounts ==
    ASSUME NEW A \in SUBSET Image, NEW B \in SUBSET Image, NEW C \in SUBSET Image,
           NEW S \in SUBSET Image, S \subseteq A \cup B \cup C
    PROVE  Cardinality(S) <= Cardinality(A) + Cardinality(B) + Cardinality(C)
<1> DEFINE AB == A \cup B
<1>1. Cardinality(AB) <= Cardinality(A) + Cardinality(B)
  BY UnionCounts
<1>2. AB \in SUBSET Image /\ AB \cup C \in SUBSET Image /\ S \subseteq AB \cup C
  OBVIOUS
<1> HIDE DEF AB
<1>3. Cardinality(AB \cup C) <= Cardinality(AB) + Cardinality(C)
  BY <1>2, UnionCounts
<1>4. Cardinality(S) <= Cardinality(AB \cup C)
  BY <1>2, FiniteImages, FS_Subset
<1>5. /\ Cardinality(AB) \in Nat /\ Cardinality(AB \cup C) \in Nat
      /\ Cardinality(A) \in Nat /\ Cardinality(B) \in Nat /\ Cardinality(C) \in Nat
      /\ Cardinality(S) \in Nat
  BY <1>2, FiniteImages
<1> QED
  BY <1>1, <1>3, <1>4, <1>5

LEMMA SummaryMatches ==
    ASSUME TypeOK, OInv, CountInv, StreamInv, ClosuresInv, phase = "exited"
    PROVE  StreamMatchesSummary
<1> DEFINE Good  == Whole({"ok"})
           Ill   == Whole({"undeleted", "err"})
           Told  == {src \in Converted : json}
           okays == IF json THEN count ELSE 0
<1>1. /\ Good \in SUBSET Image /\ Ill \in SUBSET Image /\ Told \in SUBSET Image
      /\ Converted \in SUBSET Image /\ Refused \in SUBSET Image
      /\ RP!Spoiled \in SUBSET Image /\ given_up \in SUBSET Image
      /\ TalkedAbout \in SUBSET Image
  BY DEF Whole, Converted, Refused, RP!Spoiled, StreamInv, RP!TypeOK, TalkedAbout
<1>2. Cardinality(Told) = okays
  <2>1. CASE json
    BY <2>1 DEF CountInv
  <2>2. CASE ~json
    BY <2>2, FS_EmptySet
  <2> QED
    BY <2>1, <2>2
<1>3. Cardinality(Good) <= okays
  BY <1>1, <1>2, WholeLines, FiniteImages, FS_Subset
<1>4. Cardinality(Ill) <= failed
  BY <1>1, WholeLines, FiniteImages, FS_Subset DEF CountInv
<1>5. Cardinality(TalkedAbout) = okays + failed
  <2>1. Told \cap Refused = {}
    BY DEF Converted, Refused, Bad
  <2>2. Cardinality(Told \cup Refused)
          = Cardinality(Told) + Cardinality(Refused) - Cardinality(Told \cap Refused)
    BY <1>1, FiniteImages, FS_Union
  <2>3. Cardinality(Told \cap Refused) = 0
    BY <2>1, FS_EmptySet
  <2>4. TalkedAbout = Told \cup Refused
    BY WholeLines
  <2> QED
    BY <1>1, <1>2, <2>2, <2>3, <2>4, FiniteImages DEF CountInv
<1>6. Cardinality(TalkedAbout)
        <= Cardinality(Good) + Cardinality(Ill) + Cardinality(RP!Spoiled)
  <2>1. TalkedAbout \subseteq Good \cup Ill \cup RP!Spoiled
    BY WholeLines
  <2> HIDE DEF Good, Ill
  <2> QED
    BY <1>1, <2>1, CoverCounts
<1>7. Cardinality(RP!Spoiled) <= 2 * Cardinality(given_up)
  <2>1. /\ Cardinality(RP!Spoiled) = RP!Cardinality(RP!Spoiled)
        /\ Cardinality(given_up) = RP!Cardinality(given_up)
    BY <1>1 DEF Cardinality, RP!Cardinality
  <2>2. RP!DamageInv
    BY DEF StreamInv
  <2> QED
    BY <1>1, <2>1, <2>2, FiniteImages DEF RP!DamageInv
<1> HIDE DEF Good, Ill, Told
<1>8. /\ Cardinality(Good) \in Nat /\ Cardinality(Ill) \in Nat
      /\ Cardinality(RP!Spoiled) \in Nat /\ Cardinality(given_up) \in Nat
      /\ okays \in Nat /\ failed \in Nat
  BY <1>1, FiniteImages DEF TypeOK
<1> HIDE DEF okays
<1>9. okays + failed - (Cardinality(Good) + Cardinality(Ill)) <= 2 * Cardinality(given_up)
  BY <1>5, <1>6, <1>7, <1>8
<1> QED
  BY <1>3, <1>4, <1>9 DEF StreamMatchesSummary, Good, Ill, okays

\* When the process exits, its records and its summary agree, up to the damage
\* that the records it gave up can have done.
THEOREM StreamAgreesWithSummary == ReportSpec => []StreamMatchesSummary
<1>1. TypeOK /\ OInv /\ CountInv /\ StreamInv /\ ClosuresInv => StreamMatchesSummary
  BY SummaryMatches DEF StreamMatchesSummary
<1>2. ReportInit => Init
  BY DEF ReportInit
<1> QED
  BY <1>1, <1>2, ReportsOnlyTell, TypeCorrect, WInvInit, WInvNext, OInvInit,
     OInvNext, OkInvInit, OkInvNext, CountInvInit, CountInvNext, StepConverts,
     StreamInvInit, StreamInvNext, ClosuresInit, ToldNext, ClosuresNext, PTL
     DEF ReportSpec, allVars
=============================================================================
