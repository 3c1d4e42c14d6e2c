---------------------------- MODULE BatchConvert ----------------------------
(***************************************************************************)
(* Batch mode of fast-image-converter: src/main.rs `main` from the         *)
(* directory listing to the exit code, and src/format.rs                   *)
(* `Codec::convert_one_with`, which the rayon workers run per candidate.   *)
(*                                                                         *)
(* One process at a time works on one directory.  `main` lists the         *)
(* candidates, a pool of worker threads converts them in any order, and    *)
(* `main` prints the summary and exits.  Each system call of a worker is   *)
(* a step of its own and can fail; the process can die between any two     *)
(* steps (a signal, or a panic in any thread: the release profile is built *)
(* with panic = "abort"); the operator can start the command again.        *)
(*                                                                         *)
(* A file is the sequence of the chunks written to it, each named by the   *)
(* image it encodes; a missing file and an empty one are both << >>, since *)
(* no step of the program tells them apart.                                *)
(***************************************************************************)
EXTENDS Integers, Sequences, FiniteSets, Functions

CONSTANTS
    Image,       \* files of the directory with an accepted extension
    Stem,        \* Stem[src]: the file name of src without its extension
    Size,        \* Size[src]: chunks of the encoded image
    Threads,     \* size of the rayon pool
    MaxRuns,     \* bound: how often the operator starts the command
    Foreign,     \* a chunk that was in an output file before the first run
    Hole         \* a chunk nobody wrote, before one written past the end

ASSUME ImageAssumption   == IsFiniteSet(Image)
ASSUME SizeAssumption    == Size \in [Image -> Nat \ {0}]
ASSUME StemAssumption    == Stem = [src \in Image |-> Stem[src]]
ASSUME ThreadsAssumption == Threads \in Nat \ {0}
ASSUME RunsAssumption    == MaxRuns \in Nat \ {0}
ASSUME ChunkAssumption   == Foreign \notin Image /\ Hole \notin Image

VARIABLES
    \* the directory, which outlives the process
    sources,     \* the images whose source file exists
    disk,        \* disk[s]: content of the output file with stem s
    \* the process
    phase,       \* where `main` is
    pc,          \* pc[src]: where the worker that handles src is
    written,     \* written[src]: chunks of src written by fs::write so far
    result,      \* result[src]: what the closure made of src
    count, failed, total_out,   \* the atomic counters of `main`
    exit,        \* the exit code
    \* the command line
    run,         \* how many times the command was started
    keep_source  \* --keep-source, as given this time

dirVars  == <<sources, disk>>
command  == <<run, keep_source>>
mainVars == <<phase, exit, command>>
tallies  == <<count, failed, total_out>>
vars == <<sources, disk, phase, pc, written, result,
          count, failed, total_out, exit, run, keep_source>>

Stems   == {Stem[src] : src \in Image}
Chunk   == Image \cup {Foreign, Hole}
Phase   == {"list", "running", "exited", "aborted"}
Step    == {"none", "queued", "decode", "encode", "create", "write",
            "restat", "remove", "tally", "done"}
Kind    == {"decode", "encode", "io"}            \* CodecError
Result  == {"none", "ok", "delete"} \cup Kind

NoExit == -1      \* exit while the process runs, and after it was killed

\* with_extension keeps the stem: jpg and jpeg sources can share an output.
dst(src) == Stem[src]

\* No two candidates of the directory are converted to one output file.
DistinctOutputs == \A a, b \in Image : dst(a) = dst(b) => a = b

\* The file an uninterrupted fs::write of the first n chunks of src leaves.
Prefix(src, n) == [p \in 1 .. n |-> src]
Encoded(src)   == Prefix(src, Size[src])

\* write(2) of one chunk of src at offset k of a file with content f.
Splice(f, k, src) ==
    [p \in 1 .. (IF k > Len(f) THEN k ELSE Len(f)) |->
        IF p = k THEN src ELSE IF p <= Len(f) THEN f[p] ELSE Hole]

candidates == {src \in Image : pc[src] # "none"}
\* The closure of src has started and not returned.
Busy       == {src \in Image : pc[src] \notin {"none", "queued", "done"}}

-----------------------------------------------------------------------------
Init ==
    /\ sources = Image
    /\ disk \in [Stems -> {<< >>, <<Foreign>>}]
    /\ phase = "list" /\ exit = NoExit /\ run = 1 /\ keep_source \in BOOLEAN
    /\ pc = [src \in Image |-> "none"]
    /\ written = [src \in Image |-> 0]
    /\ result = [src \in Image |-> "none"]
    /\ count = 0 /\ failed = 0 /\ total_out = 0

(***************************************************************************)
(* `main`                                                                  *)
(***************************************************************************)

\* read_dir succeeds.  Entries that read_dir or is_file reports an error for
\* are skipped without a message, so any part of the sources may be listed.
List ==
    /\ phase = "list"
    /\ \E listed \in SUBSET sources :
         IF listed = {}
           THEN /\ phase' = "exited" /\ exit' = 0
                /\ UNCHANGED pc
           ELSE /\ phase' = "running" /\ UNCHANGED exit
                /\ pc' = [src \in Image |->
                            IF src \in listed THEN "queued" ELSE "none"]
    /\ UNCHANGED <<dirVars, written, result, tallies, command>>

ListFails ==
    /\ phase = "list"
    /\ phase' = "exited" /\ exit' = 1
    /\ UNCHANGED <<dirVars, pc, written, result, tallies, command>>

\* Mutant of Summarise: any success makes the run a success.
SummariseAnyOk ==
    /\ phase = "running"
    /\ \A src \in candidates : pc[src] = "done"
    /\ phase' = "exited"
    /\ exit' = IF count > 0 THEN 0 ELSE 1
    /\ UNCHANGED <<dirVars, pc, written, result, tallies, command>>

\* for_each has joined every worker: summary line, trailer, exit code.
Summarise ==
    /\ phase = "running"
    /\ \A src \in candidates : pc[src] = "done"
    /\ phase' = "exited"
    /\ exit' = IF failed > 0 THEN 1 ELSE 0
    /\ UNCHANGED <<dirVars, pc, written, result, tallies, command>>

(***************************************************************************)
(* The closure of par_iter().for_each, one action per step of a worker     *)
(***************************************************************************)

\* The worker of src goes from one step to the next.
Goto(src, from, to) ==
    /\ phase = "running"
    /\ pc[src] = from
    /\ pc' = [pc EXCEPT ![src] = to]

\* Mutants of Fail: fetch_sub for fetch_add; no count for a failed delete.
FailSubtracts(src, from, kind) ==
    /\ Goto(src, from, "done")
    /\ result' = [result EXCEPT ![src] = kind]
    /\ failed' = failed - 1
    /\ UNCHANGED <<dirVars, written, count, total_out, mainVars>>
FailDeleteUncounted(src, from, kind) ==
    /\ Goto(src, from, "done")
    /\ result' = [result EXCEPT ![src] = kind]
    /\ failed' = IF kind = "delete" THEN failed ELSE failed + 1
    /\ UNCHANGED <<dirVars, written, count, total_out, mainVars>>

\* conv is Err: only the failure counter and the report of src change.
Fail(src, from, kind) ==
    /\ Goto(src, from, "done")
    /\ result' = [result EXCEPT ![src] = kind]
    /\ failed' = failed + 1
    /\ UNCHANGED <<dirVars, written, count, total_out, mainVars>>

\* A free thread takes src: fs::metadata and check_input_size.
Start(src) ==
    /\ Cardinality(Busy) < Threads
    /\ \/ /\ Goto(src, "queued", "decode")
          /\ UNCHANGED <<dirVars, written, result, tallies, mainVars>>
       \/ Fail(src, "queued", "io")

\* The source is read and decoded.
Decode(src) ==
    \/ /\ Goto(src, "decode", "encode")
       /\ UNCHANGED <<dirVars, written, result, tallies, mainVars>>
    \/ \E kind \in {"decode", "io"} : Fail(src, "decode", kind)

\* Mutant of Encode: the source is deleted once its bytes are in memory.
EncodeDeletes(src) ==
    \/ /\ Goto(src, "encode", "create")
       /\ sources' = sources \ {src}
       /\ UNCHANGED <<disk, written, result, tallies, mainVars>>
    \/ Fail(src, "encode", "encode")

\* apply_resize and encode_to_vec_with_opts, both in memory.  A result with
\* a side above MAX_DIMENSION is a Decode error of the PNG encoders.
Encode(src) ==
    \/ /\ Goto(src, "encode", "create")
       /\ UNCHANGED <<dirVars, written, result, tallies, mainVars>>
    \/ \E kind \in {"decode", "encode"} : Fail(src, "encode", kind)

\* fs::write, first half: open with O_CREAT | O_TRUNC.
Create(src) ==
    \/ /\ Goto(src, "create", "write")
       /\ disk' = [disk EXCEPT ![dst(src)] = << >>]
       /\ written' = [written EXCEPT ![src] = 0]
       /\ UNCHANGED <<sources, result, tallies, mainVars>>
    \/ Fail(src, "create", "io")

\* Mutants of Write: the error of fs::write is dropped; the loop stops early.
WriteUnchecked(src) ==
    \/ /\ Goto(src, "write",
               IF written[src] + 1 < Size[src] THEN "write" ELSE "restat")
       /\ written' = [written EXCEPT ![src] = @ + 1]
       /\ disk' = [disk EXCEPT ![dst(src)] = Splice(@, written[src] + 1, src)]
       /\ UNCHANGED <<sources, result, tallies, mainVars>>
    \/ /\ Goto(src, "write", "restat")
       /\ UNCHANGED <<dirVars, written, result, tallies, mainVars>>
WriteShort(src) ==
    /\ Goto(src, "write",
            IF written[src] + 2 < Size[src] THEN "write" ELSE "restat")
    /\ written' = [written EXCEPT ![src] = @ + 1]
    /\ disk' = [disk EXCEPT ![dst(src)] = Splice(@, written[src] + 1, src)]
    /\ UNCHANGED <<sources, result, tallies, mainVars>>

\* fs::write, second half: write_all, at this worker's own file offset.
Write(src) ==
    \/ /\ Goto(src, "write",
               IF written[src] + 1 < Size[src] THEN "write" ELSE "restat")
       /\ written' = [written EXCEPT ![src] = @ + 1]
       /\ disk' = [disk EXCEPT ![dst(src)] = Splice(@, written[src] + 1, src)]
       /\ UNCHANGED <<sources, result, tallies, mainVars>>
    \/ Fail(src, "write", "io")

\* Mutant of Restat: --keep-source is forgotten.
RestatForgetsKeep(src) ==
    /\ Goto(src, "restat", "remove")
    /\ UNCHANGED <<dirVars, written, result, tallies, mainVars>>

\* in_bytes is read by a second fs::metadata(src), after the output exists.
Restat(src) ==
    \/ /\ Goto(src, "restat", IF keep_source THEN "tally" ELSE "remove")
       /\ UNCHANGED <<dirVars, written, result, tallies, mainVars>>
    \/ Fail(src, "restat", "io")

\* fs::remove_file(src); when it fails the output stays.
Remove(src) ==
    \/ /\ Goto(src, "remove", "tally")
       /\ sources' = sources \ {src}
       /\ UNCHANGED <<disk, written, result, tallies, mainVars>>
    \/ Fail(src, "remove", "delete")

\* The three relaxed fetch_add, which only `main` reads, after the join, and
\* the success record.  (total_in is raised next to total_out.)
Tally(src) ==
    /\ Goto(src, "tally", "done")
    /\ result' = [result EXCEPT ![src] = "ok"]
    /\ count' = count + 1
    /\ total_out' = total_out + Size[src]
    /\ UNCHANGED <<dirVars, written, failed, mainVars>>

Worker(src) ==
    \/ Start(src) \/ Decode(src) \/ Encode(src) \/ Create(src)
    \/ Write(src) \/ Restat(src) \/ Remove(src) \/ Tally(src)

(***************************************************************************)
(* The environment                                                         *)
(***************************************************************************)

NewProcess ==
    /\ pc' = [src \in Image |-> "none"]
    /\ written' = [src \in Image |-> 0]
    /\ result' = [src \in Image |-> "none"]
    /\ count' = 0 /\ failed' = 0 /\ total_out' = 0
    /\ exit' = NoExit

\* A signal, or a panic of any thread: the process is gone, the files stay.
Abort ==
    /\ phase \in {"list", "running"}
    /\ phase' = "aborted"
    /\ NewProcess
    /\ UNCHANGED <<dirVars, command>>

\* The operator starts the command again, with or without --keep-source.
Rerun ==
    /\ phase \in {"exited", "aborted"}
    /\ run < MaxRuns
    /\ phase' = "list" /\ run' = run + 1 /\ keep_source' \in BOOLEAN
    /\ NewProcess
    /\ UNCHANGED dirVars

-----------------------------------------------------------------------------
Next ==
    \/ List \/ ListFails \/ Summarise
    \/ \E src \in Image : Worker(src)
    \/ Abort \/ Rerun

Spec == Init /\ [][Next]_vars

-----------------------------------------------------------------------------
(***************************************************************************)
(* Properties                                                              *)
(***************************************************************************)

\* Type invariant of the directory, the process and the counters.
TypeOK ==
    /\ sources \subseteq Image
    /\ disk \in [Stems -> Seq(Chunk)]
    /\ phase \in Phase
    /\ pc \in [Image -> Step]
    /\ written \in [Image -> Nat]
    /\ result \in [Image -> Result]
    /\ count \in Nat /\ failed \in Nat /\ total_out \in Nat
    /\ exit \in {NoExit, 0, 1}
    /\ run \in 1 .. MaxRuns /\ keep_source \in BOOLEAN

\* Whatever fails, wherever the process dies and however often the command is
\* started again, every picture of the directory is still there: as its
\* source file, or as an output file that holds all of it and nothing else.
\* (The order of convert_one_with and remove_file, main.rs and format.rs.)
NoImageLost ==
    \A src \in Image : src \in sources \/ disk[dst(src)] = Encoded(src)

\* INV-CB-4: a candidate that is reported as failed keeps its source file.
FailedKeepsSource ==
    \A src \in Image : result[src] \notin {"none", "ok"} => src \in sources

\* The summary accounts for every candidate once: after the join the two
\* counters add up to the number of candidates, each of them equals the
\* number of candidates with that result, and no candidate has no result.
SummaryAccounts ==
    \A src \in candidates :
        (\A other \in candidates : pc[other] = "done") =>
            /\ result[src] # "none"
            /\ count = Cardinality({i \in candidates : result[i] = "ok"})
            /\ failed = Cardinality({i \in candidates : result[i] # "ok"})

\* Exit code 0 after a listing means that every candidate was converted: its
\* output file is complete and its source is gone, unless --keep-source.
ExitZeroMeansConverted ==
    exit = 0 =>
        \A src \in candidates :
            /\ disk[dst(src)] = Encoded(src)
            /\ src \in sources <=> keep_source

\* The byte total of the summary is what the run's outputs hold on disk.
TotalMatchesDisk ==
    phase = "exited" =>
        total_out = SumFunction([src \in {i \in candidates : result[i] = "ok"}
                                    |-> Len(disk[dst(src)])])

\* The files that hold picture src.
Holders(src) ==
    {h \in {"source", "output"} :
        \/ h = "source" /\ src \in sources
        \/ h = "output" /\ disk[dst(src)] = Encoded(src)}

\* Batch mode implements the promise of ImageStore, through failures, crashes
\* and new runs, when no two candidates share an output file.
Store == INSTANCE ImageStore
    WITH holders <- [src \in Image |-> Holders(src)], keep <- keep_source
StoreSpec == Store!Spec

(***************************************************************************)
(* A claim of the documentation that the code does not keep                *)
(***************************************************************************)

\* INV-CB-2: on success, out_bytes is the length of the output file after
\* the codec has written it.  (Restat is the step after fs::write returns.)
OutBytesIsFileLength ==
    \A src \in Image :
        pc[src] \in {"remove", "tally"} => Len(disk[dst(src)]) = Size[src]
=============================================================================
