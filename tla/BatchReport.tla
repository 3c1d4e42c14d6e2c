----------------------------- MODULE BatchReport -----------------------------
(***************************************************************************)
(* Batch mode with its reports: BatchConvert and ReportStream composed as  *)
(* the closure of src/main.rs composes them.  A worker that has decided a  *)
(* candidate (pc "done") still has to emit the candidate's line, with the  *)
(* lock of the stream held, before its closure returns and its thread can  *)
(* take another candidate; `main` summarises when all closures returned.   *)
(*                                                                         *)
(* With --json every candidate gets a record on --report-fd.  Without it   *)
(* only failures are told, by eprintln!, whatever --report-fd says.        *)
(*                                                                         *)
(* This is the life of one process: a new command has a new stream and     *)
(* shares only the directory with this one, which BatchConvert models.     *)
(***************************************************************************)
EXTENDS BatchConvert

CONSTANTS
    Bytes,       \* Bytes[src]: length of the line about src
    MAX_EINTR_RETRIES,
    MAX_EAGAIN_RETRIES,
    Newline,
    Nobody

ASSUME LineAssumption ==
    /\ Bytes \in [Image -> Nat \ {0}]
    /\ MAX_EINTR_RETRIES \in Nat /\ MAX_EAGAIN_RETRIES \in Nat
    /\ Newline \notin Image /\ Nobody \notin Image

VARIABLES
    json,        \* --json
    report_fd,   \* the descriptor of the lines
    told,        \* told[src]: what the line about src says
    lock, at, done_bytes, eintr_retries, eagain_retries, given_up, stream

streamVars == <<lock, at, done_bytes, eintr_retries, eagain_retries,
                given_up, stream>>
reportVars == <<json, report_fd, told, streamVars>>

R == INSTANCE ReportStream
       WITH Record <- Image, alive <- phase # "aborted",
            pc <- at, failed <- given_up

\* The closure emits a line about src, and has returned.
Emits(src)    == json \/ result[src] # "ok"
Returned(src) == pc[src] = "done" /\ (Emits(src) => at[src] = "done")

\* The closures that have started and not returned.
Open == {src \in Image : pc[src] \notin {"none", "queued"} /\ ~Returned(src)}

\* What the line about src says.  A failed remove_file is told apart from the
\* other failures: its record shows the output as well.
Verdict(src) ==
    CASE result[src] = "ok"     -> "ok"
      [] result[src] = "delete" -> "undeleted"
      [] result[src] \in Kind   -> "err"

-----------------------------------------------------------------------------
ReportInit ==
    /\ Init
    /\ R!Init
    /\ json \in BOOLEAN
    /\ ~json => report_fd = "stderr"
    /\ told = [src \in Image |-> "nothing"]

\* A step of the conversion.  A thread is free when a closure has returned.
Convert(src) ==
    /\ pc[src] = "queued" => Cardinality(Open) < Threads
    /\ Worker(src)
    /\ UNCHANGED reportVars

\* Mutant of Begin: success is reported before the source is deleted.
BeginEarly(src) ==
    /\ pc[src] = "remove" \/ (pc[src] = "done" /\ Emits(src))
    /\ told' = [told EXCEPT
         ![src] = IF result[src] = "none" THEN "ok" ELSE Verdict(src)]
    /\ UNCHANGED <<vars, json>>
    /\ R!Lock(src)
\* The line about src is built from the outcome, and the stream is locked.
Begin(src) ==
    /\ pc[src] = "done" /\ Emits(src)
    /\ told' = [told EXCEPT ![src] = Verdict(src)]
    /\ UNCHANGED <<vars, json>>
    /\ R!Lock(src)

\* One call of write(2), whatever it returns.
Continue(src) ==
    /\ UNCHANGED <<vars, json, told>>
    /\ R!Accept(src) \/ R!Interrupted(src) \/ R!WouldBlock(src) \/ R!WriteError(src)

\* eprintln! panics: the process is gone, with what the stream took so far.
Panic(src) ==
    /\ Abort
    /\ UNCHANGED <<json, told>>
    /\ R!StderrError(src)

Closure(src) == Convert(src) \/ Begin(src) \/ Continue(src) \/ Panic(src)

Main ==
    /\ \/ List \/ ListFails
       \/ Summarise /\ \A src \in candidates : Returned(src)
    /\ UNCHANGED reportVars

Crash == Abort /\ UNCHANGED reportVars

ReportNext ==
    \/ Main \/ Crash
    \/ \E src \in Image : Closure(src)

\* The kernel does not stop the process for ever: while a thread of it can
\* run, some thread takes a step, and every write(2) returns.  Nothing is
\* assumed of any one thread, and a crash does not have to happen.
ReportSpec ==
    /\ ReportInit /\ [][ReportNext]_<<vars, reportVars>>
    /\ WF_<<vars, reportVars>>(Main \/ \E src \in Image : Closure(src))

-----------------------------------------------------------------------------
(***************************************************************************)
(* Properties                                                              *)
(***************************************************************************)

\* Type invariant of the whole program, and: the stream is locked by a worker
\* whose candidate is decided, which has therefore left the directory alone.
ReportTypeOK ==
    /\ TypeOK
    /\ R!TypeOK
    /\ json \in BOOLEAN
    /\ told \in [Image -> {"nothing", "ok", "undeleted", "err"}]
    /\ lock # Nobody /\ phase = "running" => pc[lock] = "done"
    /\ Cardinality(Open) <= Threads

\* A whole line on the stream tells the truth about the directory, also when
\* the process is killed right after it: behind "ok" and "undeleted" the
\* output is complete (unless another candidate writes the same file), and the
\* source is gone behind "ok" only, and only if it was not to be kept.  A
\* caller may act on a record without waiting for the process to end.
RecordsTellTheTruth ==
    \A src \in Image :
        R!Intact(src) =>
            /\ src \in sources <=> (told[src] = "ok" => keep_source)
            /\ told[src] # "err" /\ (\A o \in Image \ {src} : dst(o) # dst(src))
                 => disk[dst(src)] = Encoded(src)

Whole(verdicts) == {src \in Image : R!Intact(src) /\ told[src] \in verdicts}

\* When the process exits, the stream and the summary agree: there are never
\* more records of a kind than the summary counts, each give-up costs at most
\* two of them, and with no give-up none is missing.  (Without --json only
\* failures have a line.)
StreamMatchesSummary ==
    phase = "exited" =>
        LET ok   == IF json THEN count ELSE 0
            good == Cardinality(Whole({"ok"}))
            bad  == Cardinality(Whole({"undeleted", "err"}))
        IN /\ good <= ok /\ bad <= failed
           /\ ok + failed - (good + bad) <= 2 * Cardinality(given_up)

\* A run that has listed its candidates ends: it exits, or it is killed.  No
\* worker waits for the stream for ever, and no thread is lost to it.
RunEnds == phase = "running" ~> phase \in {"exited", "aborted"}
=============================================================================
