---------------------------- MODULE ReportStream ----------------------------
(***************************************************************************)
(* The report stream: src/main.rs `emit_report_line`, `retry_write_all`,   *)
(* `report_fd_lock` and the eprintln! path for fd 2.                       *)
(*                                                                         *)
(* Worker threads emit one report line each, whenever they are done.  A    *)
(* line is a payload and a newline, handed to write(2) in as many calls as *)
(* the file descriptor wants: a call takes some of the bytes, none of      *)
(* them, is interrupted, would block, or fails.  The stream is the         *)
(* sequence of bytes accepted so far, each named by the record it is of.   *)
(***************************************************************************)
EXTENDS Integers, Sequences, FiniteSets

CONSTANTS
    Record,      \* the report lines of the run, one per candidate
    Bytes,       \* Bytes[r]: length of the payload of r
    MAX_EINTR_RETRIES,
    MAX_EAGAIN_RETRIES,
    Newline,     \* the byte that ends a line
    Nobody       \* the lock is free

ASSUME RecordAssumption  == IsFiniteSet(Record)
ASSUME BytesAssumption   == Bytes \in [Record -> Nat \ {0}]
ASSUME RetryAssumption   == MAX_EINTR_RETRIES \in Nat /\ MAX_EAGAIN_RETRIES \in Nat
ASSUME NamesAssumption   == Newline \notin Record /\ Nobody \notin Record

VARIABLES
    report_fd,   \* --report-fd: descriptor 2 or another one
    alive,       \* the process has not been aborted by a panic
    lock,        \* holder of report_fd_lock, or of the lock of stderr
    pc,          \* pc[r]: what the thread that reports r is writing
    done_bytes,  \* `written` of the current write loop of r
    eintr_retries, eagain_retries,   \* the counters of that loop
    failed,      \* the records whose payload or newline was given up
    stream       \* the bytes the descriptor has accepted

retries == <<eintr_retries, eagain_retries>>
vars == <<report_fd, alive, lock, pc, done_bytes, eintr_retries,
          eagain_retries, failed, stream>>

Step == {"ready", "payload", "newline", "done"}

Init ==
    /\ report_fd \in {"stderr", "other"}
    /\ alive = TRUE
    /\ lock = Nobody
    /\ pc = [r \in Record |-> "ready"]
    /\ done_bytes = [r \in Record |-> 0]
    /\ eintr_retries = [r \in Record |-> 0]
    /\ eagain_retries = [r \in Record |-> 0]
    /\ failed = {}
    /\ stream = << >>

-----------------------------------------------------------------------------
\* retry_write_all is called: its counters are local to the call.
Enter(r, step) ==
    /\ pc' = [pc EXCEPT ![r] = step]
    /\ done_bytes' = [done_bytes EXCEPT ![r] = 0]
    /\ eintr_retries' = [eintr_retries EXCEPT ![r] = 0]
    /\ eagain_retries' = [eagain_retries EXCEPT ![r] = 0]

\* Mutant of Leave: the guard is dropped before the line is finished.
LeaveAfterPayload(r, step) ==
    /\ Enter(r, step)
    /\ lock' = Nobody
\* After the newline, or the first error, the guard is dropped.
Leave(r, step) ==
    /\ Enter(r, step)
    /\ lock' = IF step = "done" THEN Nobody ELSE r

\* The thread that reports r is in a write loop.
Writing(r) == alive /\ pc[r] \in {"payload", "newline"}

\* What the loop has to write: the payload, or the one byte of the newline.
Target(r) == IF pc[r] = "payload" THEN Bytes[r] ELSE 1
Byte(r)   == IF pc[r] = "payload" THEN r ELSE Newline

\* Mutant of Lock: no guard is taken.
LockFree(r) ==
    /\ alive /\ pc[r] = "ready"
    /\ lock' = r
    /\ Enter(r, "payload")
    /\ UNCHANGED <<report_fd, alive, failed, stream>>
\* The mutex of report_fd_lock, or the lock eprintln! takes.
Lock(r) ==
    /\ alive /\ pc[r] = "ready" /\ lock = Nobody
    /\ lock' = r
    /\ Enter(r, "payload")
    /\ UNCHANGED <<report_fd, alive, failed, stream>>

\* Mutant of Accept: a call that takes no byte counts as progress.
AcceptNone(r) ==
    /\ Writing(r)
    /\ \E n \in 0 .. (Target(r) - done_bytes[r]) :
         /\ stream' = stream \o [b \in 1 .. n |-> Byte(r)]
         /\ IF done_bytes[r] + n < Target(r)
              THEN /\ done_bytes' = [done_bytes EXCEPT ![r] = @ + n]
                   /\ eintr_retries' = [eintr_retries EXCEPT ![r] = 0]
                   /\ eagain_retries' = [eagain_retries EXCEPT ![r] = 0]
                   /\ UNCHANGED <<lock, pc>>
              ELSE Leave(r, IF pc[r] = "payload" THEN "newline" ELSE "done")
    /\ UNCHANGED <<report_fd, alive, failed>>
\* write(2) returns n > 0.  Progress resets both retry counters.
Accept(r) ==
    /\ Writing(r)
    /\ \E n \in 1 .. (Target(r) - done_bytes[r]) :
         /\ stream' = stream \o [b \in 1 .. n |-> Byte(r)]
         /\ IF done_bytes[r] + n < Target(r)
              THEN /\ done_bytes' = [done_bytes EXCEPT ![r] = @ + n]
                   /\ eintr_retries' = [eintr_retries EXCEPT ![r] = 0]
                   /\ eagain_retries' = [eagain_retries EXCEPT ![r] = 0]
                   /\ UNCHANGED <<lock, pc>>
              ELSE Leave(r, IF pc[r] = "payload" THEN "newline" ELSE "done")
    /\ UNCHANGED <<report_fd, alive, failed>>

\* Mutant of GiveUp: the guard outlives the call that failed.
GiveUpKeepsLock(r) ==
    /\ failed' = failed \cup {r}
    /\ Enter(r, "done")
    /\ UNCHANGED <<report_fd, alive, lock, stream>>
\* The loop returns an error: emit_report_line returns without the newline.
GiveUp(r) ==
    /\ failed' = failed \cup {r}
    /\ Leave(r, "done")
    /\ UNCHANGED <<report_fd, alive, stream>>

\* Mutant of Interrupted: the budget is compared before it is charged.
InterruptedOnceMore(r) ==
    /\ Writing(r) /\ report_fd = "other"
    /\ IF eintr_retries[r] > MAX_EINTR_RETRIES
         THEN GiveUp(r)
         ELSE /\ eintr_retries' = [eintr_retries EXCEPT ![r] = @ + 1]
              /\ UNCHANGED <<report_fd, alive, lock, pc, done_bytes,
                             eagain_retries, failed, stream>>
\* EINTR: retried at once, a bounded number of times.
Interrupted(r) ==
    /\ Writing(r) /\ report_fd = "other"
    /\ IF eintr_retries[r] + 1 > MAX_EINTR_RETRIES
         THEN GiveUp(r)
         ELSE /\ eintr_retries' = [eintr_retries EXCEPT ![r] = @ + 1]
              /\ UNCHANGED <<report_fd, alive, lock, pc, done_bytes,
                             eagain_retries, failed, stream>>

\* EAGAIN, EWOULDBLOCK or a result of 0: retried after a pause of at most
\* 1 ms, a bounded number of times.
WouldBlock(r) ==
    /\ Writing(r) /\ report_fd = "other"
    /\ IF eagain_retries[r] + 1 > MAX_EAGAIN_RETRIES
         THEN GiveUp(r)
         ELSE /\ eagain_retries' = [eagain_retries EXCEPT ![r] = @ + 1]
              /\ UNCHANGED <<report_fd, alive, lock, pc, done_bytes,
                             eintr_retries, failed, stream>>

\* Any other error is returned without a retry.
WriteError(r) ==
    /\ Writing(r) /\ report_fd = "other"
    /\ GiveUp(r)

\* eprintln! (fd 2) has no retry budget: it panics on an error other than
\* EINTR, which write_all repeats, and the release binary aborts on a panic.
StderrError(r) ==
    /\ Writing(r) /\ report_fd = "stderr"
    /\ alive' = FALSE
    /\ UNCHANGED <<report_fd, lock, pc, done_bytes, retries, failed, stream>>

Emit(r) ==
    \/ Lock(r) \/ Accept(r)
    \/ Interrupted(r) \/ WouldBlock(r) \/ WriteError(r)
    \/ StderrError(r)

Next == \E r \in Record : Emit(r)

Spec == Init /\ [][Next]_vars

\* Every runnable thread is scheduled, and a call of write(2) returns.  Which
\* waiter a freed lock goes to is left open.
FairSpec == Spec /\ \A r \in Record : WF_vars(Emit(r))

-----------------------------------------------------------------------------
(***************************************************************************)
(* Properties                                                              *)
(***************************************************************************)

\* Type invariant: the retry counters stay within their budgets and a write
\* loop never counts more bytes than it was given.
TypeOK ==
    /\ report_fd \in {"stderr", "other"} /\ alive \in BOOLEAN
    /\ lock \in Record \cup {Nobody}
    /\ pc \in [Record -> Step]
    /\ done_bytes \in [Record -> Nat]
    /\ eintr_retries \in [Record -> 0 .. MAX_EINTR_RETRIES]
    /\ eagain_retries \in [Record -> 0 .. MAX_EAGAIN_RETRIES]
    /\ failed \subseteq Record
    /\ stream \in Seq(Record \cup {Newline})

\* The bytes of one record are never split by bytes of another or by a
\* newline, even when writes are partial and retried: what the mutex is for.
NoInterleaving ==
    \A p, q, s \in 1 .. Len(stream) :
        p < q /\ q < s /\ stream[p] # Newline /\ stream[p] = stream[s]
            => stream[q] = stream[p]

\* Positions in the stream at which a line starts or ends.
LineEnds   == {p \in 1 .. Len(stream) : stream[p] = Newline}
LineStarts == {1} \cup {p + 1 : p \in LineEnds}

\* The stream holds a line that is all of record r and nothing else.
Intact(r) ==
    \E p \in LineStarts :
        /\ p + Bytes[r] \in LineEnds
        /\ SubSeq(stream, p, p + Bytes[r] - 1) = [b \in 1 .. Bytes[r] |-> r]

\* An error spoils at most the record it hits and the one written next.  On
\* descriptor 2 no finished record is spoiled: there an error ends the process.
DamageIsContained ==
    Cardinality({r \in Record : pc[r] = "done" /\ ~Intact(r)})
        <= 2 * Cardinality(failed)

\* Every report call returns or aborts the process, even when the descriptor
\* never takes a byte again: the retries of all calls together are bounded.
EveryCallReturns == <>(~alive \/ \A r \in Record : pc[r] = "done")

(***************************************************************************)
(* A claim of the documentation that the code does not keep                *)
(***************************************************************************)

\* INV-RS-1: every record is one line that ends with a newline, so each line
\* on the stream is all of one record.
EveryLineIsOneRecord ==
    \A p \in LineStarts, q \in LineEnds :
        (p < q /\ \A x \in LineEnds : p <= x => q <= x) =>
            \E r \in Record : SubSeq(stream, p, q - 1) = [b \in 1 .. Bytes[r] |-> r]
=============================================================================
