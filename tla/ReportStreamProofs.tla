------------------------- MODULE ReportStreamProofs -------------------------
(***************************************************************************)
(* Theorems about ReportStream, for every number and length of records,    *)
(* every retry budget, and whatever write(2) returns.                      *)
(***************************************************************************)
EXTENDS ReportStream, SequenceTheorems, FiniteSetTheorems, TLAPS

(***************************************************************************)
(* Lemmas about the stream                                                 *)
(***************************************************************************)

\* What one call of write(2) appends: n times the same byte.
LEMMA AppendedBytes ==
    ASSUME NEW S, NEW s \in Seq(S), NEW byte \in S, NEW n \in Nat,
           NEW t, t = s \o [b \in 1 .. n |-> byte]
    PROVE  /\ t \in Seq(S) /\ Len(t) = Len(s) + n
           /\ \A p \in 1 .. Len(s) : t[p] = s[p]
           /\ \A p \in Len(s) + 1 .. Len(s) + n : t[p] = byte
<1> DEFINE bytes == [b \in 1 .. n |-> byte]
<1>1. bytes \in Seq(S) /\ Len(bytes) = n
  OBVIOUS
<1>2. \A p \in 1 .. n : bytes[p] = byte
  OBVIOUS
<1>3. t = s \o bytes
  OBVIOUS
<1> HIDE DEF bytes
<1> QED
  BY <1>1, <1>2, <1>3, ConcatProperties

(***************************************************************************)
(* Type correctness and the retry budgets                                  *)
(***************************************************************************)

LEMMA TypeInit == Init => TypeOK
<1>1. << >> \in Seq(Record \cup {Newline})
  OBVIOUS
<1> QED
  BY <1>1, RetryAssumption DEF Init, TypeOK, Step

\* A write loop takes at least one byte and at most what is left of it.
LEMMA TargetType ==
    ASSUME TypeOK, NEW r \in Record
    PROVE  Target(r) \in Nat \ {0} /\ Byte(r) \in Record \cup {Newline}
BY BytesAssumption DEF TypeOK, Target, Byte

LEMMA TypeGiveUp ==
    ASSUME TypeOK, NEW r \in Record, GiveUp(r)
    PROVE  TypeOK'
BY RetryAssumption DEF GiveUp, Leave, Enter, TypeOK, Step

\* What a call of write(2) that takes n bytes of the loop of r does: it leaves
\* the thread in the loop, or it ends the loop.
Took(r, n) ==
    /\ done_bytes[r] + n <= Target(r)
    /\ stream' = stream \o [b \in 1 .. n |-> Byte(r)]
    /\ UNCHANGED <<report_fd, alive, failed>>
    /\ \/ /\ done_bytes[r] + n < Target(r)
          /\ done_bytes' = [done_bytes EXCEPT ![r] = @ + n]
          /\ eintr_retries' = [eintr_retries EXCEPT ![r] = 0]
          /\ eagain_retries' = [eagain_retries EXCEPT ![r] = 0]
          /\ UNCHANGED <<lock, pc>>
       \/ /\ done_bytes[r] + n = Target(r)
          /\ Leave(r, IF pc[r] = "payload" THEN "newline" ELSE "done")

LEMMA AcceptCases ==
    ASSUME TypeOK, NEW r \in Record, Accept(r)
    PROVE  \E n \in Nat \ {0} : Took(r, n)
<1>1. Target(r) \in Nat /\ done_bytes[r] \in Nat
  BY TargetType DEF TypeOK
<1>2. PICK n \in 1 .. (Target(r) - done_bytes[r]) :
         /\ stream' = stream \o [b \in 1 .. n |-> Byte(r)]
         /\ IF done_bytes[r] + n < Target(r)
              THEN /\ done_bytes' = [done_bytes EXCEPT ![r] = @ + n]
                   /\ eintr_retries' = [eintr_retries EXCEPT ![r] = 0]
                   /\ eagain_retries' = [eagain_retries EXCEPT ![r] = 0]
                   /\ UNCHANGED <<lock, pc>>
              ELSE Leave(r, IF pc[r] = "payload" THEN "newline" ELSE "done")
  BY DEF Accept
<1>3. UNCHANGED <<report_fd, alive, failed>>
  BY DEF Accept
<1>4. n \in Nat \ {0} /\ done_bytes[r] + n <= Target(r)
  BY <1>1
<1>5. done_bytes[r] + n < Target(r) \/ done_bytes[r] + n = Target(r)
  BY <1>1, <1>4
<1> QED
  BY <1>2, <1>3, <1>4, <1>5 DEF Took

LEMMA TypeNext == TypeOK /\ [Next]_vars => TypeOK'
<1> SUFFICES ASSUME TypeOK, [Next]_vars PROVE TypeOK'
  OBVIOUS
<1>1. ASSUME NEW r \in Record, Lock(r) PROVE TypeOK'
  BY <1>1, RetryAssumption DEF Lock, Enter, TypeOK, Step
<1>2. ASSUME NEW r \in Record, Accept(r) PROVE TypeOK'
  <2>1. PICK n \in Nat \ {0} : Took(r, n)
    BY <1>2, AcceptCases
  <2>2. stream' \in Seq(Record \cup {Newline})
    BY <2>1, TargetType, AppendedBytes DEF TypeOK, Took
  <2>3. CASE done_bytes[r] + n < Target(r)
    <3>1. done_bytes' = [done_bytes EXCEPT ![r] = @ + n]
          /\ eintr_retries' = [eintr_retries EXCEPT ![r] = 0]
          /\ eagain_retries' = [eagain_retries EXCEPT ![r] = 0]
          /\ UNCHANGED <<lock, pc>>
      BY <2>1, <2>3, TargetType DEF TypeOK, Took
    <3>2. done_bytes' \in [Record -> Nat]
      BY <3>1 DEF TypeOK
    <3> QED
      BY <2>1, <2>2, <3>1, <3>2, RetryAssumption DEF TypeOK, Took
  <2>4. CASE Leave(r, IF pc[r] = "payload" THEN "newline" ELSE "done")
    BY <2>1, <2>2, <2>4, RetryAssumption DEF Took, Leave, Enter, TypeOK, Step
  <2> QED
    BY <2>1, <2>3, <2>4 DEF Took
<1>3. ASSUME NEW r \in Record, Interrupted(r) PROVE TypeOK'
  <2>1. CASE GiveUp(r)
    BY <2>1, TypeGiveUp
  <2>2. CASE ~GiveUp(r)
    <3>1. /\ eintr_retries[r] + 1 <= MAX_EINTR_RETRIES
          /\ eintr_retries' = [eintr_retries EXCEPT ![r] = @ + 1]
          /\ UNCHANGED <<report_fd, alive, lock, pc, done_bytes,
                         eagain_retries, failed, stream>>
      BY <1>3, <2>2, RetryAssumption DEF Interrupted, TypeOK
    <3>2. eintr_retries' \in [Record -> 0 .. MAX_EINTR_RETRIES]
      BY <3>1, RetryAssumption DEF TypeOK
    <3> QED
      BY <3>1, <3>2 DEF TypeOK
  <2> QED
    BY <2>1, <2>2
<1>4. ASSUME NEW r \in Record, WouldBlock(r) PROVE TypeOK'
  <2>1. CASE GiveUp(r)
    BY <2>1, TypeGiveUp
  <2>2. CASE ~GiveUp(r)
    <3>1. /\ eagain_retries[r] + 1 <= MAX_EAGAIN_RETRIES
          /\ eagain_retries' = [eagain_retries EXCEPT ![r] = @ + 1]
          /\ UNCHANGED <<report_fd, alive, lock, pc, done_bytes,
                         eintr_retries, failed, stream>>
      BY <1>4, <2>2, RetryAssumption DEF WouldBlock, TypeOK
    <3>2. eagain_retries' \in [Record -> 0 .. MAX_EAGAIN_RETRIES]
      BY <3>1, RetryAssumption DEF TypeOK
    <3> QED
      BY <3>1, <3>2 DEF TypeOK
  <2> QED
    BY <2>1, <2>2
<1>5. ASSUME NEW r \in Record, WriteError(r) PROVE TypeOK'
  BY <1>5, TypeGiveUp DEF WriteError
<1>6. ASSUME NEW r \in Record, StderrError(r) PROVE TypeOK'
  BY <1>6 DEF StderrError, retries, TypeOK
<1>7. CASE UNCHANGED vars
  BY <1>7 DEF vars, TypeOK
<1> QED
  BY <1>1, <1>2, <1>3, <1>4, <1>5, <1>6, <1>7 DEF Next, Emit

\* No retry counter ever exceeds its budget, for any descriptor behaviour.
THEOREM TypeCorrect == Spec => []TypeOK
BY TypeInit, TypeNext, PTL DEF Spec

(***************************************************************************)
(* Mutual exclusion                                                        *)
(*                                                                         *)
(* NoInterleaving alone is not inductive: that the bytes of a write loop   *)
(* join the earlier ones of the same record follows from the thread in the *)
(* loop being the one that holds the lock, and from its bytes being the    *)
(* last of the stream.                                                     *)
(***************************************************************************)

\* The holder of the lock is the one thread in a write loop, which has more to
\* write; a record that is given up is not tried again.
LockInv ==
    /\ \A r \in Record : lock = r <=> pc[r] \in {"payload", "newline"}
    /\ \A r \in Record : pc[r] = "payload" => done_bytes[r] < Bytes[r]
    /\ \A r \in Record : pc[r] = "newline" => done_bytes[r] = 0
    /\ \A r \in failed : pc[r] = "done"

\* The bytes of r, in its write loops, that the stream has taken.
Held(r) == IF pc[r] = "payload" THEN done_bytes[r] ELSE Bytes[r]

\* Where the bytes of the holder of the lock begin.
Base == IF lock = Nobody THEN Len(stream) ELSE Len(stream) - Held(lock)

\* No byte of a record is there before its turn, and the holder of the lock
\* has written all bytes behind Base and no other.
BlockInv ==
    /\ Base \in 0 .. Len(stream)
    /\ \A r \in Record : pc[r] = "ready" =>
          \A p \in 1 .. Len(stream) : stream[p] # r
    /\ \A r \in Record : lock = r =>
          \A p \in 1 .. Len(stream) : stream[p] = r <=> p > Base
    /\ NoInterleaving

\* No step of any thread moves another one, and a step is of one of four
\* kinds, the last of which changes at most a retry counter or `alive`.
LEMMA EmitCases ==
    ASSUME NEW r \in Record, Emit(r)
    PROVE  \/ Lock(r)
           \/ Accept(r)
           \/ Writing(r) /\ GiveUp(r)
           \/ UNCHANGED <<lock, pc, done_bytes, failed, stream>>
<1>1. CASE Interrupted(r)
  BY <1>1 DEF Interrupted
<1>2. CASE WouldBlock(r)
  BY <1>2 DEF WouldBlock
<1>3. CASE WriteError(r)
  BY <1>3 DEF WriteError
<1>4. CASE StderrError(r)
  BY <1>4 DEF StderrError
<1> QED
  BY <1>1, <1>2, <1>3, <1>4 DEF Emit

\* The same for the holder of the lock: a call takes a part of the payload, its
\* last bytes, or the newline.
TookPart(r, n) ==
    /\ pc[r] = "payload" /\ done_bytes[r] + n < Bytes[r]
    /\ stream' = stream \o [b \in 1 .. n |-> r]
    /\ done_bytes' = [done_bytes EXCEPT ![r] = @ + n]
    /\ UNCHANGED <<lock, pc, failed>>

TookLast(r, n) ==
    /\ pc[r] = "payload" /\ done_bytes[r] + n = Bytes[r]
    /\ stream' = stream \o [b \in 1 .. n |-> r]
    /\ pc' = [pc EXCEPT ![r] = "newline"]
    /\ done_bytes' = [done_bytes EXCEPT ![r] = 0]
    /\ UNCHANGED <<lock, failed>>

TookNewline(r) ==
    /\ pc[r] = "newline"
    /\ stream' = stream \o [b \in 1 .. 1 |-> Newline]
    /\ pc' = [pc EXCEPT ![r] = "done"]
    /\ done_bytes' = [done_bytes EXCEPT ![r] = 0]
    /\ lock' = Nobody /\ failed' = failed

LEMMA AcceptEffects ==
    ASSUME TypeOK, LockInv, NEW r \in Record, Accept(r)
    PROVE  /\ lock = r
           /\ (\E n \in Nat \ {0} : TookPart(r, n) \/ TookLast(r, n)) \/ TookNewline(r)
<1>1. PICK n \in Nat \ {0} : Took(r, n)
  BY AcceptCases
<1>2. pc[r] \in {"payload", "newline"} /\ lock = r
  BY DEF Accept, Writing, LockInv
<1>3. CASE pc[r] = "payload"
  BY <1>1, <1>2, <1>3 DEF Took, Target, Byte, Leave, Enter, TookPart, TookLast
<1>4. CASE pc[r] = "newline"
  <2>1. Target(r) = 1 /\ Byte(r) = Newline /\ done_bytes[r] = 0
    BY <1>4 DEF Target, Byte, LockInv
  <2>2. n = 1
    BY <1>1, <2>1 DEF Took
  <2>3. Leave(r, "done") /\ stream' = stream \o [b \in 1 .. 1 |-> Newline]
        /\ failed' = failed
    BY <1>1, <1>4, <2>1, <2>2 DEF Took
  <2> QED
    BY <1>2, <1>4, <2>3 DEF Leave, Enter, TookNewline
<1> QED
  BY <1>2, <1>3, <1>4

LEMMA LockInvInit == Init => LockInv
BY NamesAssumption DEF Init, LockInv

LEMMA LockInvEmit ==
    ASSUME TypeOK, LockInv, NEW r \in Record, Emit(r)
    PROVE  LockInv'
<1>1. CASE Lock(r)
  <2>1. /\ lock = Nobody /\ lock' = r /\ pc[r] = "ready" /\ failed' = failed
        /\ pc' = [pc EXCEPT ![r] = "payload"]
        /\ done_bytes' = [done_bytes EXCEPT ![r] = 0]
    BY <1>1 DEF Lock, Enter
  <2>2. 0 < Bytes[r]
    BY BytesAssumption
  <2>3. \A o \in Record : pc[o] \notin {"payload", "newline"}
    BY <2>1, NamesAssumption DEF LockInv
  <2> QED
    BY <2>1, <2>2, <2>3 DEF LockInv, TypeOK
<1>2. ASSUME NEW n \in Nat, lock = r, TookPart(r, n) PROVE LockInv'
  BY <1>2, BytesAssumption DEF TookPart, LockInv, TypeOK
<1>3. ASSUME NEW n \in Nat, lock = r, TookLast(r, n) PROVE LockInv'
  BY <1>3 DEF TookLast, LockInv, TypeOK
<1>4. ASSUME lock = r, TookNewline(r) PROVE LockInv'
  BY <1>4, NamesAssumption DEF TookNewline, LockInv, TypeOK
<1>5. CASE Writing(r) /\ GiveUp(r)
  BY <1>5, NamesAssumption DEF Writing, GiveUp, Leave, Enter, LockInv, TypeOK
<1>6. CASE UNCHANGED <<lock, pc, done_bytes, failed, stream>>
  BY <1>6 DEF LockInv
<1> QED
  BY <1>1, <1>2, <1>3, <1>4, <1>5, <1>6, EmitCases, AcceptEffects

LEMMA BlockInvInit == Init => BlockInv
<1>1. ASSUME Init PROVE stream = << >> /\ Len(stream) = 0 /\ lock = Nobody
  BY <1>1 DEF Init
<1> QED
  BY <1>1, NamesAssumption DEF BlockInv, Base, NoInterleaving

\* The holder of the lock writes payload bytes: they join its earlier ones.
LEMMA PayloadJoins ==
    ASSUME TypeOK, LockInv, BlockInv, NEW r \in Record, NEW n \in Nat,
           lock = r, lock' = r, Base' = Base,
           stream' = stream \o [b \in 1 .. n |-> r],
           \A o \in Record : pc'[o] = "ready" => o # r /\ pc[o] = "ready"
    PROVE  BlockInv'
<1>1. /\ Len(stream) \in Nat /\ Len(stream') = Len(stream) + n
      /\ \A p \in 1 .. Len(stream) : stream'[p] = stream[p]
      /\ \A p \in Len(stream) + 1 .. Len(stream) + n : stream'[p] = r
  <2>1. stream \in Seq(Record \cup {Newline}) /\ r \in Record \cup {Newline}
    BY DEF TypeOK
  <2> QED
    BY <2>1, AppendedBytes
<1>2. \A p \in 1 .. Len(stream) + n :
         p \in 1 .. Len(stream) \/ p \in Len(stream) + 1 .. Len(stream) + n
  BY <1>1
<1>3. Base \in 0 .. Len(stream)
  BY DEF BlockInv
<1>4. \A p \in 1 .. Len(stream') : stream'[p] = r <=> p > Base
  BY <1>1, <1>2, <1>3 DEF BlockInv
<1>5. \A o \in Record : pc'[o] = "ready" =>
         \A p \in 1 .. Len(stream') : stream'[p] # o
  BY <1>1, <1>2 DEF BlockInv
<1>6. NoInterleaving'
  <2> SUFFICES ASSUME NEW p \in 1 .. Len(stream'), NEW q \in 1 .. Len(stream'),
                      NEW s \in 1 .. Len(stream'),
                      p < q, q < s, stream'[p] # Newline, stream'[p] = stream'[s]
               PROVE  stream'[q] = stream'[p]
    BY DEF NoInterleaving
  <2>1. CASE stream'[p] = r
    BY <1>1, <1>3, <1>4, <2>1
  <2>2. CASE stream'[p] # r
    <3>1. p \in 1 .. Len(stream) /\ s \in 1 .. Len(stream)
      BY <1>1, <1>2, <2>2
    <3>2. q \in 1 .. Len(stream)
      BY <1>1, <3>1
    <3> QED
      BY <1>1, <3>1, <3>2 DEF BlockInv, NoInterleaving
  <2> QED
    BY <2>1, <2>2
<1> QED
  BY <1>1, <1>3, <1>4, <1>5, <1>6 DEF BlockInv

\* The lock is given up, and at most a newline written: no byte of a record
\* has moved.
LEMMA NewlineSeparates ==
    ASSUME TypeOK, LockInv, BlockInv, lock' = Nobody,
           stream' = stream \/ stream' = stream \o [b \in 1 .. 1 |-> Newline],
           \A o \in Record : pc'[o] = "ready" => pc[o] = "ready"
    PROVE  BlockInv'
<1>1. /\ Len(stream) \in Nat
      /\ Len(stream') = Len(stream) \/ Len(stream') = Len(stream) + 1
      /\ \A p \in 1 .. Len(stream) : stream'[p] = stream[p]
      /\ \A p \in 1 .. Len(stream') : p \in 1 .. Len(stream) \/ stream'[p] = Newline
  <2>1. stream \in Seq(Record \cup {Newline}) /\ Newline \in Record \cup {Newline}
    BY DEF TypeOK
  <2>2. CASE stream' = stream
    BY <2>1, <2>2
  <2>3. CASE stream' = stream \o [b \in 1 .. 1 |-> Newline]
    <3>1. /\ Len(stream') = Len(stream) + 1
          /\ \A p \in 1 .. Len(stream) : stream'[p] = stream[p]
          /\ \A p \in Len(stream) + 1 .. Len(stream) + 1 : stream'[p] = Newline
      BY <2>1, <2>3, AppendedBytes
    <3> QED
      BY <2>1, <3>1
  <2> QED
    BY <2>2, <2>3
<1>2. Base' = Len(stream')
  BY DEF Base
<1>3. \A o \in Record : lock' # o
  BY NamesAssumption
<1>4. \A o \in Record : pc'[o] = "ready" =>
         \A p \in 1 .. Len(stream') : stream'[p] # o
  BY <1>1, NamesAssumption DEF BlockInv
<1>5. NoInterleaving'
  BY <1>1 DEF BlockInv, NoInterleaving
<1> QED
  BY <1>1, <1>2, <1>3, <1>4, <1>5 DEF BlockInv

\* A write of payload bytes leaves the place where the block begins.
LEMMA BaseStays ==
    ASSUME TypeOK, NEW r \in Record, lock = r, NEW n \in Nat,
           TookPart(r, n) \/ TookLast(r, n)
    PROVE  Base' = Base
<1>1. /\ Len(stream) \in Nat /\ r # Nobody
      /\ Bytes[r] \in Nat /\ done_bytes[r] \in Nat
  BY NamesAssumption, BytesAssumption DEF TypeOK
<1>2. Len(stream') = Len(stream) + n
  BY AppendedBytes DEF TookPart, TookLast, TypeOK
<1>3. Held(r)' = Held(r) + n /\ Held(r) \in Nat
  BY <1>1 DEF TookPart, TookLast, Held, TypeOK
<1> QED
  BY <1>1, <1>2, <1>3 DEF Base, TookPart, TookLast, Held

LEMMA BlockInvEmit ==
    ASSUME TypeOK, LockInv, BlockInv, NEW r \in Record, Emit(r)
    PROVE  BlockInv'
<1>0. Len(stream) \in Nat /\ r # Nobody /\ Bytes[r] \in Nat /\ done_bytes[r] \in Nat
  BY NamesAssumption, BytesAssumption DEF TypeOK
<1>1. CASE Lock(r)
  <2>1. /\ lock' = r /\ pc[r] = "ready" /\ stream' = stream
        /\ pc' = [pc EXCEPT ![r] = "payload"]
        /\ done_bytes' = [done_bytes EXCEPT ![r] = 0]
    BY <1>1 DEF Lock, Enter
  <2>2. Base' = Len(stream)
    BY <1>0, <2>1 DEF Base, Held, TypeOK
  <2>3. \A o \in Record : pc'[o] = "ready" => pc[o] = "ready"
    BY <2>1 DEF TypeOK
  <2> QED
    BY <1>0, <2>1, <2>2, <2>3 DEF BlockInv, NoInterleaving
<1>2. ASSUME NEW n \in Nat, lock = r, TookPart(r, n) PROVE BlockInv'
  <2>1. Base' = Base
    BY <1>2, BaseStays
  <2>2. \A o \in Record : pc'[o] = "ready" => o # r /\ pc[o] = "ready"
    BY <1>2 DEF TookPart
  <2> QED
    BY <1>2, <2>1, <2>2, PayloadJoins DEF TookPart
<1>3. ASSUME NEW n \in Nat, lock = r, TookLast(r, n) PROVE BlockInv'
  <2>1. Base' = Base
    BY <1>3, BaseStays
  <2>2. \A o \in Record : pc'[o] = "ready" => o # r /\ pc[o] = "ready"
    BY <1>3 DEF TookLast, TypeOK
  <2> QED
    BY <1>3, <2>1, <2>2, PayloadJoins DEF TookLast
<1>4. ASSUME lock = r, TookNewline(r) PROVE BlockInv'
  <2>1. \A o \in Record : pc'[o] = "ready" => pc[o] = "ready"
    BY <1>4 DEF TookNewline, TypeOK
  <2> QED
    BY <1>4, <2>1, NewlineSeparates DEF TookNewline
<1>5. CASE Writing(r) /\ GiveUp(r)
  <2>1. lock' = Nobody /\ stream' = stream
    BY <1>5 DEF GiveUp, Leave
  <2>2. \A o \in Record : pc'[o] = "ready" => pc[o] = "ready"
    BY <1>5 DEF GiveUp, Leave, Enter, TypeOK
  <2> QED
    BY <2>1, <2>2, NewlineSeparates
<1>6. CASE UNCHANGED <<lock, pc, done_bytes, failed, stream>>
  BY <1>6 DEF BlockInv, Base, Held, NoInterleaving
<1> QED
  BY <1>1, <1>2, <1>3, <1>4, <1>5, <1>6, EmitCases, AcceptEffects

\* No record is torn: its bytes stay together, whatever the descriptor takes
\* of each call and however the threads are scheduled.
THEOREM RecordsStayTogether == Spec => []NoInterleaving
<1>1. TypeOK /\ LockInv /\ [Next]_vars => LockInv'
  BY LockInvEmit DEF Next, vars, LockInv
<1>2. TypeOK /\ LockInv /\ BlockInv /\ [Next]_vars => BlockInv'
  BY BlockInvEmit DEF Next, vars, BlockInv, Base, Held, NoInterleaving
<1>3. BlockInv => NoInterleaving
  BY DEF BlockInv
<1> QED
  BY <1>1, <1>2, <1>3, LockInvInit, BlockInvInit, TypeCorrect, PTL DEF Spec

(***************************************************************************)
(* Damage                                                                  *)
(***************************************************************************)

\* The records that are finished and not whole.
Spoiled == {r \in Record : pc[r] = "done" /\ ~Intact(r)}

\* The record that is written, or the next one, does not begin a line.
Dirty == Base > 0 /\ stream[Base] # Newline

DamageInv ==
    Cardinality(Spoiled) + (IF Dirty THEN 1 ELSE 0) <= 2 * Cardinality(failed)

(***************************************************************************)
(* A whole line of a sequence of bytes, position by position.              *)
(***************************************************************************)
HasWhole(s, r) ==
    \E p \in 1 .. Len(s) :
        /\ p = 1 \/ s[p - 1] = Newline
        /\ p + Bytes[r] <= Len(s) /\ s[p + Bytes[r]] = Newline
        /\ \A b \in p .. p + Bytes[r] - 1 : s[b] = r

LEMMA WholeByPositions ==
    ASSUME NEW s \in Seq(Record \cup {Newline}), NEW r \in Record
    PROVE  HasWhole(s, r) <=>
             \E p \in {1} \cup {q + 1 : q \in {x \in 1 .. Len(s) : s[x] = Newline}} :
                 /\ p + Bytes[r] \in {x \in 1 .. Len(s) : s[x] = Newline}
                 /\ SubSeq(s, p, p + Bytes[r] - 1) = [b \in 1 .. Bytes[r] |-> r]
<1> DEFINE Ends == {x \in 1 .. Len(s) : s[x] = Newline}
           Starts == {1} \cup {q + 1 : q \in Ends}
           line == [b \in 1 .. Bytes[r] |-> r]
<1>1. Len(s) \in Nat /\ Bytes[r] \in Nat \ {0}
  BY BytesAssumption
<1>2. ASSUME NEW p \in Nat \ {0}, p + Bytes[r] <= Len(s)
      PROVE  SubSeq(s, p, p + Bytes[r] - 1) = line
               <=> \A b \in p .. p + Bytes[r] - 1 : s[b] = r
  <2> DEFINE last == p + Bytes[r] - 1
             part == SubSeq(s, p, last)
  <2>1. p \in Int /\ last \in Int /\ p <= last /\ last - p + 1 = Bytes[r]
    BY <1>1
  <2>2. \A b \in p .. last : s[b] \in Record \cup {Newline}
    BY <1>1, <1>2
  <2>3. /\ part \in Seq(Record \cup {Newline}) /\ Len(part) = Bytes[r]
        /\ \A b \in 1 .. Bytes[r] : part[b] = s[p + b - 1]
    <3> HIDE DEF last
    <3> QED
      BY <2>1, <2>2, SubSeqProperties
  <2>4. line \in Seq(Record \cup {Newline}) /\ Len(line) = Bytes[r]
        /\ \A b \in 1 .. Bytes[r] : line[b] = r
    BY <1>1
  <2> HIDE DEF part, line
  <2>5. part = line <=> \A b \in 1 .. Bytes[r] : s[p + b - 1] = r
    BY <2>3, <2>4, SeqEqual
  <2>6. (\A b \in 1 .. Bytes[r] : s[p + b - 1] = r)
          <=> \A b \in p .. p + Bytes[r] - 1 : s[b] = r
    <3>1. ASSUME \A b \in 1 .. Bytes[r] : s[p + b - 1] = r,
                 NEW b \in p .. p + Bytes[r] - 1
          PROVE  s[b] = r
      <4>1. b - p + 1 \in 1 .. Bytes[r] /\ p + (b - p + 1) - 1 = b
        BY <1>1
      <4> QED
        BY <3>1, <4>1
    <3>2. ASSUME \A b \in p .. p + Bytes[r] - 1 : s[b] = r,
                 NEW b \in 1 .. Bytes[r]
          PROVE  s[p + b - 1] = r
      <4>1. p + b - 1 \in p .. p + Bytes[r] - 1
        BY <1>1
      <4> QED
        BY <3>2, <4>1
    <3> QED
      BY <3>1, <3>2
  <2> QED
    BY <2>5, <2>6 DEF part, line
<1>3. ASSUME HasWhole(s, r)
      PROVE  \E p \in Starts : p + Bytes[r] \in Ends
                                 /\ SubSeq(s, p, p + Bytes[r] - 1) = line
  <2>1. PICK p \in 1 .. Len(s) :
           /\ p = 1 \/ s[p - 1] = Newline
           /\ p + Bytes[r] <= Len(s) /\ s[p + Bytes[r]] = Newline
           /\ \A b \in p .. p + Bytes[r] - 1 : s[b] = r
    BY <1>3 DEF HasWhole
  <2>2. p \in Starts
    <3>1. CASE p = 1
      BY <3>1
    <3>2. CASE p # 1
      <4>1. p - 1 \in Ends /\ p = (p - 1) + 1
        BY <1>1, <2>1, <3>2
      <4> QED
        BY <4>1
    <3> QED
      BY <3>1, <3>2
  <2>3. p + Bytes[r] \in Ends
    BY <1>1, <2>1
  <2>4. SubSeq(s, p, p + Bytes[r] - 1) = line
    <3>1. p \in Nat \ {0}
      OBVIOUS
    <3> HIDE DEF line
    <3> QED
      BY <1>2, <2>1, <3>1
  <2> QED
    BY <2>2, <2>3, <2>4
<1>4. ASSUME NEW p \in Starts, p + Bytes[r] \in Ends,
             SubSeq(s, p, p + Bytes[r] - 1) = line
      PROVE  HasWhole(s, r)
  <2>1. p \in Nat \ {0} /\ (p = 1 \/ s[p - 1] = Newline)
    BY <1>1
  <2>2. p + Bytes[r] <= Len(s) /\ s[p + Bytes[r]] = Newline /\ p \in 1 .. Len(s)
    BY <1>1, <1>4, <2>1
  <2> QED
    BY <1>2, <1>4, <2>1, <2>2 DEF HasWhole
<1> QED
  BY <1>3, <1>4

\* A whole line stays whole when more bytes follow.
LEMMA WholeStays ==
    ASSUME NEW s \in Seq(Record \cup {Newline}), NEW t \in Seq(Record \cup {Newline}),
           Len(s) <= Len(t), \A p \in 1 .. Len(s) : t[p] = s[p],
           NEW r \in Record, HasWhole(s, r)
    PROVE  HasWhole(t, r)
<1>1. Len(s) \in Nat /\ Len(t) \in Nat /\ Bytes[r] \in Nat \ {0}
  BY BytesAssumption
<1>2. PICK p \in 1 .. Len(s) :
         /\ p = 1 \/ s[p - 1] = Newline
         /\ p + Bytes[r] <= Len(s) /\ s[p + Bytes[r]] = Newline
         /\ \A b \in p .. p + Bytes[r] - 1 : s[b] = r
  BY DEF HasWhole
<1>3. p = 1 \/ t[p - 1] = Newline
  BY <1>1, <1>2
<1>4. p \in 1 .. Len(t) /\ p + Bytes[r] <= Len(t) /\ t[p + Bytes[r]] = Newline
  BY <1>1, <1>2
<1>5. ASSUME NEW b \in p .. p + Bytes[r] - 1 PROVE t[b] = r
  <2>1. b \in 1 .. Len(s) /\ s[b] = r
    BY <1>1, <1>2
  <2> QED
    BY <2>1
<1> QED
  BY <1>3, <1>4, <1>5 DEF HasWhole

LEMMA IntactIsWhole ==
    ASSUME TypeOK, NEW r \in Record
    PROVE  Intact(r) <=> HasWhole(stream, r)
<1>1. stream \in Seq(Record \cup {Newline})
  BY DEF TypeOK
<1> QED
  BY <1>1, WholeByPositions DEF Intact, LineStarts, LineEnds

LEMMA IntactIsWholePrime ==
    ASSUME TypeOK', NEW r \in Record
    PROVE  Intact(r)' <=> HasWhole(stream', r)
<1>1. stream' \in Seq(Record \cup {Newline})
  BY DEF TypeOK
<1> QED
  BY <1>1, WholeByPositions DEF Intact, LineStarts, LineEnds

(***************************************************************************)
(* A give-up costs at most two records: its own, and the one that is glued *)
(* to what it left.  DamageInv counts the second one from the moment the   *)
(* stream is left without a newline.                                       *)
(***************************************************************************)

LEMMA FiniteRecords ==
    ASSUME NEW S \in SUBSET Record
    PROVE  IsFiniteSet(S) /\ Cardinality(S) \in Nat
BY RecordAssumption, FS_Subset, FS_CardinalityType

LEMMA DamageCounts ==
    ASSUME TypeOK
    PROVE  /\ IsFiniteSet(Spoiled) /\ Cardinality(Spoiled) \in Nat
           /\ IsFiniteSet(Spoiled') /\ Cardinality(Spoiled') \in Nat
           /\ IsFiniteSet(failed) /\ Cardinality(failed) \in Nat
<1>1. Spoiled \in SUBSET Record /\ Spoiled' \in SUBSET Record /\ failed \in SUBSET Record
  BY DEF Spoiled, TypeOK
<1> QED
  BY <1>1, FiniteRecords

LEMMA OneMore ==
    ASSUME NEW S, IsFiniteSet(S), NEW x, NEW T, T \subseteq S \cup {x}
    PROVE  Cardinality(T) <= Cardinality(S) + 1
<1>1. /\ IsFiniteSet(S \cup {x}) /\ Cardinality(S \cup {x}) \in Nat
      /\ Cardinality(S) \in Nat
  BY FS_AddElement, FS_CardinalityType
<1>2. Cardinality(S \cup {x}) = Cardinality(S) \/ Cardinality(S \cup {x}) = Cardinality(S) + 1
  BY FS_AddElement
<1>3. Cardinality(T) <= Cardinality(S \cup {x})
  BY <1>1, FS_Subset
<1>4. IsFiniteSet(T)
  BY <1>1, FS_Subset
<1>5. Cardinality(T) \in Nat
  BY <1>4, FS_CardinalityType
<1> QED
  BY <1>1, <1>2, <1>3, <1>5

\* The stream only grows, so a record that is whole stays whole.
LEMMA IntactStays ==
    ASSUME TypeOK, TypeOK', NEW r \in Record, Intact(r), Len(stream) <= Len(stream'),
           \A p \in 1 .. Len(stream) : stream'[p] = stream[p]
    PROVE  Intact(r)'
BY IntactIsWhole, IntactIsWholePrime, WholeStays DEF TypeOK

LEMMA StreamGrows ==
    ASSUME TypeOK, LockInv, NEW r \in Record, Emit(r)
    PROVE  /\ Len(stream) <= Len(stream')
           /\ \A p \in 1 .. Len(stream) : stream'[p] = stream[p]
<1>1. stream \in Seq(Record \cup {Newline}) /\ Len(stream) \in Nat
  BY DEF TypeOK
<1>2. ASSUME stream' = stream PROVE Len(stream) <= Len(stream')
  BY <1>1, <1>2
<1>3. CASE Accept(r)
  <2>1. PICK n \in Nat \ {0} : stream' = stream \o [b \in 1 .. n |-> Byte(r)]
    BY <1>3, AcceptCases DEF Took
  <2> QED
    BY <1>1, <2>1, TargetType, AppendedBytes
<1>4. CASE ~Accept(r)
  BY <1>2, <1>4, EmitCases DEF Lock, GiveUp
<1> QED
  BY <1>3, <1>4

\* A step that ends no call and moves no block does no damage.
LEMMA NoDamage ==
    ASSUME TypeOK, TypeOK', LockInv, DamageInv, NEW r \in Record, Emit(r),
           failed' = failed, Dirty' => Dirty,
           \A o \in Record : pc'[o] = "done" => pc[o] = "done" \/ Intact(o)'
    PROVE  DamageInv'
<1>1. Spoiled' \subseteq Spoiled
  BY StreamGrows, IntactStays DEF Spoiled
<1>2. Cardinality(Spoiled') <= Cardinality(Spoiled)
  BY <1>1, DamageCounts, FS_Subset
<1> QED
  BY <1>2, DamageCounts DEF DamageInv

\* A record that is written from the start of a line is whole in the end.
LEMMA CleanIsWhole ==
    ASSUME TypeOK, TypeOK', LockInv, BlockInv, NEW r \in Record, lock = r,
           TookNewline(r), ~Dirty
    PROVE  Intact(r)'
<1>1. /\ Len(stream) \in Nat /\ Len(stream') = Len(stream) + 1
      /\ \A p \in 1 .. Len(stream) : stream'[p] = stream[p]
      /\ stream'[Len(stream) + 1] = Newline
  <2>1. stream \in Seq(Record \cup {Newline}) /\ Newline \in Record \cup {Newline}
    BY DEF TypeOK
  <2>2. /\ Len(stream') = Len(stream) + 1
        /\ \A p \in 1 .. Len(stream) : stream'[p] = stream[p]
        /\ \A p \in Len(stream) + 1 .. Len(stream) + 1 : stream'[p] = Newline
    BY <2>1, AppendedBytes DEF TookNewline
  <2> QED
    BY <2>1, <2>2
<1>2. Bytes[r] \in Nat \ {0}
  BY BytesAssumption
<1>3. Base = Len(stream) - Bytes[r] /\ Base \in 0 .. Len(stream)
  BY NamesAssumption DEF BlockInv, Base, Held, TookNewline
<1> DEFINE p == Base + 1
<1>4. p \in 1 .. Len(stream') /\ p + Bytes[r] = Len(stream')
  BY <1>1, <1>2, <1>3
<1>5. p = 1 \/ stream'[p - 1] = Newline
  <2>1. CASE Base = 0
    BY <2>1
  <2>2. CASE Base # 0
    <3>1. Base \in 1 .. Len(stream) /\ stream[Base] = Newline
      BY <1>1, <1>3, <2>2 DEF Dirty
    <3>2. p - 1 = Base
      BY <1>3
    <3> QED
      BY <1>1, <3>1, <3>2
  <2> QED
    BY <2>1, <2>2
<1>6. ASSUME NEW b \in p .. p + Bytes[r] - 1 PROVE stream'[b] = r
  <2>1. b \in 1 .. Len(stream) /\ b > Base
    BY <1>1, <1>2, <1>3, <1>4
  <2> QED
    BY <1>1, <2>1 DEF BlockInv
<1> HIDE DEF p
<1>7. HasWhole(stream', r)
  BY <1>1, <1>4, <1>5, <1>6 DEF HasWhole
<1> QED
  BY <1>7, IntactIsWholePrime

LEMMA DamageInvInit == Init => DamageInv
<1> SUFFICES ASSUME Init PROVE DamageInv
  OBVIOUS
<1>1. Spoiled = {} /\ failed = {}
  BY DEF Init, Spoiled
<1>2. ~Dirty
  BY DEF Init, Dirty, Base
<1> QED
  BY <1>1, <1>2, FS_EmptySet DEF DamageInv

LEMMA DamageInvEmit ==
    ASSUME TypeOK, TypeOK', LockInv, BlockInv, DamageInv, NEW r \in Record, Emit(r)
    PROVE  DamageInv'
<1>0. Len(stream) \in Nat /\ r # Nobody /\ Base \in 0 .. Len(stream)
  BY NamesAssumption DEF TypeOK, BlockInv
<1>1. CASE Lock(r)
  <2>1. /\ lock = Nobody /\ lock' = r /\ stream' = stream /\ failed' = failed
        /\ pc' = [pc EXCEPT ![r] = "payload"]
        /\ done_bytes' = [done_bytes EXCEPT ![r] = 0]
    BY <1>1 DEF Lock, Enter
  <2>2. Base' = Base
    BY <1>0, <2>1 DEF Base, Held, TypeOK
  <2>3. Dirty' <=> Dirty
    BY <2>1, <2>2 DEF Dirty
  <2>4. \A o \in Record : pc'[o] = "done" => pc[o] = "done"
    BY <2>1 DEF TypeOK
  <2> QED
    BY <2>1, <2>3, <2>4, NoDamage
<1>2. ASSUME NEW n \in Nat \ {0}, lock = r, TookPart(r, n) \/ TookLast(r, n)
      PROVE  DamageInv'
  <2>1. Base' = Base
    BY <1>2, BaseStays
  <2>2. Base \in 1 .. Len(stream) => stream'[Base] = stream[Base]
    BY StreamGrows
  <2>3. Dirty' => Dirty
    BY <1>0, <2>1, <2>2 DEF Dirty
  <2>4. \A o \in Record : pc'[o] = "done" => pc[o] = "done"
    BY <1>2 DEF TypeOK, TookPart, TookLast
  <2>5. failed' = failed
    BY <1>2 DEF TookPart, TookLast
  <2> QED
    BY <2>3, <2>4, <2>5, NoDamage
<1>3. ASSUME lock = r, TookNewline(r) PROVE DamageInv'
  <2>1. /\ lock' = Nobody /\ failed' = failed
        /\ \A o \in Record : pc'[o] = "done" => pc[o] = "done" \/ o = r
    BY <1>3 DEF TookNewline, TypeOK
  <2>2. ~Dirty'
    <3>1. stream \in Seq(Record \cup {Newline}) /\ Newline \in Record \cup {Newline}
      BY DEF TypeOK
    <3>2. /\ Len(stream') = Len(stream) + 1
          /\ \A p \in Len(stream) + 1 .. Len(stream) + 1 : stream'[p] = Newline
      BY <1>3, <3>1, AppendedBytes DEF TookNewline
    <3>3. stream'[Len(stream')] = Newline
      BY <1>0, <3>2
    <3>4. Base' = Len(stream')
      BY <2>1 DEF Base
    <3> QED
      BY <3>3, <3>4 DEF Dirty
  <2>3. CASE ~Dirty
    <3>1. Intact(r)'
      BY <1>3, <2>3, CleanIsWhole
    <3> QED
      BY <2>1, <2>2, <3>1, NoDamage
  <2>4. CASE Dirty
    <3>1. Spoiled' \subseteq Spoiled \cup {r}
      BY <2>1, StreamGrows, IntactStays DEF Spoiled
    <3>2. Cardinality(Spoiled') <= Cardinality(Spoiled) + 1
      BY <3>1, DamageCounts, OneMore
    <3> QED
      BY <2>1, <2>2, <2>4, <3>2, DamageCounts DEF DamageInv
  <2> QED
    BY <2>3, <2>4
<1>4. CASE Writing(r) /\ GiveUp(r)
  <2>1. /\ pc[r] \in {"payload", "newline"} /\ failed' = failed \cup {r}
        /\ \A o \in Record : pc'[o] = "done" => pc[o] = "done" \/ o = r
    BY <1>4 DEF Writing, GiveUp, Leave, Enter, TypeOK
  <2>2. r \notin failed
    BY <2>1 DEF LockInv
  <2>3. Cardinality(failed') = Cardinality(failed) + 1
    BY <2>1, <2>2, DamageCounts, FS_AddElement
  <2>4. Spoiled' \subseteq Spoiled \cup {r}
    BY <2>1, StreamGrows, IntactStays DEF Spoiled
  <2>5. Cardinality(Spoiled') <= Cardinality(Spoiled) + 1
    BY <2>4, DamageCounts, OneMore
  <2> QED
    BY <2>3, <2>5, DamageCounts DEF DamageInv
<1>5. CASE UNCHANGED <<lock, pc, done_bytes, failed, stream>>
  <2>1. Dirty' <=> Dirty
    BY <1>5 DEF Dirty, Base, Held
  <2> QED
    BY <1>5, <2>1, NoDamage
<1> QED
  BY <1>1, <1>2, <1>3, <1>4, <1>5, EmitCases, AcceptEffects

\* Each record that is given up spoils at most itself and the record written
\* next, however many threads report and however the calls are cut.
THEOREM DamageBounded == Spec => []DamageIsContained
<1>1. TypeOK /\ LockInv /\ [Next]_vars => LockInv'
  BY LockInvEmit DEF Next, vars, LockInv
<1>2. TypeOK /\ LockInv /\ BlockInv /\ [Next]_vars => BlockInv'
  BY BlockInvEmit DEF Next, vars, BlockInv, Base, Held, NoInterleaving
<1>3. TypeOK /\ TypeOK' /\ LockInv /\ BlockInv /\ DamageInv /\ [Next]_vars => DamageInv'
  BY DamageInvEmit
     DEF Next, vars, DamageInv, Spoiled, Intact, LineStarts, LineEnds, Dirty, Base, Held
<1>4. TypeOK /\ DamageInv => DamageIsContained
  <2> SUFFICES ASSUME TypeOK, DamageInv PROVE DamageIsContained
    OBVIOUS
  <2>1. Spoiled = {r \in Record : pc[r] = "done" /\ ~Intact(r)}
    BY DEF Spoiled
  <2> QED
    BY <2>1, DamageCounts DEF DamageInv, DamageIsContained
<1> QED
  BY <1>1, <1>2, <1>3, <1>4, LockInvInit, BlockInvInit, DamageInvInit, TypeCorrect, PTL
     DEF Spec
=============================================================================
