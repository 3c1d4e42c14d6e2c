----------------------------- MODULE ImageStore -----------------------------
(***************************************************************************)
(* What batch mode promises about the pictures of a directory, without its *)
(* threads, system calls, failures and restarts: every picture is held by  *)
(* its source file, by its output file, or by both, at all times.  An      *)
(* output becomes complete while the source is still there; the source is  *)
(* given up only for a complete output, and never by a command that is to  *)
(* keep it; and an output is only taken back (to be written anew) while    *)
(* the source is there.                                                    *)
(***************************************************************************)
CONSTANT Image

VARIABLES
    holders,      \* holders[i]: the files that hold picture i
    keep          \* the present command keeps the sources

Init ==
    /\ holders = [i \in Image |-> {"source"}]
    /\ keep \in BOOLEAN

\* The output of i becomes complete.
Publish(i) ==
    /\ holders[i] = {"source"}
    /\ holders' = [holders EXCEPT ![i] = {"source", "output"}]

\* The source of i is deleted.
Retire(i) ==
    /\ ~keep
    /\ holders[i] = {"source", "output"}
    /\ holders' = [holders EXCEPT ![i] = {"output"}]

\* The output of i is opened for a new conversion of the same source.
Reopen(i) ==
    /\ holders[i] = {"source", "output"}
    /\ holders' = [holders EXCEPT ![i] = {"source"}]

\* A new command, which touches no file.
Command ==
    /\ keep' \in BOOLEAN
    /\ UNCHANGED holders

Next ==
    \/ \E i \in Image : (Publish(i) \/ Retire(i) \/ Reopen(i)) /\ UNCHANGED keep
    \/ Command

Spec == Init /\ [][Next]_<<holders, keep>>
=============================================================================
