-------------------------- MODULE GalleryCompress --------------------------
(***************************************************************************)
(* The program from outside: fast-image-converter, called by its own name  *)
(* or through gallery-compress, the forwarder of                           *)
(* src/bin/gallery-compress.rs.  CommandLine is the converter's start; how *)
(* its two modes end is left open here (BatchConvert and SingleFile say    *)
(* it), and either process can be killed.                                  *)
(*                                                                         *)
(* The forwarder spawns the converter with its own arguments and streams,  *)
(* waits for it, and ends with its code.                                   *)
(***************************************************************************)
EXTENDS CommandLine

CONSTANTS
    MaxForwarded,    \* bound: arguments of a call through the forwarder
    Signal           \* bound: the signals that kill a process

ASSUME SignalAssumption == Signal \subseteq 1 .. 64

VARIABLES
    forwarder,   \* what the forwarder does, "none" if there is none
    started,     \* the converter has been started
    status,      \* how it ended: << >>, <<"exit", code>> or <<"signal", n>>
    code         \* the forwarder's exit code

aliasVars == <<forwarder, started, status, code>>

AliasInit ==
    /\ Init
    /\ \/ forwarder = "none" /\ started = TRUE
       \/ forwarder = "hint" /\ started = FALSE /\ Len(args) <= MaxForwarded
    /\ status = << >> /\ code = NoExit

Running == started /\ status = << >>

\* The converter takes a step, or ends with the code its step has set.
Converter ==
    /\ Running
    /\ \/ Next /\ UNCHANGED aliasVars
       \/ /\ stage = "exited" /\ status' = <<"exit", exit>>
          /\ UNCHANGED <<vars, forwarder, started, code>>

\* run_single_file or the rest of `main` ends with 0 or 1.
ModeEnds ==
    /\ Running /\ stage \in {"batch", "single"}
    /\ status' \in {<<"exit", 0>>, <<"exit", 1>>}
    /\ UNCHANGED <<vars, forwarder, started, code>>

\* The hint on stderr, and Command::status up to the new process; a program
\* that is not found or cannot be run ends the forwarder with 127.
Spawn ==
    /\ forwarder = "hint"
    /\ \/ forwarder' = "waiting" /\ started' = TRUE /\ UNCHANGED code
       \/ forwarder' = "exited" /\ code' = 127 /\ UNCHANGED started
    /\ UNCHANGED <<vars, status>>

\* Mutant of Wait: a converter without an exit code is a failure of its own.
WaitMasksSignal ==
    /\ forwarder = "waiting" /\ status # << >>
    /\ forwarder' = "exited"
    /\ code' = IF status[1] = "exit" THEN status[2] ELSE 1
    /\ UNCHANGED <<vars, started, status>>
\* The rest of Command::status, and process::exit; a signal number has no bit
\* in common with 0x80.
Wait ==
    /\ forwarder = "waiting" /\ status # << >>
    /\ forwarder' = "exited"
    /\ code' = IF status[1] = "exit" THEN status[2] ELSE 128 + status[2]
    /\ UNCHANGED <<vars, started, status>>

\* A signal for one of the two processes, SIGABRT after a panic included.
\* (Nothing here depends on a signal for a converter called directly.)
KillConverter ==
    /\ Running /\ forwarder # "none"
    /\ \E n \in Signal : status' = <<"signal", n>>
    /\ UNCHANGED <<vars, forwarder, started, code>>
KillForwarder ==
    /\ forwarder \in {"hint", "waiting"}
    /\ forwarder' = "killed"
    /\ UNCHANGED <<vars, started, status, code>>

AliasNext ==
    \/ Converter \/ ModeEnds \/ Spawn \/ Wait \/ KillConverter \/ KillForwarder

AliasSpec == AliasInit /\ [][AliasNext]_<<vars, aliasVars>>

-----------------------------------------------------------------------------
(***************************************************************************)
(* Properties                                                              *)
(***************************************************************************)

\* The code of the forwarder tells how the conversion ended: one of the
\* converter's own codes if it exited with it, 127 if it never ran, and 128
\* with the number of the signal that killed it; and the forwarder never
\* returns while the converter is at work.
ForwarderTellsHowItEnded ==
    forwarder = "exited" =>
        /\ ~Running
        /\ code = 127 <=> ~started
        /\ \A n \in {0, 1, 2} : code = n <=> status = <<"exit", n>>
        /\ \A n \in Signal : code = 128 + n <=> status = <<"signal", n>>
=============================================================================
