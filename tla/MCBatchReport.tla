--------------------------- MODULE MCBatchReport ---------------------------
(***************************************************************************)
(* A small directory with reports for BatchReport: a.jpg and a.jpeg (here  *)
(* b) share an output file, c.jpg has its own.                             *)
(***************************************************************************)
EXTENDS BatchReport, TLC

CONSTANTS a, b, c

StemShared == a :> "a" @@ b :> "a" @@ c :> "c"
SizeShared == a :> 1 @@ b :> 1 @@ c :> 1
LineLength == a :> 1 @@ b :> 1 @@ c :> 1
=============================================================================
