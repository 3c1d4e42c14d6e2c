------------------------------ MODULE MCBatch ------------------------------
(***************************************************************************)
(* Small directories for BatchConvert.                                     *)
(***************************************************************************)
EXTENDS BatchConvert, TLC

CONSTANTS a, b, c

\* a.jpg, b.jpg, c.jpg: one output file each; b is encoded in one write.
SizeDistinct == a :> 2 @@ b :> 1 @@ c :> 2
StemDistinct == a :> "a" @@ b :> "b" @@ c :> "c"

\* a.jpg and a.jpeg (here b), which share a.webp.
SizeOfTwo     == a :> 2 @@ b :> 1
StemOfTwoSame == a :> "a" @@ b :> "a"
=============================================================================
