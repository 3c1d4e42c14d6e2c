------------------------------ MODULE MCReport ------------------------------
(***************************************************************************)
(* Small report streams for ReportStream.                                  *)
(***************************************************************************)
EXTENDS ReportStream, TLC

CONSTANTS r1, r2, r3

BytesOfThree == r1 :> 2 @@ r2 :> 1 @@ r3 :> 2
BytesOfTwo   == r1 :> 2 @@ r2 :> 1
=============================================================================
