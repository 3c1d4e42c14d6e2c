--------------------------- MODULE MCCommandLine ---------------------------
(***************************************************************************)
(* Command lines of up to five arguments.                                  *)
(***************************************************************************)
EXTENDS GalleryCompress, TLC

Words == {"--input-format", "webp", "--report-fd", "1", "7",
          "--resize", "none", "fit=cover", "long-edge=8",
          "-1", "--keep-source", "dir", "/dir", "--bogus"}

Dashes  == {"--input-format", "--report-fd", "--resize", "--keep-source", "--bogus"}
Numbers == "1" :> 1 @@ "7" :> 7
=============================================================================
