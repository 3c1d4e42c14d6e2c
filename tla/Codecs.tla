------------------------------- MODULE Codecs -------------------------------
(***************************************************************************)
(* The codecs of src/format.rs: `CodecImpl`, the dispatch to it from the   *)
(* two formats of the command line, and what its nine members do not have  *)
(* in common.  A codec is the pair of its formats.                         *)
(***************************************************************************)
EXTENDS Integers

Format == {"jpg", "png", "webp", "heic"}

\* The dispatch refuses an output in heic, and a pair that is not one.
CodecImpl == {c \in Format \X (Format \ {"heic"}) : c[1] # c[2]}

AcceptedExtensions(c) ==
    CASE c[1] = "jpg"             -> {"jpg", "jpeg"}
      [] c[1] \in {"png", "webp"} -> {c[1]}
      [] c[1] = "heic"            -> {"heic"}

OutputExtension(c) == c[2]

\* The kind of the error when a file cannot be opened: fs::read of the HEIC
\* codecs has its own, ImageReader::open goes with the decoder.
OpenError(c) == IF c[1] = "heic" THEN "io" ELSE "decode"

\* Mutant of EncodesAlpha: PngToWebp goes through to_rgb8 as well.
EncodesAlphaPngOnly(c) == c[2] = "png"
\* to_rgba8 or to_rgb8.  Every PNG is written as Rgba8, also one of an opaque
\* picture; HeicToWebp, like JpegToWebp, encodes RGB.
EncodesAlpha(c) ==
    \/ c[2] = "png"
    \/ c = <<"png", "webp">>

\* What the encoders do instead of returning bytes.  Encoder::encode of the
\* webp crate unwraps its result; the PNG encoders count the pixels first.
EncoderFailures(c) ==
    CASE c[2] = "webp" -> {"panic"}
      [] c[2] = "png"  -> {"decode", "encode"}
      [] c[2] = "jpg"  -> {"encode"}

\* The parameters an encoder uses: PngEncoder none, libwebp the quality, and
\* mozjpeg both.
EncoderUses(c, quality, jpeg) ==
    [quality |-> IF c[2] = "png" THEN {} ELSE {quality},
     jpeg    |-> IF c[2] = "jpg" THEN {jpeg} ELSE {}]
=============================================================================
