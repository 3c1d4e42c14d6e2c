--------------------------- MODULE ImagePipeline ---------------------------
(***************************************************************************)
(* What happens to the bytes of one picture in memory, in either mode:     *)
(* the size limit, decode, the dimension limit, resize and encode.         *)
(*   batch:  the closure of `main` and Codec::convert_one_with             *)
(*   single: run_single_file                                               *)
(* The two modes share the operations and differ in the checks between     *)
(* them and in the error kind they report.                                 *)
(***************************************************************************)
EXTENDS ResizeText, Codecs

CONSTANTS
    MAX_BYTES,        \* MAX_STDIN_BYTES = MAX_BATCH_FILE_BYTES
    MAX_DIMENSION,
    WebpLimit,        \* longest side libwebp encodes
    DefaultPolicy,    \* ResizePolicy::default()
    InputBytes,       \* bound: the input sizes considered
    InputSides,       \* bound: the sides of decoded pictures considered
    Texts             \* bound: the values of --resize considered

Absent == <<"absent">>           \* no --resize

ASSUME LimitAssumption ==
    /\ MAX_BYTES \in Nat /\ MAX_DIMENSION \in Nat /\ WebpLimit \in Nat
    /\ InputBytes \subseteq Nat /\ InputSides \subseteq Side
ASSUME DefaultAssumption == Expressible(DefaultPolicy)
ASSUME TextsAssumption == \A t \in Texts : IsText(t)

VARIABLES
    mode,        \* "batch" or "single"
    codec,
    text,        \* value of --resize, or Absent
    policy,      \* params.resize
    bytes,       \* length of the input
    stage,       \* what was done last
    input,       \* dimensions of the decoded picture
    alpha,       \* the decoded picture has an alpha channel
    output,      \* dimensions of the resized picture
    out_alpha,   \* the encoder was given one
    error        \* kind of the reported error

vars == <<mode, codec, text, policy, bytes, stage, input, alpha, output,
          out_alpha, error>>
given == <<mode, codec, text, bytes>>

Unknown == <<0, 0>>
Stages  == {"start", "parsed", "sized", "decoded", "checked", "resized",
            "encoded", "failed", "refused", "panicked"}

Init ==
    /\ mode \in {"batch", "single"}
    /\ codec \in CodecImpl
    /\ text \in Texts \cup {Absent} /\ policy = DefaultPolicy
    /\ bytes \in InputBytes
    /\ stage = "start" /\ input = Unknown /\ output = Unknown
    /\ alpha = FALSE /\ out_alpha = FALSE /\ error = "none"

\* The command line gives the policy; a text that is none ends the process
\* with code 2 (CommandLine models the arguments around it).
ParseArguments ==
    /\ stage = "start"
    /\ IF text = Absent
         THEN stage' = "parsed" /\ UNCHANGED policy
         ELSE \/ policy' \in ParseResize(text) /\ stage' = "parsed"
              \/ ParseResize(text) = {} /\ stage' = "refused" /\ UNCHANGED policy
    /\ UNCHANGED <<given, input, alpha, output, out_alpha, error>>

Reject(kind) ==
    /\ stage' = "failed" /\ error' = kind
    /\ UNCHANGED <<given, policy, input, alpha, output, out_alpha>>

\* fs::metadata and check_input_size, or stdin().take(MAX + 1).read_to_end
\* and the length of what it returned.
CheckSize ==
    /\ stage = "parsed"
    /\ \/ Reject("io")
       \/ /\ bytes <= MAX_BYTES
          /\ stage' = "sized"
          /\ UNCHANGED <<given, policy, input, alpha, output, out_alpha, error>>

\* decode / decode_bytes.  Only batch mode opens a file here.  All decoders
\* but the one for HEIC go by the content, so any input may have alpha.
Decode ==
    /\ stage = "sized"
    /\ \/ /\ \E w, h \in InputSides : input' = <<w, h>>
          /\ alpha' \in BOOLEAN
          /\ stage' = "decoded"
          /\ UNCHANGED <<given, policy, output, out_alpha, error>>
       \/ Reject("decode")
       \/ mode = "batch" /\ Reject(OpenError(codec))

\* check_dimensions of a picture.
TooLarge(d) == d[1] > MAX_DIMENSION \/ d[2] > MAX_DIMENSION

\* Only run_single_file checks the decoded picture.
CheckDimensions ==
    /\ stage = "decoded"
    /\ IF mode = "single" /\ TooLarge(input)
         THEN Reject("decode")
         ELSE /\ stage' = "checked"
              /\ UNCHANGED <<given, policy, input, alpha, output, out_alpha, error>>

ApplyResize ==
    /\ stage = "checked"
    /\ output' \in Resized(policy, input[1], input[2])
    /\ stage' = "resized"
    /\ UNCHANGED <<given, policy, input, alpha, out_alpha, error>>

\* checked_pixel_capacity, in the PNG encoders only: the dimensions, then
\* checked_mul in u32.
PixelCapacityFails(d) == TooLarge(d) \/ d[1] * d[2] > U32_MAX

\* The encoder returns bytes: of an RGBA picture or of an RGB one, which is a
\* matter of the codec and not of the picture.
Encoded ==
    /\ stage' = "encoded"
    /\ out_alpha' = EncodesAlpha(codec)
    /\ UNCHANGED <<given, policy, input, alpha, output, error>>

\* The Err of an encoder.  run_single_file reports every one as Encode, also
\* the Decode of checked_pixel_capacity.
EncoderErr(kind) == Reject(IF mode = "single" THEN "encode" ELSE kind)

\* Mutant of EncodePng: single-file mode passes the codec's error kind on.
EncodePngPassesKind ==
    IF PixelCapacityFails(output) THEN Reject("decode")
    ELSE Encoded \/ EncoderErr("encode")
EncodePng ==
    IF PixelCapacityFails(output) THEN EncoderErr("decode")
    ELSE Encoded \/ EncoderErr("encode")

EncodeJpeg == Encoded \/ EncoderErr("encode")

\* libwebp refuses a side above its limit, and the webp crate unwraps that.
EncodeWebp ==
    IF output[1] > WebpLimit \/ output[2] > WebpLimit
      THEN /\ stage' = "panicked"
           /\ UNCHANGED <<given, policy, input, alpha, output, out_alpha, error>>
      ELSE Encoded

\* encode_to_vec(_with_opts).
Encode ==
    /\ stage = "resized"
    /\ \/ codec[2] = "png"  /\ EncodePng
       \/ codec[2] = "jpg"  /\ EncodeJpeg
       \/ codec[2] = "webp" /\ EncodeWebp

Next ==
    \/ ParseArguments \/ CheckSize \/ Decode \/ CheckDimensions
    \/ ApplyResize \/ Encode

Spec == Init /\ [][Next]_vars

-----------------------------------------------------------------------------
(***************************************************************************)
(* Properties                                                              *)
(***************************************************************************)

\* Type invariant: a picture always has at least one pixel, and no policy can
\* ask for less.
TypeOK ==
    /\ mode \in {"batch", "single"} /\ codec \in CodecImpl /\ policy \in Policy
    /\ text \in Texts \cup {Absent} /\ bytes \in InputBytes /\ stage \in Stages
    /\ input \in {Unknown} \cup (InputSides \X InputSides)
    /\ output \in {Unknown} \cup (Side \X Side)
    /\ stage \in {"resized", "encoded"} => output # Unknown
    /\ alpha \in BOOLEAN /\ out_alpha \in BOOLEAN
    /\ error \in {"none", "decode", "encode", "io"}

\* The policy in force is the one --resize asks for, with its numbers in
\* their ranges: the last portrait and the last landscape of an auto text
\* count, whatever order they come in (parse_resize, parse_resize_fit).
PolicyAsAsked ==
    stage \notin {"start", "refused"} /\ text # Absent =>
        /\ AsksFor(text, policy)
        /\ policy.shape = "fit" => policy.long_edge <= LongEdgeMax

\* The resize_policy of a report, given to --resize, is read as the policy
\* that was in force (resize_policy_to_string).
ReportedPolicyReparses == ParseResize(ToText(policy)) = {policy}

IsResized == output # Unknown

\* Only cover and stretch enlarge a picture, in any dimension.
NeverEnlarged ==
    IsResized /\ ~ExactBox(policy)
        => output[1] <= input[1] /\ output[2] <= input[2]

\* A fit policy keeps its box: cover and stretch fill it exactly, contain
\* stays inside.
FitsItsBox ==
    IsResized /\ policy.shape = "fit" =>
        IF ExactBox(policy) THEN output = <<policy.long_edge, policy.long_edge>>
        ELSE output[1] <= policy.long_edge /\ output[2] <= policy.long_edge

Distance(x, y) == IF x < y THEN y - x ELSE x - y

\* The output has the shape of the input, up to half a pixel.
SameShape(in, out) ==
    2 * Distance(out[1] * in[2], out[2] * in[1])
        <= IF in[1] > in[2] THEN in[1] ELSE in[2]

\* Every policy but cover and stretch keeps the aspect ratio up to half a
\* pixel, as long as no side of the target rounds down to nothing.
AspectKept ==
    LET target == TargetDimensions(policy, input[1], input[2])
    IN IsResized /\ ~ExactBox(policy) /\ target[1] > 0 /\ target[2] > 0
         => SameShape(input, output)

\* The saturating product of target_dimensions is exact for every picture
\* whose pixels can be counted in a u32: the cap is below the side it caps.
\* (Saturation would change the shape of the target.)
TargetIsExact ==
    IsResized /\ input[1] * input[2] <= U32_MAX /\ ~ExactBox(policy) =>
        LET t == TargetDimensions(policy, input[1], input[2])
        IN \/ t = input
           \/ t[2] = (input[2] * t[1]) \div input[1]
           \/ t[1] = (input[1] * t[2]) \div input[2]

\* The truncation of the target and the rounding of the fit add up: a fit
\* into the truncated target can cost a side almost half of what it was to
\* have, and never more, where no side of the target rounds down to nothing
\* and the product does not saturate (target_dimensions, apply_resize).
TargetHalfReached ==
    LET target == TargetDimensions(policy, input[1], input[2])
    IN IsResized /\ input[1] * input[2] <= U32_MAX /\ target[1] > 0 /\ target[2] > 0
         => \A k \in {1, 2} : 2 * output[k] >= target[k]

\* A target of which a side rounds down to nothing is nowhere refused: it makes
\* a single pixel of the whole picture, for every policy but cover and stretch
\* (target_dimensions divides to 0, and img.resize scales both sides by it).
EmptyTargetIsOnePixel ==
    LET target == TargetDimensions(policy, input[1], input[2])
    IN IsResized /\ (target[1] = 0 \/ target[2] = 0) => output = <<1, 1>>

\* In single-file mode the error kind tells on which side of the resize the
\* failure was: "encode" comes after it, "decode" before it, also where the
\* PNG encoders fail with a Decode of their own (checked_pixel_capacity).
\* "io" tells nothing of the kind: a failure of standard input has it, and
\* one of standard output after the encoder, which SingleFile models.
SingleKindTellsStage ==
    mode = "single" /\ stage = "failed" =>
        /\ error = "encode" => IsResized
        /\ error = "decode" => ~IsResized

\* No policy turns a picture that libwebp can encode into one it panics on,
\* except a cover or stretch to a box above its limit.
PanicTakesHugeSide ==
    stage = "panicked" =>
        \/ input[1] > WebpLimit \/ input[2] > WebpLimit
        \/ ExactBox(policy) /\ policy.long_edge > WebpLimit

\* The alpha channel of a PNG or WebP picture is not lost on the way to a
\* format that has one (ADR-0001, PngToWebp).  An opaque picture may gain one:
\* every PNG does.
AlphaReachesOutput ==
    stage = "encoded" /\ alpha /\ codec[1] \in {"png", "webp"} /\ codec[2] # "jpg"
        => out_alpha

(***************************************************************************)
(* Claims of the documentation that the code does not keep                 *)
(***************************************************************************)

\* INV-CB-8: decoded pictures above the limit are rejected in both modes.
DimensionLimitInBothModes == stage = "encoded" => ~TooLarge(input)

\* fit=contain scales the longer side of a larger picture to long_edge, at
\* least when no side of the target rounds down to nothing.
ContainReachesLongEdge ==
    /\ IsResized /\ policy.shape = "fit" /\ policy.mode = "contain"
    /\ \A i \in {1, 2} : TargetDimensions(policy, input[1], input[2])[i] > 0
    /\ input[1] > policy.long_edge \/ input[2] > policy.long_edge
    => policy.long_edge \in {output[1], output[2]}

\* The alpha channel of a HEIC picture is preserved in WebP and PNG.
HeicAlphaSurvives ==
    stage = "encoded" /\ alpha /\ codec[1] = "heic" /\ codec[2] # "jpg" => out_alpha
=============================================================================
