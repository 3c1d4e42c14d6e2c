----------------------------- MODULE SingleFile -----------------------------
(***************************************************************************)
(* Single-file mode: `run_single_file` of src/main.rs, from the parsed     *)
(* command line to the exit code, and the report it emits.                 *)
(*                                                                         *)
(* One thread: stdin is read to its end, the picture is converted in       *)
(* memory (ImagePipeline models that part), the encoded bytes are written  *)
(* to stdout and flushed, and one report goes to the report stream.  Every *)
(* call can fail; standard output is buffered, so that a failing flush can *)
(* still lose bytes that write_all accepted.                               *)
(***************************************************************************)
EXTENDS Codecs, JsonText

CONSTANTS
    Chunks,          \* writes the encoded picture takes
    MAX_STDIN_BYTES,
    Quality,         \* values of --quality, DefaultQuality among them
    DefaultQuality,
    JpegOptions,     \* values of the MozJPEG flags, DefaultJpeg among them
    DefaultJpeg,
    InputSizes,      \* bound: lengths of stdin considered
    Messages         \* bound: the messages of the libraries considered

ASSUME ChunksAssumption  == Chunks \in Nat \ {0}
ASSUME LimitAssumption   == MAX_STDIN_BYTES \in Nat /\ InputSizes \subseteq Nat
ASSUME DefaultAssumption == DefaultQuality \in Quality /\ DefaultJpeg \in JpegOptions
\* A message is a sequence of code points.
ASSUME MessagesAssumption == Messages \subseteq Seq(Nat)

VARIABLES
    cli,         \* the command line
    stdin,       \* length of standard input
    stage,       \* what run_single_file does next
    params,      \* the Params in force
    encoded_with,\* the parameters the encoder was given, as far as it uses them
    in_bytes,    \* bytes of stdin in memory
    buffered,    \* chunks handed to stdout's buffer
    stdout,      \* chunks the consumer of stdout has
    reports,     \* the reports emitted
    exit         \* exit code, NoExit while running, Aborted after a panic

vars == <<cli, stdin, stage, params, encoded_with, in_bytes, buffered,
          stdout, reports, exit>>
asked == <<cli, stdin>>

NoExit  == -1
Aborted == 134           \* what a shell shows for SIGABRT

DefaultParams == [quality |-> DefaultQuality, jpeg |-> DefaultJpeg]

Cli == [input : Format, output : Format, quality : Quality, jpeg : JpegOptions,
        json : BOOLEAN, report_fd : {"stderr", "other"}]

codec   == <<cli.input, cli.output>>
Nothing == [quality |-> {}, jpeg |-> {}]

Init ==
    /\ cli \in Cli
    /\ stdin \in InputSizes
    /\ stage = "formats" /\ params = DefaultParams /\ encoded_with = Nothing
    /\ in_bytes = 0 /\ buffered = 0 /\ stdout = 0
    /\ reports = << >> /\ exit = NoExit

\* The fields of a report that later steps or consumers tell apart.  dims says
\* which dimensions it shows; a JSON block that is null is a length of 0.  The
\* message stands as it is in a key=value line, and as a literal in JSON.
Report(status, kind, message, in, out, dims) ==
    [status |-> status, kind |-> kind, message |-> message,
     text |-> IF cli.json THEN WriteJsonString(message) ELSE message,
     in_bytes |-> in, out_bytes |-> out, dims |-> IF cli.json THEN dims ELSE {},
     quality |-> params.quality, delivered |-> TRUE]

Success(in, out) == Report("ok", "none", << >>, in, out, {"input", "output"})

\* Mutant of Finish: the report of a failure is emitted on stderr as well.
FinishTwice(report, code) ==
    /\ stage' = "exit"
    /\ reports' = reports \o (IF code = 0 THEN <<report>> ELSE <<report, report>>)
    /\ exit' = code
\* Emit the report, then return the code.  A report line that cannot be
\* written is dropped on another fd; on fd 2 eprintln! panics (abort).
Finish(report, code) ==
    /\ stage' = "exit"
    /\ \/ /\ reports' = Append(reports, report)
          /\ exit' = code
       \/ /\ cli.report_fd = "other"
          /\ reports' = Append(reports, [report EXCEPT !.delivered = FALSE])
          /\ exit' = code
       \/ /\ cli.report_fd = "stderr"
          /\ UNCHANGED reports
          /\ exit' = Aborted

\* A failure, with what the failing call says, ends with code 1.
Failure(kind, in, out, dims) ==
    \E message \in Messages :
        Finish(Report("err", kind, message, in, out, dims), 1)

\* The codec dispatch.  Its two refusals report the default parameters.
CheckFormats ==
    /\ stage = "formats"
    /\ IF codec \notin CodecImpl
         THEN /\ Finish(Report("err", "io", << >>, 0, 0, {}), 2)
              /\ UNCHANGED <<asked, params, encoded_with, in_bytes, buffered, stdout>>
         ELSE /\ params' = [quality |-> cli.quality, jpeg |-> cli.jpeg]
              /\ stage' = "read"
              /\ UNCHANGED <<asked, encoded_with, in_bytes, buffered, stdout,
                             reports, exit>>

\* Mutant of ReadStdin: all of stdin is read before its length is checked.
ReadStdinWhole ==
    /\ stage = "read"
    /\ in_bytes' = stdin
    /\ IF stdin > MAX_STDIN_BYTES
         THEN Failure("io", MAX_STDIN_BYTES, 0, {})
         ELSE stage' = "decode" /\ UNCHANGED <<reports, exit>>
    /\ UNCHANGED <<asked, params, encoded_with, buffered, stdout>>
\* stdin().take(MAX + 1).read_to_end.  A payload above the limit is reported
\* with the limit as its length.
ReadStdin ==
    /\ stage = "read"
    /\ \/ /\ Failure("io", 0, 0, {})
          /\ UNCHANGED in_bytes
       \/ /\ stdin > MAX_STDIN_BYTES
          /\ in_bytes' = MAX_STDIN_BYTES + 1
          /\ Failure("io", MAX_STDIN_BYTES, 0, {})
       \/ /\ stdin <= MAX_STDIN_BYTES
          /\ in_bytes' = stdin
          /\ stage' = "decode"
          /\ UNCHANGED <<reports, exit>>
    /\ UNCHANGED <<asked, params, encoded_with, buffered, stdout>>

\* decode_bytes: an empty input is no picture.
Decode ==
    /\ stage = "decode"
    /\ \/ /\ in_bytes > 0
          /\ stage' = "dimensions"
          /\ UNCHANGED <<reports, exit>>
       \/ Failure("decode", in_bytes, 0, {})
    /\ UNCHANGED <<asked, params, encoded_with, in_bytes, buffered, stdout>>

CheckDimensions ==
    /\ stage = "dimensions"
    /\ \/ /\ stage' = "encode"
          /\ UNCHANGED <<reports, exit>>
       \/ Failure("decode", in_bytes, 0, {"input"})
    /\ UNCHANGED <<asked, params, encoded_with, in_bytes, buffered, stdout>>

\* What an encoder does instead of returning bytes: an error is reported as
\* Encode, a panic ends the process.
EncoderFails ==
    \/ EncoderFailures(codec) # {"panic"} /\ Failure("encode", in_bytes, 0, {"input"})
    \/ /\ "panic" \in EncoderFailures(codec)
       /\ stage' = "exit" /\ exit' = Aborted /\ UNCHANGED reports

\* Mutants of Encode: the encoder writes to stdout as it goes; it gets the
\* default quality.
EncodeStreams ==
    /\ stage = "encode"
    /\ stdout' \in 0 .. Chunks
    /\ encoded_with' = EncoderUses(codec, params.quality, DefaultJpeg)
    /\ \/ /\ stage' = "flush"
          /\ buffered' = Chunks
          /\ UNCHANGED <<reports, exit>>
       \/ EncoderFails /\ UNCHANGED buffered
    /\ UNCHANGED <<asked, params, in_bytes>>
EncodeDefaultQuality ==
    /\ stage = "encode"
    /\ encoded_with' = EncoderUses(codec, DefaultQuality, DefaultJpeg)
    /\ \/ stage' = "write" /\ UNCHANGED <<reports, exit>>
       \/ EncoderFails
    /\ UNCHANGED <<asked, params, in_bytes, buffered, stdout>>
\* apply_resize and codec.encode_to_vec(&resized, params.quality), which the
\* JPEG codecs call with JpegOptions::default().
Encode ==
    /\ stage = "encode"
    /\ encoded_with' = EncoderUses(codec, params.quality, DefaultJpeg)
    /\ \/ stage' = "write" /\ UNCHANGED <<reports, exit>>
       \/ EncoderFails
    /\ UNCHANGED <<asked, params, in_bytes, buffered, stdout>>

\* Mutant of WriteChunk: an error is reported with the encoded length.
WriteChunkClaimsAll ==
    /\ stage = "write"
    /\ \/ /\ buffered' = buffered + 1
          /\ stdout' \in stdout .. buffered'
          /\ stage' = IF buffered' = Chunks THEN "flush" ELSE "write"
          /\ UNCHANGED <<reports, exit>>
       \/ /\ stdout' \in stdout .. buffered
          /\ Failure("io", in_bytes, Chunks, {"input"})
          /\ UNCHANGED buffered
    /\ UNCHANGED <<asked, params, encoded_with, in_bytes>>
\* stdout.write_all, one chunk of it: the buffer keeps some of what it is
\* given and passes the rest on.  After an error out_bytes is reported as 0.
WriteChunk ==
    /\ stage = "write"
    /\ \/ /\ buffered' = buffered + 1
          /\ stdout' \in stdout .. buffered'
          /\ stage' = IF buffered' = Chunks THEN "flush" ELSE "write"
          /\ UNCHANGED <<reports, exit>>
       \/ /\ stdout' \in stdout .. buffered
          /\ Failure("io", in_bytes, 0, {"input"})
          /\ UNCHANGED buffered
    /\ UNCHANGED <<asked, params, encoded_with, in_bytes>>

\* Mutant of Flush: its result is ignored.
FlushUnchecked ==
    /\ stage = "flush"
    /\ stdout' \in stdout .. buffered
    /\ Finish(Success(in_bytes, Chunks), 0)
    /\ UNCHANGED <<asked, params, encoded_with, in_bytes, buffered>>
\* out.flush(), then the success report.
Flush ==
    /\ stage = "flush"
    /\ \/ /\ stdout' = buffered
          /\ Finish(Success(in_bytes, Chunks), 0)
       \/ /\ stdout' \in stdout .. buffered
          /\ Failure("io", in_bytes, Chunks, {"input", "output"})
    /\ UNCHANGED <<asked, params, encoded_with, in_bytes, buffered>>

Next ==
    \/ CheckFormats \/ ReadStdin \/ Decode \/ CheckDimensions
    \/ Encode \/ WriteChunk \/ Flush

Spec == Init /\ [][Next]_vars

-----------------------------------------------------------------------------
(***************************************************************************)
(* Properties                                                              *)
(***************************************************************************)

\* Type invariant.
TypeOK ==
    /\ cli \in Cli /\ stdin \in InputSizes
    /\ stage \in {"formats", "read", "decode", "dimensions", "encode", "write",
                  "flush", "exit"}
    /\ params \in [quality : Quality, jpeg : JpegOptions]
    /\ encoded_with.quality \subseteq Quality /\ encoded_with.jpeg \subseteq JpegOptions
    /\ in_bytes \in 0 .. MAX_STDIN_BYTES + 1
    /\ buffered \in 0 .. Chunks /\ stdout \in 0 .. Chunks
    /\ exit \in {NoExit, Aborted, 0, 1, 2}

\* INV-RS-3: exactly one report, whatever happens, unless a panic of the
\* WebP encoder or of the report itself aborted the process; and none before
\* the process is about to exit.
OneReport ==
    Len(reports) = IF exit \in {NoExit, Aborted} THEN 0 ELSE 1

\* Exit code 0 and a report of success go together, and both mean that the
\* consumer of stdout has the whole picture.
SuccessIsDelivered ==
    exit \in {0, 1, 2} =>
        /\ exit = 0 <=> reports[1].status = "ok"
        /\ exit = 0 => stdout = Chunks

\* Standard output stays empty unless a picture was decoded, checked and
\* encoded: an error of one of these steps never leaves bytes behind.
StdoutOnlyAfterEncode ==
    \A i \in 1 .. Len(reports) :
        reports[i].kind \in {"decode", "encode"} => stdout = 0 /\ buffered = 0

\* A report never claims more output than write_all accepted, nor more input
\* than the limit allows.  Its blocks go together: an output is shown only
\* with the input it was made of, and dimensions only with a length.
ReportNeverExceeds ==
    \A i \in 1 .. Len(reports) :
        /\ reports[i].out_bytes <= buffered
        /\ reports[i].in_bytes <= MAX_STDIN_BYTES
        /\ reports[i].out_bytes > 0 => reports[i].in_bytes > 0
        /\ "input" \in reports[i].dims => reports[i].in_bytes > 0
        /\ "output" \in reports[i].dims => reports[i].out_bytes > 0

\* The quality in a report of success is the one the picture was encoded
\* with, where the format has one, and the one the command line asked for.
ReportedQualityIsUsed ==
    \A i \in 1 .. Len(reports) :
        reports[i].status = "ok" =>
            /\ encoded_with.quality \subseteq {reports[i].quality}
            /\ reports[i].quality = cli.quality

\* INV-RS-1: whatever a library says, a JSON report stays on one line, and a
\* reader gets the message as it was (write_json_string).
MessageIsReadBack ==
    \A i \in 1 .. Len(reports) :
        cli.json => /\ \A p \in 1 .. Len(reports[i].text) : reports[i].text[p] >= 32
                    /\ ReadJsonString(reports[i].text) = reports[i].message

(***************************************************************************)
(* A claim of the documentation that the code does not keep                *)
(***************************************************************************)

\* The MozJPEG flags take effect end to end.
JpegOptionsReachEncoder ==
    stage \in {"write", "flush"} /\ cli.output = "jpg" => encoded_with.jpeg = {cli.jpeg}
=============================================================================
