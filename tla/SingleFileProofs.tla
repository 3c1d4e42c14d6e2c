-------------------------- MODULE SingleFileProofs --------------------------
(***************************************************************************)
(* Theorems about single-file mode, for every command line, every length   *)
(* of the input and of the picture, every message, and every call that     *)
(* fails.                                                                  *)
(***************************************************************************)
EXTENDS SingleFile, InductionLemmas, SequenceTheorems

(***************************************************************************)
(* Reports                                                                 *)
(***************************************************************************)

\* What a consumer can rely on in a report, once the process is about to exit
\* with a code of its own.
SoundReport(r) ==
    /\ r.status = "ok" <=> exit = 0
    /\ exit = 0 => stdout = Chunks
    /\ r.kind \in {"decode", "encode"} => stdout = 0 /\ buffered = 0
    /\ r.out_bytes <= buffered /\ r.in_bytes <= MAX_STDIN_BYTES
    /\ r.out_bytes > 0 => r.in_bytes > 0
    /\ "input" \in r.dims => r.in_bytes > 0
    /\ "output" \in r.dims => r.out_bytes > 0
    /\ r.status = "ok" => /\ encoded_with.quality \subseteq {r.quality}
                          /\ r.quality = cli.quality

\* Nothing is reported before the end, and then one report or a panic.
ReportInv ==
    IF stage = "exit"
      THEN \/ exit = Aborted /\ reports = << >>
           \/ exit \in {0, 1, 2} /\ \E r : reports = <<r>> /\ SoundReport(r)
      ELSE exit = NoExit /\ reports = << >>

\* What is known of the buffers between two steps.
StageInv ==
    /\ stage \in {"formats", "read", "decode", "dimensions", "encode"}
          => buffered = 0 /\ stdout = 0
    /\ stage = "write" => buffered < Chunks
    /\ stage = "flush" => buffered = Chunks
    /\ stdout <= buffered
    /\ stage \in {"decode", "dimensions", "encode", "write", "flush"}
          => in_bytes <= MAX_STDIN_BYTES
    /\ stage \in {"dimensions", "encode", "write", "flush"} => in_bytes > 0
    /\ stage \notin {"formats", "exit"} => params.quality = cli.quality
    /\ stage \in {"write", "flush"} => encoded_with.quality \subseteq {params.quality}

LEMMA FinishCases ==
    ASSUME NEW report, NEW c, Finish(report, c), reports = << >>
    PROVE  /\ stage' = "exit"
           /\ \/ exit' = Aborted /\ reports' = << >>
              \/ exit' = c /\ reports' = <<report>>
              \/ exit' = c /\ reports' = <<[report EXCEPT !.delivered = FALSE]>>
BY DEF Finish

\* The fields of a report, whether or not it is delivered.
LEMMA ReportFields ==
    ASSUME NEW status, NEW kind, NEW message, NEW in, NEW out, NEW dims,
           NEW r, \/ r = Report(status, kind, message, in, out, dims)
                  \/ r = [Report(status, kind, message, in, out, dims)
                            EXCEPT !.delivered = FALSE]
    PROVE  /\ r.status = status /\ r.kind = kind
           /\ r.in_bytes = in /\ r.out_bytes = out /\ r.dims \subseteq dims
           /\ r.quality = params.quality
BY DEF Report

LEMMA FailureIsSound ==
    ASSUME NEW kind, NEW in, NEW out, NEW dims, Failure(kind, in, out, dims), reports = << >>,
           in <= MAX_STDIN_BYTES, out <= buffered',
           kind \in {"decode", "encode"} => stdout' = 0 /\ buffered' = 0,
           out > 0 => in > 0,
           "input" \in dims => in > 0,
           "output" \in dims => out > 0
    PROVE  /\ stage' = "exit" /\ exit' \in {Aborted, 1} /\ ReportInv'
<1>1. PICK message \in Messages : Finish(Report("err", kind, message, in, out, dims), 1)
  BY DEF Failure
<1> DEFINE report == Report("err", kind, message, in, out, dims)
<1>2. /\ stage' = "exit"
      /\ \/ exit' = Aborted /\ reports' = << >>
         \/ exit' = 1 /\ reports' = <<report>>
         \/ exit' = 1 /\ reports' = <<[report EXCEPT !.delivered = FALSE]>>
  BY <1>1, FinishCases
<1>3. ASSUME NEW r, r = report \/ r = [report EXCEPT !.delivered = FALSE],
             exit' = 1, reports' = <<r>>
      PROVE  ReportInv'
  <2>1. /\ r.status = "err" /\ r.kind = kind
        /\ r.in_bytes = in /\ r.out_bytes = out /\ r.dims \subseteq dims
    BY <1>3, ReportFields
  <2>2. SoundReport(r)'
    BY <1>3, <2>1 DEF SoundReport
  <2> QED
    BY <1>2, <1>3, <2>2 DEF ReportInv
<1> QED
  BY <1>2, <1>3 DEF ReportInv

(***************************************************************************)
(* Type correctness                                                        *)
(***************************************************************************)

LEMMA CliType ==
    ASSUME TypeOK
    PROVE  /\ cli.quality \in Quality /\ cli.jpeg \in JpegOptions
           /\ codec[1] \in Format /\ codec[2] \in Format
           /\ stdin \in Nat
BY LimitAssumption DEF TypeOK, Cli, codec

LEMMA FailureTypes ==
    ASSUME NEW kind, NEW in, NEW out, NEW dims, Failure(kind, in, out, dims)
    PROVE  stage' = "exit" /\ exit' \in {Aborted, 1}
BY DEF Failure, Finish

LEMMA EncoderUsesType ==
    ASSUME TypeOK
    PROVE  LET used == EncoderUses(codec, params.quality, DefaultJpeg)
           IN /\ used.quality \subseteq {params.quality}
              /\ used.quality \subseteq Quality /\ used.jpeg \subseteq JpegOptions
<1>1. params.quality \in Quality
  BY DEF TypeOK
<1> QED
  BY <1>1, DefaultAssumption DEF EncoderUses

LEMMA TypeInit == Init => TypeOK
<1> SUFFICES ASSUME Init PROVE TypeOK
  OBVIOUS
<1>1. MAX_STDIN_BYTES \in Nat /\ Chunks \in Nat
  BY LimitAssumption, ChunksAssumption
<1>2. params \in [quality : Quality, jpeg : JpegOptions]
  BY DefaultAssumption DEF Init, DefaultParams
<1>3. encoded_with.quality = {} /\ encoded_with.jpeg = {}
  BY DEF Init, Nothing
<1> QED
  BY <1>1, <1>2, <1>3 DEF Init, TypeOK

LEMMA TypeNext == TypeOK /\ StageInv /\ [Next]_vars => TypeOK'
<1> SUFFICES ASSUME TypeOK, StageInv, [Next]_vars PROVE TypeOK'
  OBVIOUS
<1>0. MAX_STDIN_BYTES \in Nat /\ Chunks \in Nat \ {0} /\ stdin \in Nat
  BY LimitAssumption, ChunksAssumption, CliType
<1>1. CASE CheckFormats
  <2>1. UNCHANGED <<cli, stdin, encoded_with, in_bytes, buffered, stdout>>
    BY <1>1 DEF CheckFormats, asked
  <2>2. CASE codec \notin CodecImpl
    <3>1. params' = params /\ stage' = "exit" /\ exit' \in {Aborted, 2}
      BY <1>1, <2>2 DEF CheckFormats, Finish
    <3> QED
      BY <2>1, <3>1 DEF TypeOK
  <2>3. CASE codec \in CodecImpl
    <3>1. /\ params' = [quality |-> cli.quality, jpeg |-> cli.jpeg]
          /\ stage' = "read" /\ exit' = exit
      BY <1>1, <2>3 DEF CheckFormats
    <3> QED
      BY <2>1, <3>1, CliType DEF TypeOK
  <2> QED
    BY <2>2, <2>3
<1>2. CASE ReadStdin
  <2>1. UNCHANGED <<cli, stdin, params, encoded_with, buffered, stdout>>
    BY <1>2 DEF ReadStdin, asked
  <2>2. in_bytes' \in 0 .. MAX_STDIN_BYTES + 1
    BY <1>0, <1>2 DEF ReadStdin, TypeOK
  <2>3. \/ stage' = "exit" /\ exit' \in {Aborted, 1}
        \/ stage' = "decode" /\ exit' = exit
    BY <1>2, FailureTypes DEF ReadStdin
  <2> QED
    BY <2>1, <2>2, <2>3 DEF TypeOK
<1>3. CASE Decode \/ CheckDimensions
  <2>1. UNCHANGED <<cli, stdin, params, encoded_with, in_bytes, buffered, stdout>>
    BY <1>3 DEF Decode, CheckDimensions, asked
  <2>2. \/ stage' = "exit" /\ exit' \in {Aborted, 1}
        \/ stage' \in {"dimensions", "encode"} /\ exit' = exit
    BY <1>3, FailureTypes DEF Decode, CheckDimensions
  <2> QED
    BY <2>1, <2>2 DEF TypeOK
<1>4. CASE Encode
  <2>1. UNCHANGED <<cli, stdin, params, in_bytes, buffered, stdout>>
    BY <1>4 DEF Encode, asked
  <2>2. encoded_with'.quality \subseteq Quality /\ encoded_with'.jpeg \subseteq JpegOptions
    BY <1>4, EncoderUsesType DEF Encode
  <2>3. \/ stage' = "exit" /\ exit' \in {Aborted, 1}
        \/ stage' = "write" /\ exit' = exit
    BY <1>4, FailureTypes DEF Encode, EncoderFails
  <2> QED
    BY <2>1, <2>2, <2>3 DEF TypeOK
<1>5. CASE WriteChunk
  <2>1. UNCHANGED <<cli, stdin, params, encoded_with, in_bytes>>
    BY <1>5 DEF WriteChunk, asked
  <2>2. buffered' \in 0 .. Chunks /\ stdout' \in 0 .. Chunks
    BY <1>0, <1>5 DEF WriteChunk, StageInv, TypeOK
  <2>3. \/ stage' = "exit" /\ exit' \in {Aborted, 1}
        \/ stage' \in {"flush", "write"} /\ exit' = exit
    BY <1>5, FailureTypes DEF WriteChunk
  <2> QED
    BY <2>1, <2>2, <2>3 DEF TypeOK
<1>6. CASE Flush
  <2>1. UNCHANGED <<cli, stdin, params, encoded_with, in_bytes, buffered>>
    BY <1>6 DEF Flush, asked
  <2>2. stdout' \in 0 .. Chunks
    BY <1>0, <1>6 DEF Flush, TypeOK
  <2>3. stage' = "exit" /\ exit' \in {Aborted, 0, 1}
    BY <1>6, FailureTypes DEF Flush, Finish
  <2> QED
    BY <2>1, <2>2, <2>3 DEF TypeOK
<1>7. CASE UNCHANGED vars
  BY <1>7 DEF vars, TypeOK
<1> QED
  BY <1>1, <1>2, <1>3, <1>4, <1>5, <1>6, <1>7 DEF Next

(***************************************************************************)
(* The buffers                                                             *)
(***************************************************************************)

LEMMA StageInvInit == Init => StageInv
BY DEF Init, StageInv

LEMMA StageInvNext == TypeOK /\ StageInv /\ [Next]_vars => StageInv'
<1> SUFFICES ASSUME TypeOK, StageInv, [Next]_vars PROVE StageInv'
  OBVIOUS
<1>0. MAX_STDIN_BYTES \in Nat /\ Chunks \in Nat \ {0} /\ stdin \in Nat
  BY LimitAssumption, ChunksAssumption, CliType
<1>1. CASE CheckFormats
  BY <1>1 DEF CheckFormats, Finish, asked, StageInv
<1>2. CASE ReadStdin
  <2>1. UNCHANGED <<cli, params, encoded_with, buffered, stdout>> /\ stage = "read"
    BY <1>2 DEF ReadStdin, asked
  <2>2. \/ stage' = "exit"
        \/ stage' = "decode" /\ in_bytes' <= MAX_STDIN_BYTES
    BY <1>2, FailureTypes DEF ReadStdin
  <2> QED
    BY <2>1, <2>2 DEF StageInv
<1>3. CASE Decode
  <2>1. UNCHANGED <<cli, params, encoded_with, in_bytes, buffered, stdout>>
    BY <1>3 DEF Decode, asked
  <2>2. stage = "decode" /\ (stage' = "exit" \/ (stage' = "dimensions" /\ in_bytes > 0))
    BY <1>3, FailureTypes DEF Decode
  <2> QED
    BY <2>1, <2>2 DEF StageInv
<1>4. CASE CheckDimensions
  <2>1. UNCHANGED <<cli, params, encoded_with, in_bytes, buffered, stdout>>
    BY <1>4 DEF CheckDimensions, asked
  <2>2. stage = "dimensions" /\ stage' \in {"exit", "encode"}
    BY <1>4, FailureTypes DEF CheckDimensions
  <2> QED
    BY <2>1, <2>2 DEF StageInv
<1>5. CASE Encode
  <2>1. UNCHANGED <<cli, params, in_bytes, buffered, stdout>> /\ stage = "encode"
    BY <1>5 DEF Encode, asked
  <2>2. encoded_with'.quality \subseteq {params.quality}
    BY <1>5, EncoderUsesType DEF Encode
  <2>3. stage' \in {"exit", "write"}
    BY <1>5, FailureTypes DEF Encode, EncoderFails
  <2> QED
    BY <1>0, <2>1, <2>2, <2>3 DEF StageInv
<1>6. CASE WriteChunk
  <2>1. UNCHANGED <<cli, params, encoded_with, in_bytes>> /\ stage = "write"
    BY <1>6 DEF WriteChunk, asked
  <2>2. \/ /\ buffered' = buffered + 1 /\ stdout' <= buffered'
           /\ stage' = IF buffered' = Chunks THEN "flush" ELSE "write"
        \/ stage' = "exit" /\ stdout' <= buffered /\ buffered' = buffered
    BY <1>6, FailureTypes DEF WriteChunk
  <2>3. buffered + 1 = Chunks \/ buffered + 1 < Chunks
    BY <1>0, <2>1 DEF StageInv, TypeOK
  <2> QED
    BY <1>0, <2>1, <2>2, <2>3 DEF StageInv, TypeOK
<1>7. CASE Flush
  <2>1. stage' = "exit" /\ stdout' <= buffered /\ buffered' = buffered
    BY <1>7, FailureTypes DEF Flush, Finish, asked, TypeOK
  <2> QED
    BY <2>1 DEF StageInv
<1>8. CASE UNCHANGED vars
  BY <1>8 DEF vars, StageInv
<1> QED
  BY <1>1, <1>2, <1>3, <1>4, <1>5, <1>6, <1>7, <1>8 DEF Next

(***************************************************************************)
(* One report, and what it says                                            *)
(***************************************************************************)

\* The success report of Flush, which is emitted after the last chunk.
LEMMA SuccessIsSound ==
    ASSUME TypeOK, StageInv, reports = << >>, stage = "flush", stdout' = buffered,
           Finish(Success(in_bytes, Chunks), 0),
           UNCHANGED <<cli, params, encoded_with, in_bytes, buffered>>
    PROVE  ReportInv'
<1> DEFINE report == Report("ok", "none", << >>, in_bytes, Chunks, {"input", "output"})
<1>1. Chunks \in Nat \ {0} /\ buffered = Chunks
      /\ in_bytes \in Nat /\ in_bytes > 0 /\ in_bytes <= MAX_STDIN_BYTES
      /\ params.quality = cli.quality /\ encoded_with.quality \subseteq {params.quality}
  BY ChunksAssumption, LimitAssumption DEF StageInv, TypeOK
<1>2. /\ stage' = "exit"
      /\ \/ exit' = Aborted /\ reports' = << >>
         \/ exit' = 0 /\ reports' = <<report>>
         \/ exit' = 0 /\ reports' = <<[report EXCEPT !.delivered = FALSE]>>
  BY FinishCases DEF Success
<1>3. ASSUME NEW r, r = report \/ r = [report EXCEPT !.delivered = FALSE],
             exit' = 0, reports' = <<r>>
      PROVE  ReportInv'
  <2>1. /\ r.status = "ok" /\ r.kind = "none"
        /\ r.in_bytes = in_bytes /\ r.out_bytes = Chunks
        /\ r.quality = params.quality
    BY <1>3, ReportFields
  <2>2. SoundReport(r)'
    BY <1>1, <1>3, <2>1 DEF SoundReport
  <2> QED
    BY <1>2, <1>3, <2>2 DEF ReportInv
<1> QED
  BY <1>2, <1>3 DEF ReportInv

\* Without a step at "exit" there is one report at the most.
LEMMA RunningReports ==
    ASSUME ReportInv, stage # "exit"
    PROVE  exit = NoExit /\ reports = << >>
BY DEF ReportInv

LEMMA ReportInvInit == Init => ReportInv
BY DEF Init, ReportInv

LEMMA ReportInvNext == TypeOK /\ StageInv /\ ReportInv /\ [Next]_vars => ReportInv'
<1> SUFFICES ASSUME TypeOK, StageInv, ReportInv, [Next]_vars PROVE ReportInv'
  OBVIOUS
<1>0. /\ MAX_STDIN_BYTES \in Nat /\ Chunks \in Nat \ {0}
      /\ in_bytes \in Nat /\ buffered \in Nat
  BY LimitAssumption, ChunksAssumption DEF TypeOK
<1>1. CASE CheckFormats
  <2>1. stage = "formats" /\ reports = << >> /\ exit = NoExit
    BY <1>1, RunningReports DEF CheckFormats
  <2>2. CASE codec \notin CodecImpl
    <3> DEFINE report == Report("err", "io", << >>, 0, 0, {})
    <3>1. /\ Finish(report, 2) /\ UNCHANGED <<cli, encoded_with, buffered, stdout>>
          /\ buffered = 0 /\ stdout = 0
      BY <1>1, <2>2 DEF CheckFormats, asked, StageInv
    <3>2. /\ stage' = "exit"
          /\ \/ exit' = Aborted /\ reports' = << >>
             \/ exit' = 2 /\ reports' = <<report>>
             \/ exit' = 2 /\ reports' = <<[report EXCEPT !.delivered = FALSE]>>
      BY <2>1, <3>1, FinishCases
    <3>3. ASSUME NEW r, r = report \/ r = [report EXCEPT !.delivered = FALSE],
                 exit' = 2, reports' = <<r>>
          PROVE  ReportInv'
      <4>1. /\ r.status = "err" /\ r.kind = "io" /\ r.in_bytes = 0 /\ r.out_bytes = 0
            /\ r.dims \subseteq {}
        BY <3>3, ReportFields
      <4>2. SoundReport(r)'
        BY <1>0, <3>1, <3>3, <4>1 DEF SoundReport
      <4> QED
        BY <3>2, <3>3, <4>2 DEF ReportInv
    <3> QED
      BY <3>2, <3>3 DEF ReportInv
  <2>3. CASE codec \in CodecImpl
    BY <1>1, <2>1, <2>3 DEF CheckFormats, ReportInv
  <2> QED
    BY <2>2, <2>3
<1>2. CASE ReadStdin
  <2>1. /\ stage = "read" /\ reports = << >> /\ exit = NoExit
        /\ UNCHANGED <<buffered, stdout>>
    BY <1>2, RunningReports DEF ReadStdin
  <2>2. \/ Failure("io", 0, 0, {})
        \/ Failure("io", MAX_STDIN_BYTES, 0, {})
        \/ stage' = "decode" /\ UNCHANGED <<reports, exit>>
    BY <1>2 DEF ReadStdin
  <2> QED
    BY <1>0, <2>1, <2>2, FailureIsSound DEF ReportInv
<1>3. CASE Decode
  <2>1. /\ stage = "decode" /\ reports = << >> /\ exit = NoExit
        /\ UNCHANGED <<buffered, stdout>>
        /\ stdout = 0 /\ buffered = 0 /\ in_bytes <= MAX_STDIN_BYTES
    BY <1>3, RunningReports DEF Decode, StageInv
  <2>2. \/ Failure("decode", in_bytes, 0, {})
        \/ stage' = "dimensions" /\ UNCHANGED <<reports, exit>>
    BY <1>3 DEF Decode
  <2> QED
    BY <1>0, <2>1, <2>2, FailureIsSound DEF ReportInv
<1>4. CASE CheckDimensions
  <2>1. /\ stage = "dimensions" /\ reports = << >> /\ exit = NoExit
        /\ UNCHANGED <<buffered, stdout>>
        /\ stdout = 0 /\ buffered = 0 /\ in_bytes <= MAX_STDIN_BYTES /\ in_bytes > 0
    BY <1>4, RunningReports DEF CheckDimensions, StageInv
  <2>2. \/ Failure("decode", in_bytes, 0, {"input"})
        \/ stage' = "encode" /\ UNCHANGED <<reports, exit>>
    BY <1>4 DEF CheckDimensions
  <2> QED
    BY <1>0, <2>1, <2>2, FailureIsSound DEF ReportInv
<1>5. CASE Encode
  <2>1. /\ stage = "encode" /\ reports = << >> /\ exit = NoExit
        /\ UNCHANGED <<buffered, stdout>>
        /\ stdout = 0 /\ buffered = 0 /\ in_bytes <= MAX_STDIN_BYTES /\ in_bytes > 0
    BY <1>5, RunningReports DEF Encode, StageInv
  <2>2. \/ Failure("encode", in_bytes, 0, {"input"})
        \/ stage' = "exit" /\ exit' = Aborted /\ reports' = reports
        \/ stage' = "write" /\ UNCHANGED <<reports, exit>>
    BY <1>5 DEF Encode, EncoderFails
  <2> QED
    BY <1>0, <2>1, <2>2, FailureIsSound DEF ReportInv
<1>6. CASE WriteChunk
  <2>1. /\ stage = "write" /\ reports = << >> /\ exit = NoExit
        /\ in_bytes <= MAX_STDIN_BYTES /\ in_bytes > 0
    BY <1>6, RunningReports DEF WriteChunk, StageInv
  <2>2. \/ Failure("io", in_bytes, 0, {"input"}) /\ buffered' = buffered
        \/ stage' \in {"flush", "write"} /\ UNCHANGED <<reports, exit>>
    BY <1>6 DEF WriteChunk
  <2> QED
    BY <1>0, <2>1, <2>2, FailureIsSound DEF ReportInv
<1>7. CASE Flush
  <2>1. /\ stage = "flush" /\ reports = << >>
        /\ in_bytes <= MAX_STDIN_BYTES /\ in_bytes > 0 /\ buffered = Chunks
        /\ UNCHANGED <<cli, params, encoded_with, in_bytes, buffered>>
    BY <1>7, RunningReports DEF Flush, StageInv, asked
  <2>2. \/ stdout' = buffered /\ Finish(Success(in_bytes, Chunks), 0)
        \/ Failure("io", in_bytes, Chunks, {"input", "output"})
    BY <1>7 DEF Flush
  <2>3. CASE Failure("io", in_bytes, Chunks, {"input", "output"})
    BY <1>0, <2>1, <2>3, FailureIsSound
  <2> QED
    BY <2>1, <2>2, <2>3, SuccessIsSound
<1>8. CASE UNCHANGED vars
  <2>1. ASSUME NEW r, SoundReport(r) PROVE SoundReport(r)'
    BY <1>8, <2>1 DEF vars, SoundReport
  <2> QED
    BY <1>8, <2>1 DEF vars, ReportInv
<1> QED
  BY <1>1, <1>2, <1>3, <1>4, <1>5, <1>6, <1>7, <1>8 DEF Next

Inv == TypeOK /\ StageInv /\ ReportInv

LEMMA InvHolds == Spec => []Inv
<1>1. Init => Inv
  BY TypeInit, StageInvInit, ReportInvInit DEF Inv
<1>2. Inv /\ [Next]_vars => Inv'
  BY TypeNext, StageInvNext, ReportInvNext DEF Inv
<1> QED
  BY <1>1, <1>2, PTL DEF Spec

(***************************************************************************)
(* Theorems                                                                *)
(***************************************************************************)

\* The process never has more of the input than one byte above the limit, nor
\* more of the picture than there is.
THEOREM TypeCorrect == Spec => []TypeOK
<1>1. Inv => TypeOK
  BY DEF Inv
<1> QED
  BY <1>1, InvHolds, PTL

\* Whatever fails, there is one report, unless the process was aborted.
THEOREM ReportsOnce == Spec => []OneReport
<1>1. Inv => OneReport
  <2> SUFFICES ASSUME Inv PROVE OneReport
    OBVIOUS
  <2>1. \A r : Len(<<r>>) = 1
    OBVIOUS
  <2> QED
    BY <2>1 DEF Inv, ReportInv, OneReport, NoExit, Aborted
<1> QED
  BY <1>1, InvHolds, PTL

LEMMA OnlyReport ==
    ASSUME Inv, NEW i \in 1 .. Len(reports)
    PROVE  SoundReport(reports[i])
<1>1. reports # << >>
  OBVIOUS
<1>2. PICK r : reports = <<r>> /\ SoundReport(r)
  BY <1>1 DEF Inv, ReportInv
<1>3. i = 1 /\ reports[1] = r
  BY <1>2
<1> QED
  BY <1>2, <1>3

\* Exit code 0, a report of success and a complete picture on stdout go
\* together.
THEOREM SuccessIsComplete == Spec => []SuccessIsDelivered
<1>1. Inv => SuccessIsDelivered
  <2> SUFFICES ASSUME Inv, exit \in {0, 1, 2}
               PROVE  /\ exit = 0 <=> reports[1].status = "ok"
                      /\ exit = 0 => stdout = Chunks
    BY DEF SuccessIsDelivered
  <2>1. PICK r : reports = <<r>> /\ SoundReport(r)
    BY DEF Inv, ReportInv, NoExit, Aborted
  <2> QED
    BY <2>1 DEF SoundReport
<1> QED
  BY <1>1, InvHolds, PTL

\* A picture that is not decoded, too large or not encoded leaves no byte on
\* standard output.
THEOREM NoBytesBeforeEncode == Spec => []StdoutOnlyAfterEncode
<1>1. Inv => StdoutOnlyAfterEncode
  BY OnlyReport DEF SoundReport, StdoutOnlyAfterEncode
<1> QED
  BY <1>1, InvHolds, PTL

\* No report claims more bytes than were read within the limit or accepted by
\* the buffer of stdout, nor an output without its input.
THEOREM ReportsAreModest == Spec => []ReportNeverExceeds
<1>1. Inv => ReportNeverExceeds
  BY OnlyReport DEF SoundReport, ReportNeverExceeds
<1> QED
  BY <1>1, InvHolds, PTL

\* A success shows the quality that was asked for and encoded with.
THEOREM QualityIsTrue == Spec => []ReportedQualityIsUsed
<1>1. Inv => ReportedQualityIsUsed
  BY OnlyReport DEF SoundReport, ReportedQualityIsUsed
<1> QED
  BY <1>1, InvHolds, PTL

(***************************************************************************)
(* JSON strings: what is written is read back                              *)
(*                                                                         *)
(* The writer is FlattenSeq of the escaped characters, the reader walks    *)
(* over the line; both are recursive functions, which have to be shown to  *)
(* exist before anything is known of their values.                         *)
(***************************************************************************)

AreRead(f, line) == \A p \in 1 .. Len(line) + 1 : f[p] = ReadFrom(line, f, p)

LEMMA CharAtEnds ==
    ASSUME NEW line, Len(line) \in Nat, NEW p \in 1 .. Len(line) + 1, NEW x \in CharAt(line, p)
    PROVE  x[2] \in p + 1 .. Len(line) + 1
<1>1. p <= Len(line)
  BY DEF CharAt
<1>2. \/ x[2] = p + 1
      \/ p # Len(line) /\ x[2] = p + 2
      \/ p + 5 <= Len(line) /\ x[2] = p + 6
  BY DEF CharAt, Unicode
<1> QED
  BY <1>1, <1>2

LEMMA ReadsLaterOnly ==
    ASSUME NEW line, Len(line) \in Nat, NEW p \in 1 .. Len(line) + 1, NEW g, NEW h,
           \A q \in p + 1 .. Len(line) + 1 : g[q] = h[q]
    PROVE  ReadFrom(line, g, p) = ReadFrom(line, h, p)
<1>1. CASE CharAt(line, p) = {}
  BY <1>1 DEF ReadFrom
<1>2. CASE CharAt(line, p) # {}
  <2> DEFINE char == CHOOSE char \in CharAt(line, p) : TRUE
  <2>1. char \in CharAt(line, p)
    BY <1>2
  <2> HIDE DEF char
  <2>2. g[char[2]] = h[char[2]]
    BY <2>1, CharAtEnds
  <2> QED
    BY <2>2 DEF ReadFrom, char
<1> QED
  BY <1>1, <1>2

LEMMA ReaderExists ==
    ASSUME NEW line, Len(line) \in Nat
    PROVE  \E f : /\ AreRead(f, line)
                  /\ ReadJsonString(line) =
                        IF Len(line) > 1 /\ line[1] = Quote THEN f[2] ELSE NoString
<1> DEFINE n == Len(line)
           Of(g, k) == g = [p \in n + 1 - k .. n + 1 |-> ReadFrom(line, g, p)]
           T == {k \in 0 .. n : \E g : Of(g, k)}
           f == CHOOSE f : f = [p \in 1 .. n + 1 |-> ReadFrom(line, f, p)]
<1>1. 0 \in T
  <2>1. PICK g : g = [p \in n + 1 - 0 .. n + 1 |-> NoString]
    OBVIOUS
  <2>2. \A p \in n + 1 - 0 .. n + 1 : p = n + 1 /\ CharAt(line, p) = {}
    BY DEF CharAt
  <2>3. \A p \in n + 1 - 0 .. n + 1 : ReadFrom(line, g, p) = NoString
    BY <2>2 DEF ReadFrom
  <2>4. Of(g, 0)
    BY <2>1, <2>3
  <2> HIDE DEF Of
  <2> QED
    BY <2>4
<1>2. ASSUME NEW k \in 0 .. n, k \in T, k < n PROVE k + 1 \in T
  <2>1. PICK g : Of(g, k)
    BY <1>2
  <2> DEFINE h == [p \in n + 1 - (k + 1) .. n + 1 |-> ReadFrom(line, g, p)]
  <2>2. \A q \in n + 1 - k .. n + 1 : h[q] = g[q]
    <3>1. \A q \in n + 1 - k .. n + 1 : q \in n + 1 - (k + 1) .. n + 1
      OBVIOUS
    <3>2. \A q \in n + 1 - k .. n + 1 : g[q] = ReadFrom(line, g, q)
      BY <2>1
    <3> QED
      BY <3>1, <3>2
  <2> HIDE DEF h
  <2>3. ASSUME NEW p \in n + 1 - (k + 1) .. n + 1
        PROVE  ReadFrom(line, h, p) = ReadFrom(line, g, p)
    <3>1. p \in 1 .. n + 1
      BY <1>2
    <3>2. \A q \in p + 1 .. n + 1 : h[q] = g[q]
      BY <2>2
    <3> QED
      BY <3>1, <3>2, ReadsLaterOnly
  <2>4. Of(h, k + 1)
    BY <2>3 DEF h
  <2>5. k + 1 \in 0 .. n
    BY <1>2
  <2> HIDE DEF Of
  <2> QED
    BY <2>4, <2>5
<1>3. n \in T
  <2>1. n \in Nat
    OBVIOUS
  <2> HIDE DEF T, n
  <2>2. 0 .. n \subseteq T
    BY <1>1, <1>2, <2>1, BoundedInduction
  <2> QED
    BY <2>1, <2>2
<1>4. f = [p \in 1 .. n + 1 |-> ReadFrom(line, f, p)]
  <2>1. PICK g : g = [p \in n + 1 - n .. n + 1 |-> ReadFrom(line, g, p)]
    BY <1>3
  <2>2. n + 1 - n = 1
    OBVIOUS
  <2>3. g = [p \in 1 .. n + 1 |-> ReadFrom(line, g, p)]
    BY <2>1, <2>2
  <2> QED
    BY <2>3
<1>5. ReadJsonString(line) =
         IF Len(line) > 1 /\ line[1] = Quote THEN f[2] ELSE NoString
  BY DEF ReadJsonString
<1> HIDE DEF f
<1>6. AreRead(f, line)
  BY <1>4 DEF AreRead
<1> QED
  BY <1>5, <1>6

LEMMA HexDigitIsRead ==
    ASSUME NEW d \in 0 .. 15
    PROVE  HexValue(HexDigit(d)) = d
<1>1. CASE d < 10
  <2>1. HexDigit(d) \in 48 .. 57 /\ HexDigit(d) - 48 = d
    BY <1>1 DEF HexDigit
  <2> QED
    BY <2>1 DEF HexValue
<1>2. CASE ~(d < 10)
  <2>1. HexDigit(d) \in 97 .. 102 /\ HexDigit(d) - 87 = d
    BY <1>2 DEF HexDigit
  <2>2. HexDigit(d) \notin 48 .. 57
    BY <2>1
  <2>3. HexDigit(d) \notin 65 .. 70
    BY <2>1
  <2> QED
    BY <2>1, <2>2, <2>3 DEF HexValue
<1> QED
  BY <1>1, <1>2

\* One character: what is written of it is printable, and read back as one.
LEMMA EscapedIs ==
    ASSUME NEW c \in Nat
    PROVE  /\ Escaped(c) \in Seq(Nat)
           /\ Len(Escaped(c)) \in {1, 2, 6}
           /\ \A j \in 1 .. Len(Escaped(c)) : Escaped(c)[j] >= 32
<1>1. CASE c \in DOMAIN ShortEscape
  <2>1. ShortEscape[c] \in Nat /\ ShortEscape[c] >= 32
    BY <1>1 DEF ShortEscape
  <2>2. Escaped(c) = <<92, ShortEscape[c]>>
    BY <1>1 DEF Escaped, Backslash
  <2> QED
    BY <2>1, <2>2
<1>2. CASE c \notin DOMAIN ShortEscape /\ c < 32
  <2> DEFINE h == HexDigit(c \div 16)
             l == HexDigit(c % 16)
  <2>1. c \div 16 \in 0 .. 1 /\ c % 16 \in 0 .. 15
    BY <1>2
  <2>2. h \in Nat /\ h >= 32 /\ l \in Nat /\ l >= 32
    BY <2>1 DEF HexDigit
  <2>3. Escaped(c) = <<92, 117, 48, 48, h, l>>
    BY <1>2 DEF Escaped, Backslash, LetterU
  <2> HIDE DEF h, l
  <2> QED
    BY <2>2, <2>3
<1>3. CASE c \notin DOMAIN ShortEscape /\ ~(c < 32)
  <2>1. Escaped(c) = <<c>>
    BY <1>3 DEF Escaped
  <2> QED
    BY <1>3, <2>1
<1> QED
  BY <1>1, <1>2, <1>3

\* The character stands at p of the line, and more behind it.
StandsAt(line, c, p) ==
    /\ p + Len(Escaped(c)) <= Len(line)
    /\ \A j \in 1 .. Len(Escaped(c)) : line[p - 1 + j] = Escaped(c)[j]

LEMMA EscapedIsRead ==
    ASSUME NEW line, Len(line) \in Nat, NEW c \in Nat, NEW p \in Nat, p >= 1,
           StandsAt(line, c, p)
    PROVE  CharAt(line, p) = {<<c, p + Len(Escaped(c))>>}
<1> USE DEF StandsAt
<1>1. CASE c \in DOMAIN ShortEscape
  <2>1. Escaped(c) = <<92, ShortEscape[c]>>
    BY <1>1 DEF Escaped, Backslash
  <2>2. Len(Escaped(c)) = 2 /\ Escaped(c)[1] = 92 /\ Escaped(c)[2] = ShortEscape[c]
    BY <2>1
  <2>3. line[p - 1 + 1] = 92 /\ line[p - 1 + 2] = ShortEscape[c]
    BY <2>2
  <2>4. line[p] = 92 /\ line[p + 1] = ShortEscape[c]
    BY <2>3
  <2>5. ShortEscape[c] # 117 /\ ShortEscape[c] # 47
    BY <1>1 DEF ShortEscape
  <2>6. Unicode(line, p) = {}
    BY <2>4, <2>5 DEF Unicode, LetterU
  <2>7. Short(ShortEscape[c]) = {c}
    BY <1>1, <2>5 DEF Short, ShortEscape
  <2> QED
    BY <2>2, <2>4, <2>6, <2>7 DEF CharAt, Quote, Backslash
<1>2. CASE c \notin DOMAIN ShortEscape /\ c < 32
  <2> DEFINE h == HexDigit(c \div 16)
             l == HexDigit(c % 16)
  <2>1. c \div 16 \in 0 .. 15 /\ c % 16 \in 0 .. 15 /\ c = 16 * (c \div 16) + (c % 16)
    <3> DEFINE d == c \div 16
               r == c % 16
    <3>2. d \in Nat /\ r \in Nat /\ r < 16 /\ c = 16 * d + r
      BY DivMod
    <3> HIDE DEF d, r
    <3>3. d \in 0 .. 15 /\ r \in 0 .. 15
      BY <1>2, <3>2
    <3> QED
      BY <3>2, <3>3 DEF d, r
  <2>2. Escaped(c) = <<92, 117, 48, 48, h, l>>
    BY <1>2 DEF Escaped, Backslash, LetterU
  <2>3. HexValue(h) = c \div 16 /\ HexValue(l) = c % 16 /\ HexValue(48) = 0
    <3>1. HexDigit(0) = 48
      BY DEF HexDigit
    <3> QED
      BY <2>1, <3>1, HexDigitIsRead
  <2> HIDE DEF h, l
  <2>4. /\ Len(Escaped(c)) = 6 /\ Escaped(c)[1] = 92 /\ Escaped(c)[2] = 117
        /\ Escaped(c)[3] = 48 /\ Escaped(c)[4] = 48
        /\ Escaped(c)[5] = h /\ Escaped(c)[6] = l
    BY <2>2
  <2>5. /\ line[p - 1 + 1] = 92 /\ line[p - 1 + 2] = 117 /\ line[p - 1 + 3] = 48
        /\ line[p - 1 + 4] = 48 /\ line[p - 1 + 5] = h /\ line[p - 1 + 6] = l
    BY <2>4
  <2>6. /\ line[p] = 92 /\ line[p + 1] = 117 /\ line[p + 2] = 48
        /\ line[p + 3] = 48 /\ line[p + 4] = h /\ line[p + 5] = l
    <3>1. /\ p - 1 + 1 = p /\ p - 1 + 2 = p + 1 /\ p - 1 + 3 = p + 2
          /\ p - 1 + 4 = p + 3 /\ p - 1 + 5 = p + 4 /\ p - 1 + 6 = p + 5
      OBVIOUS
    <3> QED
      BY <2>5, <3>1
  <2>7. Unicode(line, p) = {c}
    <3> DEFINE digit == [k \in 1 .. 4 |-> HexValue(line[p + 1 + k])]
    <3>1. p + 1 + 1 = p + 2 /\ p + 1 + 2 = p + 3 /\ p + 1 + 3 = p + 4 /\ p + 1 + 4 = p + 5
      OBVIOUS
    <3>2. digit[1] = 0 /\ digit[2] = 0 /\ digit[3] = c \div 16 /\ digit[4] = c % 16
      BY <2>3, <2>6, <3>1
    <3>3. Unicode(line, p) =
             IF p + 5 > Len(line) \/ line[p + 1] # 117 \/ \E k \in 1 .. 4 : digit[k] < 0
               THEN {}
               ELSE {4096 * digit[1] + 256 * digit[2] + 16 * digit[3] + digit[4]}
      BY DEF Unicode, LetterU
    <3> HIDE DEF digit
    <3>4. ~(p + 5 > Len(line))
      BY <2>4
    <3>5. \A k \in 1 .. 4 : ~(digit[k] < 0)
      BY <2>1, <3>2
    <3>6. 4096 * digit[1] + 256 * digit[2] + 16 * digit[3] + digit[4] = c
      BY <2>1, <3>2
    <3> QED
      BY <2>6, <3>3, <3>4, <3>5, <3>6
  <2>8. Short(117) = {}
    BY DEF Short, ShortEscape
  <2>9. CharAt(line, p) =
           {<<d, p + 6>> : d \in Unicode(line, p)} \cup {<<d, p + 2>> : d \in Short(117)}
    BY <2>4, <2>6 DEF CharAt, Quote, Backslash
  <2>10. CharAt(line, p) = {<<c, p + 6>>}
    BY <2>7, <2>8, <2>9
  <2> QED
    BY <2>4, <2>10
<1>3. CASE c \notin DOMAIN ShortEscape /\ ~(c < 32)
  <2>1. Escaped(c) = <<c>>
    BY <1>3 DEF Escaped
  <2>2. Len(Escaped(c)) = 1 /\ Escaped(c)[1] = c
    BY <2>1
  <2>3. line[p - 1 + 1] = c
    BY <2>2
  <2>4. line[p] = c
    BY <2>3
  <2>5. c # 34 /\ c # 92
    BY <1>3 DEF ShortEscape
  <2> QED
    BY <1>3, <2>2, <2>4, <2>5 DEF CharAt, Quote, Backslash
<1> QED
  BY <1>1, <1>2, <1>3

\* What the writer has written after each of its rounds.
IsWriting(F, s) ==
    /\ F \in [0 .. Len(s) -> Seq(Nat)]
    /\ F[0] = << >>
    /\ \A k \in 1 .. Len(s) : F[k] = F[k - 1] \o Escaped(s[k])

LEMMA WriterExists ==
    ASSUME NEW s \in Seq(Nat)
    PROVE  \E F : /\ IsWriting(F, s)
                  /\ WriteJsonString(s) = <<Quote>> \o F[Len(s)] \o <<Quote>>
<1> DEFINE m == Len(s)
           E == [p \in 1 .. m |-> Escaped(s[p])]
           Of(g, k) == g = [p \in 1 .. k |-> IF p = 1 THEN E[p] ELSE g[p - 1] \o E[p]]
           T == {k \in 0 .. m : \E g : Of(g, k)}
           f == CHOOSE f : f = [p \in 1 .. Len(E) |-> IF p = 1 THEN E[p] ELSE f[p - 1] \o E[p]]
<1>1. m \in Nat /\ Len(E) = m
  OBVIOUS
<1>2. \A k \in 1 .. m : E[k] = Escaped(s[k]) /\ E[k] \in Seq(Nat)
  <2>1. \A k \in 1 .. m : s[k] \in Nat
    OBVIOUS
  <2> QED
    BY <2>1, EscapedIs
<1>3. FlattenSeq(E) = IF m = 0 THEN E ELSE f[m]
  <2> HIDE DEF E
  <2> QED
    BY <1>1 DEF FlattenSeq
<1>4. E = << >> <=> m = 0
  BY <1>1
<1> HIDE DEF m, E
<1>5. 0 \in T
  <2>1. PICK g : g = [p \in 1 .. 0 |-> << >>]
    OBVIOUS
  <2>2. Of(g, 0)
    BY <2>1
  <2> HIDE DEF Of
  <2> QED
    BY <1>1, <2>2
<1>6. ASSUME NEW k \in 0 .. m, k \in T, k < m PROVE k + 1 \in T
  <2>1. PICK g : Of(g, k)
    BY <1>6
  <2> DEFINE h == [p \in 1 .. k + 1 |-> IF p = 1 THEN E[p] ELSE g[p - 1] \o E[p]]
  <2>2. \A p \in 1 .. k : h[p] = g[p]
    <3>1. \A p \in 1 .. k : p \in 1 .. k + 1
      BY <1>6
    <3>2. \A p \in 1 .. k : g[p] = IF p = 1 THEN E[p] ELSE g[p - 1] \o E[p]
      BY <2>1
    <3> QED
      BY <3>1, <3>2
  <2>3. \A p \in 1 .. k + 1 : p # 1 => p - 1 \in 1 .. k
    BY <1>6
  <2>4. \A p \in 1 .. k + 1 :
           h[p] = IF p = 1 THEN E[p] ELSE h[p - 1] \o E[p]
    BY <2>2, <2>3
  <2>5. DOMAIN h = 1 .. k + 1 /\ h = [p \in 1 .. k + 1 |-> h[p]]
    OBVIOUS
  <2> HIDE DEF h
  <2>6. Of(h, k + 1)
    BY <2>4, <2>5
  <2>7. k + 1 \in 0 .. m
    BY <1>1, <1>6
  <2> HIDE DEF Of
  <2> QED
    BY <2>6, <2>7
<1>7. f = [p \in 1 .. m |-> IF p = 1 THEN E[p] ELSE f[p - 1] \o E[p]]
  <2>1. m \in T
    <3> HIDE DEF T
    <3>1. 0 .. m \subseteq T
      BY <1>1, <1>5, <1>6, BoundedInduction
    <3> QED
      BY <1>1, <3>1
  <2>2. PICK g : g = [p \in 1 .. m |-> IF p = 1 THEN E[p] ELSE g[p - 1] \o E[p]]
    BY <2>1
  <2> QED
    BY <1>1, <2>2
<1> HIDE DEF f
<1>8. /\ \A k \in 1 .. m : f[k] \in Seq(Nat)
      /\ m > 0 => f[1] = E[1]
      /\ \A k \in 1 .. m : k # 1 => f[k] = f[k - 1] \o E[k]
  <2>1. /\ m > 0 => f[1] = E[1]
        /\ \A k \in 1 .. m : k # 1 => f[k] = f[k - 1] \o E[k]
    <3>1. \A k \in 1 .. m : f[k] = IF k = 1 THEN E[k] ELSE f[k - 1] \o E[k]
      BY <1>7
    <3>2. m > 0 => 1 \in 1 .. m
      BY <1>1
    <3> QED
      BY <3>1, <3>2
  <2> DEFINE R == {k \in 0 .. m : k > 0 => f[k] \in Seq(Nat)}
  <2>2. 0 \in R
    BY <1>1
  <2>3. ASSUME NEW k \in 0 .. m, k \in R, k < m PROVE k + 1 \in R
    <3>1. PICK q \in 1 .. m : q = k + 1
      BY <1>1, <2>3
    <3>2. q - 1 = k /\ q \in 0 .. m
      BY <3>1
    <3>3. E[q] \in Seq(Nat)
      BY <1>2
    <3>4. CASE k = 0
      <4>1. q = 1 /\ m > 0
        BY <1>1, <3>1, <3>4
      <4> QED
        BY <2>1, <3>1, <3>2, <3>3, <4>1
    <3>5. CASE k # 0
      <4>1. f[k] \in Seq(Nat)
        BY <2>3, <3>5
      <4>2. f[q] = f[k] \o E[q]
        <5>1. q # 1
          BY <3>1, <3>5
        <5>2. f[q] = f[q - 1] \o E[q]
          BY <2>1, <5>1
        <5> QED
          BY <3>2, <5>2
      <4>3. f[q] \in Seq(Nat)
        BY <3>3, <4>1, <4>2, ConcatProperties
      <4> QED
        BY <3>1, <3>2, <4>3
    <3> QED
      BY <3>4, <3>5
  <2> HIDE DEF R
  <2>4. 0 .. m \subseteq R
    BY <1>1, <2>2, <2>3, BoundedInduction
  <2>5. \A k \in 1 .. m : k \in 0 .. m /\ k > 0
    BY <1>1
  <2>6. \A k \in 1 .. m : f[k] \in Seq(Nat)
    BY <2>4, <2>5 DEF R
  <2> QED
    BY <2>1, <2>6
<1> DEFINE F == [k \in 0 .. m |-> IF k = 0 THEN << >> ELSE f[k]]
<1>9. F \in [0 .. m -> Seq(Nat)] /\ F[0] = << >>
  BY <1>1, <1>8
<1>10. ASSUME NEW k \in 1 .. m PROVE F[k] = F[k - 1] \o Escaped(s[k])
  <2>1. k \in 0 .. m /\ k - 1 \in 0 .. m /\ F[k] = f[k]
    BY <1>1
  <2>2. CASE k = 1
    <3>1. F[k - 1] = << >> /\ f[k] = E[k]
      BY <1>8, <1>1, <2>1, <2>2
    <3> QED
      BY <1>2, <2>1, <3>1, ConcatEmptySeq
  <2>3. CASE k # 1
    <3>1. F[k - 1] = f[k - 1]
      BY <2>1, <2>3
    <3> QED
      BY <1>2, <1>8, <2>1, <2>3, <3>1
  <2> QED
    BY <2>2, <2>3
<1>11. FlattenSeq(E) = F[m]
  BY <1>1, <1>3, <1>4
<1> HIDE DEF F
<1>12. WriteJsonString(s) = <<Quote>> \o F[m] \o <<Quote>>
  BY <1>11 DEF WriteJsonString, E, m
<1>13. IsWriting(F, s)
  BY <1>9, <1>10 DEF IsWriting, m
<1> QED
  BY <1>12, <1>13 DEF m

\* What a round does to what is written so far.
Grows(F, s, k) ==
    /\ F[k - 1] \in Seq(Nat) /\ F[k] \in Seq(Nat) /\ Escaped(s[k]) \in Seq(Nat)
    /\ Len(F[k]) = Len(F[k - 1]) + Len(Escaped(s[k]))
    /\ Len(F[k - 1]) <= Len(F[k])
    /\ \A p \in 1 .. Len(F[k - 1]) : F[k][p] = F[k - 1][p]
    /\ \A j \in 1 .. Len(Escaped(s[k])) :
          F[k][Len(F[k - 1]) + j] = Escaped(s[k])[j]

LEMMA WritingGrows ==
    ASSUME NEW s \in Seq(Nat), NEW F, IsWriting(F, s), NEW k \in 1 .. Len(s)
    PROVE  Grows(F, s, k)
<1> DEFINE a == F[k - 1]
           b == Escaped(s[k])
<1>1. a \in Seq(Nat) /\ b \in Seq(Nat) /\ F[k] \in Seq(Nat) /\ F[k] = a \o b
  <2>1. s[k] \in Nat /\ k - 1 \in 0 .. Len(s) /\ k \in 0 .. Len(s)
    OBVIOUS
  <2> QED
    BY <2>1, EscapedIs DEF IsWriting
<1> HIDE DEF a, b
<1>2. /\ Len(F[k]) = Len(a) + Len(b)
      /\ \A p \in 1 .. Len(a) + Len(b) :
            F[k][p] = IF p <= Len(a) THEN a[p] ELSE b[p - Len(a)]
  BY <1>1, ConcatProperties
<1>3. Len(a) \in Nat /\ Len(b) \in Nat
  BY <1>1
<1>4. \A p \in 1 .. Len(a) : F[k][p] = a[p]
  BY <1>2, <1>3
<1>5. ASSUME NEW j \in 1 .. Len(b) PROVE F[k][Len(a) + j] = b[j]
  <2>1. PICK p \in 1 .. Len(a) + Len(b) : p = Len(a) + j
    BY <1>3
  <2>2. ~(p <= Len(a)) /\ p - Len(a) = j
    BY <1>3, <2>1
  <2>3. F[k][p] = b[p - Len(a)]
    BY <1>2, <2>2
  <2> QED
    BY <2>1, <2>2, <2>3
<1>6. Len(a) <= Len(F[k])
  BY <1>2, <1>3
<1> QED
  BY <1>1, <1>2, <1>4, <1>5, <1>6 DEF a, b, Grows

\* Every round leaves what is there, and adds printable characters.
LEMMA WritingStays ==
    ASSUME NEW s \in Seq(Nat), NEW F, IsWriting(F, s)
    PROVE  \A k \in 0 .. Len(s) :
              /\ Len(F[k]) \in Nat /\ Len(F[k]) <= Len(F[Len(s)])
              /\ \A p \in 1 .. Len(F[k]) : F[Len(s)][p] = F[k][p]
<1> DEFINE m == Len(s)
           Stays(k) == /\ Len(F[k]) <= Len(F[m])
                       /\ \A p \in 1 .. Len(F[k]) : F[m][p] = F[k][p]
           T == {d \in 0 .. m : \A k \in 0 .. m : k = m - d => Stays(k)}
<1>1. m \in Nat
  OBVIOUS
<1>2. \A k \in 0 .. m : F[k] \in Seq(Nat) /\ Len(F[k]) \in Nat
  BY DEF IsWriting
<1>3. 0 \in T
  <2>1. ASSUME NEW k \in 0 .. m, k = m - 0 PROVE Stays(k)
    <3>1. k = m
      BY <1>1, <2>1
    <3> QED
      BY <1>2, <3>1
  <2> QED
    BY <1>1, <2>1
<1>4. ASSUME NEW d \in 0 .. m, d \in T, d < m PROVE d + 1 \in T
  <2>1. PICK k \in 1 .. m : k = m - d
    BY <1>1, <1>4
  <2>2. k - 1 \in 0 .. m /\ k \in 0 .. m /\ \A l \in 0 .. m : l = m - (d + 1) => l = k - 1
    BY <1>1, <2>1
  <2>3. Stays(k)
    BY <1>4, <2>1, <2>2
  <2>4. /\ Len(F[k - 1]) <= Len(F[k])
        /\ \A p \in 1 .. Len(F[k - 1]) : F[k][p] = F[k - 1][p]
    <3>1. Grows(F, s, k)
      BY WritingGrows
    <3> QED
      BY <3>1 DEF Grows
  <2>5. Len(F[k - 1]) \in Nat /\ Len(F[k]) \in Nat /\ Len(F[m]) \in Nat
    BY <1>1, <1>2, <2>2
  <2>6. Len(F[k - 1]) <= Len(F[k]) /\ Len(F[k]) <= Len(F[m])
    BY <2>3, <2>4
  <2>7. \A p \in 1 .. Len(F[k - 1]) : p \in 1 .. Len(F[k])
    BY <2>5, <2>6
  <2>8. Stays(k - 1)
    <3>1. Len(F[k - 1]) <= Len(F[m])
      BY <2>5, <2>6
    <3>2. \A p \in 1 .. Len(F[k - 1]) : F[m][p] = F[k - 1][p]
      BY <2>3, <2>4, <2>7
    <3> QED
      BY <3>1, <3>2
  <2> HIDE DEF Stays
  <2> QED
    BY <1>1, <1>4, <2>2, <2>8
<1> HIDE DEF T, m
<1>5. 0 .. m \subseteq T
  BY <1>1, <1>3, <1>4, BoundedInduction
<1>6. ASSUME NEW k \in 0 .. m PROVE Stays(k)
  <2>1. PICK d \in 0 .. m : k = m - d
    <3>1. m - k \in 0 .. m /\ k = m - (m - k)
      BY <1>1
    <3> QED
      BY <3>1
  <2> HIDE DEF Stays
  <2> QED
    BY <1>5, <2>1 DEF T
<1> QED
  BY <1>2, <1>6 DEF m

LEMMA WritingIsPrintable ==
    ASSUME NEW s \in Seq(Nat), NEW F, IsWriting(F, s)
    PROVE  \A p \in 1 .. Len(F[Len(s)]) : F[Len(s)][p] >= 32
<1> DEFINE m == Len(s)
           Printable(k) == \A p \in 1 .. Len(F[k]) : F[k][p] >= 32
           T == {k \in 0 .. m : Printable(k)}
<1>1. m \in Nat
  OBVIOUS
<1>2. 0 \in T
  BY <1>1 DEF IsWriting
<1>3. ASSUME NEW d \in 0 .. m, d \in T, d < m PROVE d + 1 \in T
  <2>1. PICK k \in 1 .. m : k = d + 1
    BY <1>1, <1>3
  <2>2. k - 1 = d /\ k \in 0 .. m
    BY <1>1, <2>1
  <2> DEFINE a == F[k - 1]
             b == Escaped(s[k])
  <2>3. /\ Len(a) \in Nat /\ Len(b) \in Nat /\ Len(F[k]) = Len(a) + Len(b)
        /\ \A p \in 1 .. Len(a) : F[k][p] = a[p]
        /\ \A j \in 1 .. Len(b) : F[k][Len(a) + j] = b[j]
    <3>1. /\ a \in Seq(Nat) /\ b \in Seq(Nat) /\ Len(F[k]) = Len(a) + Len(b)
          /\ \A p \in 1 .. Len(a) : F[k][p] = a[p]
          /\ \A j \in 1 .. Len(b) : F[k][Len(a) + j] = b[j]
      <4>1. Grows(F, s, k)
        BY WritingGrows
      <4> QED
        BY <4>1 DEF Grows
    <3> HIDE DEF a, b
    <3> QED
      BY <3>1
  <2>4. \A p \in 1 .. Len(a) : a[p] >= 32
    BY <1>3, <2>2
  <2>5. \A j \in 1 .. Len(b) : b[j] >= 32
    <3>1. s[k] \in Nat
      BY DEF m
    <3> QED
      BY <3>1, EscapedIs
  <2> HIDE DEF a, b
  <2>6. ASSUME NEW p \in 1 .. Len(F[k]) PROVE F[k][p] >= 32
    <3>1. CASE p <= Len(a)
      <4>1. p \in 1 .. Len(a)
        BY <2>3, <3>1
      <4> QED
        BY <2>3, <2>4, <4>1
    <3>2. CASE ~(p <= Len(a))
      <4>1. PICK j \in 1 .. Len(b) : p = Len(a) + j
        <5>1. p - Len(a) \in 1 .. Len(b) /\ p = Len(a) + (p - Len(a))
          BY <2>3, <3>2
        <5> QED
          BY <5>1
      <4> QED
        BY <2>3, <2>5, <4>1
    <3> QED
      BY <3>1, <3>2
  <2> QED
    BY <2>1, <2>2, <2>6
<1> HIDE DEF T, m
<1>4. 0 .. m \subseteq T
  BY <1>1, <1>2, <1>3, BoundedInduction
<1>5. m \in T
  BY <1>1, <1>4
<1> QED
  BY <1>5 DEF T, m

\* The literal of a string stays on one line, and stands for that string.
LEMMA RoundTrip ==
    ASSUME NEW s \in Seq(Nat), NEW line, line = WriteJsonString(s)
    PROVE  /\ \A p \in 1 .. Len(line) : line[p] >= 32
           /\ ReadJsonString(line) = s
<1> DEFINE m == Len(s)
<1>1. m \in Nat
  OBVIOUS
<1>2. PICK F : IsWriting(F, s) /\ line = <<Quote>> \o F[m] \o <<Quote>>
  BY WriterExists
<1> DEFINE body == F[m]
           n == Len(body)
<1>3. body \in Seq(Nat) /\ n \in Nat
  <2>1. m \in 0 .. m
    BY <1>1
  <2>2. F \in [0 .. m -> Seq(Nat)]
    BY <1>2 DEF IsWriting
  <2>3. body \in Seq(Nat)
    BY <2>1, <2>2
  <2> HIDE DEF body
  <2> QED
    BY <2>3
<1>4. \A p \in 1 .. n : body[p] >= 32
  BY <1>2, WritingIsPrintable
<1>5. /\ \A k \in 0 .. m : Len(F[k]) \in Nat /\ Len(F[k]) <= n
      /\ \A k \in 0 .. m : \A p \in 1 .. Len(F[k]) : body[p] = F[k][p]
  BY <1>2, WritingStays
<1>6. F[0] = << >>
  BY <1>2 DEF IsWriting
<1>7. ASSUME NEW k \in 1 .. m
      PROVE  /\ Len(F[k]) = Len(F[k - 1]) + Len(Escaped(s[k]))
             /\ \A j \in 1 .. Len(Escaped(s[k])) : F[k][Len(F[k - 1]) + j] = Escaped(s[k])[j]
  <2>1. Grows(F, s, k)
    BY <1>2, WritingGrows
  <2> QED
    BY <2>1 DEF Grows
<1> HIDE DEF body
<1>8. /\ Len(line) = n + 2 /\ line[1] = Quote /\ line[n + 2] = Quote
      /\ \A p \in 1 .. n : line[p + 1] = body[p]
  <2>1. line = <<Quote>> \o body \o <<Quote>>
    BY <1>2 DEF body
  <2>2. <<Quote>> \in Seq(Nat)
    BY DEF Quote
  <2> DEFINE most == <<Quote>> \o body
  <2>3. /\ most \in Seq(Nat) /\ Len(most) = n + 1 /\ most[1] = Quote
        /\ \A p \in 1 .. n : most[p + 1] = body[p]
    BY <1>3, <2>2
  <2> HIDE DEF most
  <2>4. line = most \o <<Quote>>
    BY <2>1 DEF most
  <2> QED
    BY <1>3, <2>2, <2>3, <2>4
<1>9. ASSUME NEW p \in 1 .. Len(line) PROVE line[p] >= 32
  <2>1. CASE p = 1 \/ p = n + 2
    BY <1>8, <2>1 DEF Quote
  <2>2. CASE p # 1 /\ p # n + 2
    <3>1. PICK q \in 1 .. n : p = q + 1
      <4>1. p - 1 \in 1 .. n /\ p = (p - 1) + 1
        BY <1>3, <1>8, <2>2
      <4> QED
        BY <4>1
    <3> QED
      BY <1>4, <1>8, <3>1
  <2> QED
    BY <2>1, <2>2
<1>10. PICK f : /\ AreRead(f, line)
                /\ ReadJsonString(line) =
                      IF Len(line) > 1 /\ line[1] = Quote THEN f[2] ELSE NoString
  <2>1. Len(line) \in Nat
    BY <1>3, <1>8
  <2> QED
    BY <2>1, ReaderExists
<1>11. ASSUME NEW k \in 1 .. m
       PROVE  LET p == 2 + Len(F[k - 1])
              IN  /\ p \in 1 .. Len(line) + 1 /\ p # Len(line)
                  /\ CharAt(line, p) = {<<s[k], 2 + Len(F[k])>>}
  <2> DEFINE b == Escaped(s[k])
             o == Len(F[k - 1])
  <2>1. s[k] \in Nat /\ k \in 0 .. m /\ k - 1 \in 0 .. m
    BY <1>1
  <2>2. Len(b) \in {1, 2, 6}
    BY <2>1, EscapedIs
  <2>3. o \in Nat /\ Len(F[k]) = o + Len(b) /\ Len(F[k]) <= n
    BY <1>5, <1>7, <2>1
  <2> HIDE DEF o
  <2>4. PICK p \in Nat : p = 2 + o
    BY <2>3
  <2>5. ASSUME NEW j \in 1 .. Len(b) PROVE line[p - 1 + j] = b[j]
    <3>1. F[k][o + j] = b[j]
      BY <1>7 DEF o
    <3> HIDE DEF b
    <3>2. PICK q \in 1 .. Len(F[k]) : q = o + j
      BY <2>2, <2>3
    <3>3. q \in 1 .. n /\ p - 1 + j = q + 1
      BY <1>3, <2>2, <2>3, <2>4, <3>2
    <3>4. line[q + 1] = body[q]
      BY <1>8, <3>3
    <3>5. body[q] = F[k][q]
      BY <1>5, <2>1, <3>2
    <3> QED
      BY <3>1, <3>2, <3>3, <3>4, <3>5
  <2>6. /\ Len(line) \in Nat /\ p >= 1 /\ p + Len(b) <= Len(line)
        /\ p + Len(b) = 2 + Len(F[k]) /\ p \in 1 .. Len(line) + 1 /\ p # Len(line)
    <3> HIDE DEF b, n
    <3>1. Len(line) = n + 2
      BY <1>8 DEF n
    <3>2. n \in Nat /\ Len(F[k]) <= n
      BY <1>3, <2>3 DEF n
    <3>3. Len(b) \in Nat /\ Len(b) >= 1
      <4>1. \A x \in {1, 2, 6} : x \in Nat /\ x >= 1
        OBVIOUS
      <4> QED
        BY <2>2, <4>1, Zenon
    <3> DEFINE l == Len(b)
               e == Len(F[k])
               w == Len(line)
    <3>4. /\ o \in Nat /\ e = o + l /\ e <= n /\ n \in Nat /\ l \in Nat /\ l >= 1
          /\ w = n + 2 /\ p = 2 + o
      BY <2>3, <2>4, <3>1, <3>2, <3>3
    <3> HIDE DEF l, e, w
    <3>5. /\ w \in Nat /\ p >= 1 /\ p + l <= w
          /\ p + l = 2 + e /\ p \in 1 .. w + 1 /\ p # w
      BY <3>4
    <3> QED
      BY <3>5 DEF l, e, w
  <2>7. CharAt(line, p) = {<<s[k], p + Len(b)>>}
    <3>1. StandsAt(line, s[k], p)
      BY <2>5, <2>6 DEF StandsAt
    <3> QED
      BY <2>1, <2>6, <3>1, EscapedIsRead
  <2> HIDE DEF b
  <2> QED
    BY <2>4, <2>6, <2>7 DEF o
<1> DEFINE rest(k) == SubSeq(s, k + 1, m)
           T == {d \in 0 .. m : \A k \in 0 .. m : k = m - d => f[2 + Len(F[k])] = rest(k)}
<1>12. 0 \in T
  <2>1. ASSUME NEW k \in 0 .. m, k = m - 0 PROVE f[2 + Len(F[k])] = rest(k)
    <3>1. k = m
      BY <1>1, <2>1
    <3>2. 2 + Len(F[k]) = Len(line) /\ Len(line) \in 1 .. Len(line) + 1
      BY <1>3, <1>8, <3>1 DEF body
    <3>3. f[Len(line)] = << >>
      BY <1>3, <1>8, <1>10, <3>2 DEF AreRead, ReadFrom
    <3>4. rest(k) = << >>
      BY <1>1, <3>1, SubSeqEmpty
    <3> QED
      BY <3>2, <3>3, <3>4
  <2> HIDE DEF rest
  <2> QED
    BY <1>1, <2>1
<1>13. ASSUME NEW d \in 0 .. m, d \in T, d < m PROVE d + 1 \in T
  <2>1. PICK k \in 1 .. m : k = m - d
    <3>1. m - d \in 1 .. m
      BY <1>1, <1>13
    <3> QED
      BY <3>1
  <2>2. k - 1 \in 0 .. m /\ k \in 0 .. m /\ \A l \in 0 .. m : l = m - (d + 1) => l = k - 1
    BY <1>1, <2>1
  <2>3. f[2 + Len(F[k])] = rest(k)
    BY <1>13, <2>1, <2>2
  <2> DEFINE p == 2 + Len(F[k - 1])
  <2>4. /\ p \in 1 .. Len(line) + 1 /\ p # Len(line)
        /\ CharAt(line, p) = {<<s[k], 2 + Len(F[k])>>}
    BY <1>11
  <2> HIDE DEF p
  <2>5. rest(k) \in Seq(Nat) /\ rest(k) # NoString
    <3>1. \A i \in k + 1 .. m : s[i] \in Nat
      BY <1>1
    <3>2. rest(k) \in Seq(Nat)
      BY <1>1, <3>1, SubSeqProperties
    <3>3. NoString \notin Seq(Nat)
      <4>1. NoString[1] = -1 /\ 1 \in 1 .. Len(NoString)
        BY DEF NoString
      <4> QED
        BY <4>1
    <3> QED
      BY <3>2, <3>3
  <2>6. f[p] = <<s[k]>> \o rest(k)
    <3>1. f[p] = ReadFrom(line, f, p)
      BY <1>10, <2>4 DEF AreRead
    <3> DEFINE char == CHOOSE char \in CharAt(line, p) : TRUE
    <3>2. char = <<s[k], 2 + Len(F[k])>> /\ CharAt(line, p) # {}
      BY <2>4
    <3>3. ReadFrom(line, f, p) =
             IF p = Len(line) /\ line[p] = Quote THEN << >>
             ELSE IF CharAt(line, p) = {} \/ f[char[2]] = NoString THEN NoString
             ELSE <<char[1]>> \o f[char[2]]
      BY DEF ReadFrom
    <3> HIDE DEF char, rest
    <3>4. char[1] = s[k] /\ char[2] = 2 + Len(F[k])
      BY <3>2
    <3> QED
      BY <2>3, <2>4, <2>5, <3>1, <3>2, <3>3, <3>4
  <2>7. rest(k - 1) = <<s[k]>> \o rest(k)
    <3>1. k \in 1 .. Len(s) /\ m \in k .. Len(s) /\ k - 1 + 1 = k
      BY <1>1
    <3>2. SubSeq(s, k, m) = <<s[k]>> \o SubSeq(s, k + 1, m)
      BY <3>1, SubSeqRecursiveFirst
    <3> QED
      BY <3>1, <3>2
  <2>8. f[2 + Len(F[k - 1])] = rest(k - 1)
    BY <2>6, <2>7 DEF p
  <2>9. d + 1 \in 0 .. m
    BY <1>1, <1>13
  <2> HIDE DEF rest
  <2> QED
    BY <2>2, <2>8, <2>9
<1> HIDE DEF T
<1>14. 0 .. m \subseteq T
  BY <1>1, <1>12, <1>13, BoundedInduction
<1>15. f[2 + Len(F[0])] = rest(0)
  <2>1. m \in T /\ 0 \in 0 .. m /\ 0 = m - m
    BY <1>1, <1>14
  <2> HIDE DEF rest
  <2> QED
    BY <2>1 DEF T
<1>16. f[2] = s
  <2>1. rest(0) = s
    <3>1. SubSeq(s, 1, Len(s)) = s
      BY SubSeqFull
    <3>2. 0 + 1 = 1
      OBVIOUS
    <3> QED
      BY <3>1, <3>2
  <2>2. 2 + Len(F[0]) = 2
    BY <1>6
  <2> HIDE DEF rest
  <2> QED
    BY <1>15, <2>1, <2>2
<1> QED
  BY <1>3, <1>8, <1>9, <1>10, <1>16

\* What is known of the text of a report that is on its way.
TextInv ==
    \A i \in 1 .. Len(reports) :
        /\ reports[i].message \in Seq(Nat)
        /\ cli.json => reports[i].text = WriteJsonString(reports[i].message)

LEMMA FinishWrites ==
    ASSUME NEW status, NEW kind, NEW message \in Seq(Nat), NEW in, NEW out, NEW dims,
           NEW c, Finish(Report(status, kind, message, in, out, dims), c),
           reports = << >>, cli' = cli
    PROVE  TextInv'
<1> DEFINE report == Report(status, kind, message, in, out, dims)
<1>1. \/ reports' = << >>
      \/ reports' = <<report>>
      \/ reports' = <<[report EXCEPT !.delivered = FALSE]>>
  BY FinishCases
<1>2. ASSUME NEW r, r = report \/ r = [report EXCEPT !.delivered = FALSE]
      PROVE  /\ r.message = message
             /\ cli.json => r.text = WriteJsonString(message)
  BY <1>2 DEF Report
<1> HIDE DEF report
<1>3. ASSUME NEW r, r = report \/ r = [report EXCEPT !.delivered = FALSE],
             reports' = <<r>>
      PROVE  TextInv'
  <2>1. Len(<<r>>) = 1 /\ <<r>>[1] = r
    OBVIOUS
  <2>2. \A i \in 1 .. Len(reports') : reports'[i] = r
    BY <1>3, <2>1
  <2> QED
    BY <1>2, <1>3, <2>2 DEF TextInv
<1>4. CASE reports' = << >>
  BY <1>4 DEF TextInv
<1> QED
  BY <1>1, <1>3, <1>4

LEMMA FailureWrites ==
    ASSUME NEW kind, NEW in, NEW out, NEW dims, Failure(kind, in, out, dims),
           reports = << >>, cli' = cli
    PROVE  TextInv'
<1>1. PICK message \in Messages : Finish(Report("err", kind, message, in, out, dims), 1)
  BY DEF Failure
<1>2. message \in Seq(Nat)
  BY MessagesAssumption
<1> QED
  BY <1>1, <1>2, FinishWrites

LEMMA TextInvNext == Inv /\ TextInv /\ [Next]_vars => TextInv'
<1> SUFFICES ASSUME Inv, TextInv, [Next]_vars PROVE TextInv'
  OBVIOUS
<1>1. << >> \in Seq(Nat)
  OBVIOUS
<1>2. ASSUME UNCHANGED <<cli, reports>> PROVE TextInv'
  BY <1>2 DEF TextInv
<1>3. stage # "exit" => reports = << >>
  BY DEF Inv, ReportInv
<1>4. CASE UNCHANGED vars
  BY <1>2, <1>4 DEF vars
<1>5. CASE Next
  <2>1. cli' = cli /\ stage # "exit"
    BY <1>5 DEF Next, CheckFormats, ReadStdin, Decode, CheckDimensions, Encode,
                WriteChunk, Flush, asked
  <2>2. \/ reports' = reports
        \/ \E kind, in, out, dims : Failure(kind, in, out, dims)
        \/ Finish(Report("err", "io", << >>, 0, 0, {}), 2)
        \/ Finish(Report("ok", "none", << >>, in_bytes, Chunks, {"input", "output"}), 0)
    BY <1>5 DEF Next, CheckFormats, ReadStdin, Decode, CheckDimensions, Encode,
                EncoderFails, WriteChunk, Flush, Success
  <2> QED
    BY <1>1, <1>2, <1>3, <2>1, <2>2, FailureWrites, FinishWrites
<1> QED
  BY <1>4, <1>5

\* A JSON report stays on one line, and a reader gets every message as it was.
THEOREM MessageSurvives == Spec => []MessageIsReadBack
<1>1. Init => TextInv
  <2> SUFFICES ASSUME Init PROVE TextInv
    OBVIOUS
  <2>1. Len(reports) = 0
    BY DEF Init
  <2> QED
    BY <2>1 DEF TextInv
<1>2. TextInv => MessageIsReadBack
  <2> SUFFICES ASSUME TextInv, cli.json, NEW i \in 1 .. Len(reports)
               PROVE  /\ \A p \in 1 .. Len(reports[i].text) : reports[i].text[p] >= 32
                      /\ ReadJsonString(reports[i].text) = reports[i].message
    BY DEF MessageIsReadBack
  <2>1. PICK s \in Seq(Nat) : s = reports[i].message
    BY DEF TextInv
  <2>2. reports[i].text = WriteJsonString(s)
    BY <2>1 DEF TextInv
  <2> QED
    BY <2>1, <2>2, RoundTrip
<1> QED
  BY <1>1, <1>2, TextInvNext, InvHolds, PTL DEF Spec
=============================================================================
