# A TLA+ model of fast-image-converter

`fast-image-converter` is a command-line program in Rust. In *batch mode* it
converts every picture of a directory to another format and deletes the
sources; in *single-file mode* it converts one picture from standard input to
standard output. These modules model what the program does to files, streams,
counters and exit codes. TLC checks them on small instances, and TLAPS proves
each of their invariants for every instance. Source lines are those of
`src/src/*.rs`, docs those of `src/docs/`.

## 1. Inventory

| Component | State it keeps | Operations | Talks to | What makes it correct |
|---|---|---|---|---|
| **cli-frontend** (`parse_cli`, `main` up to the mode split, `main.rs` 52-394) | the parsed `Cli` | the token loop; the gates, which end with code 1 or 2 | starts one of the modes | every accepted command line has one meaning; wrong invocations touch nothing |
| **converter-core, batch mode** (`main` 396-526, `Codec::convert_one_with`) | the directory, four atomic counters, the rayon pool | list, convert each candidate, delete its source, summarise | codecs, file system, report stream | no picture is lost; counters, report and exit code tell what happened; every run ends |
| **report stream** (`emit_report_line`, `retry_write_all`, 1050-1201) | a process-wide mutex, the retry counters of one call | write a line with retries | called by every worker; writes to a descriptor it does not own | lines are whole and not interleaved; a stuck descriptor cannot hold the process |
| **single-file mode** (`run_single_file`, 540-815) | the picture in memory, the buffer of stdout | read, decode, check, resize, encode, write, flush, report | codecs, stdin, stdout, report stream | success means delivered; an error leaves no bytes behind; one report |
| **in-memory pipeline** (`format.rs` 25-204, 460-486) | none | size and dimension limits, resize policies | called by both modes | limits hold; dimensions are what the policy says |
| **codecs** (`format.rs` 488-1160) | none | decode, encode | image, libwebp, mozjpeg, libheif | errors have the right kind; no output is a candidate; an alpha channel that can be kept is kept |
| **parameter parsing** (`params.rs`) | none | `parse_resize`, `parse_resize_fit`, the MozJPEG flags | cli-frontend | the policy in force is the one asked for; reported policies can be read again |
| **report record** (`report.rs`, 817-1047, 1208-1347) | none | build a record, encode it as JSON | both modes | blocks go together; one line; strings read back |
| **gallery-compress** (`bin/gallery-compress.rs`) | none | start the converter, wait, pass its end on | the main binary | the exit code tells how the conversion ended |
| **build script** (`build.rs`) | none | embed commit and libwebp version | cargo | none at run time |

What is hard to test here: the rayon workers share a directory, four counters
and one report stream, and run in any order; every system call can fail after
an earlier one has changed the disk; the process can die anywhere (a signal, or
any panic: the release profile has `panic = "abort"`), and the next run finds
what it left; the report stream retries partial writes; standard output is
buffered; the lock of the stream is held inside the closures of the pool; and the
resize arithmetic saturates, truncates and rounds twice.
`PROJECT.json` lists these hazards at their lines.

## 2. Modules

| Module | Models | Checked in | Proved in |
|---|---|---|---|
| `BatchConvert` | batch mode, one action per step of `main` and of a worker | `MCBatch` | `BatchConvertProofs`, `BatchOutcomeProofs` |
| `ImageStore` | the abstract promise of batch mode | `MCBatch`, as `StoreSpec` | `BatchConvertProofs` |
| `ReportStream` | the report stream under concurrent callers | `MCReport` | `ReportStreamProofs` |
| `BatchReport` | `BatchConvert` and `ReportStream` composed: one process with its lines | `MCBatchReport` | `BatchReportProofs` |
| `Codecs` | the nine codecs by what tells them apart | through `ImagePipeline` and `SingleFile` | `ImagePipelineProofs` |
| `Resize` | resize policies as operators | through `ImagePipeline` | `ImagePipelineProofs` |
| `ResizeText` | the texts of `--resize`, read and written | through `ImagePipeline` | `ImagePipelineProofs` |
| `ImagePipeline` | `--resize`, limits, decode, resize, encode and error kinds in both modes | `MCImagePipeline` | `ImagePipelineProofs` |
| `JsonText` | JSON strings, written by the program and read by RFC 8259 | through `SingleFile` | `SingleFileProofs` |
| `SingleFile` | single-file mode from the parsed arguments to the exit code | `MCSingleFile` | `SingleFileProofs` |
| `CommandLine` | `parse_cli` and the gates of `main` | `MCCommandLine` | `CommandLineProofs` |
| `GalleryCompress` | the forwarder around `CommandLine` | `MCCommandLine` | `CommandLineProofs` |

`InductionLemmas` holds what several of the proofs need: induction over numbers
and over finite sets, and division with remainder.

### BatchConvert

The variables `sources` and `disk` are the directory and survive the process;
`phase`, `pc`, `written`, `result`, the counters and `exit` are the process;
`run` counts how often the command was started and `keep_source` is its option,
chosen anew each time. A file's content is the
sequence of chunks written to it, each chunk named by the picture it encodes,
so that a mixture of two pictures, a partial file and a hole can be told apart.

| Action | Code |
|---|---|
| `List`, `ListFails` | `read_dir` and the empty-directory exit, 396-415. Entries with errors are dropped, so any subset may be listed |
| `Start` | a free thread of `par_iter().for_each`, `fs::metadata`, `check_input_size`, 434-446 |
| `Decode`, `Encode` | `format.rs` 329-331, in memory |
| `Create`, `Write` | the two halves of `std::fs::write`, `format.rs` 332: truncate, then one chunk per step at the worker's own offset |
| `Restat` | the second `fs::metadata(src)`, `format.rs` 333 |
| `Remove` | `fs::remove_file`, 464-486, unless `--keep-source` |
| `Tally` | the counters and the success record, 487-493 |
| `Fail` | the `Err` branches: one counter, one record |
| `Summarise` | after the join, 507-526 |
| `Abort`, `Rerun` | the process dies between any two steps; the operator starts the command again, with or without `--keep-source` |

`total_in` is left out because it is raised next to `total_out`. Record
contents, wording and durations are left out. The report of a candidate is part
of the step that ends it here; `BatchReport` takes it apart.

`ImageStore` is the promise in three actions on the set of files that hold a
picture: `Publish` (the output becomes complete while the source is there),
`Retire` (the source is given up for a complete output, never by a command that
is to keep it), `Reopen` (an output is taken back to be written anew while the
source is there), and a fourth, `Command`, which changes the option and touches
no file. `StoreSpec` is the refinement: a file holds picture `src` if it is the
source, or an output whose content is exactly `Encoded(src)`.

### ReportStream

Each record has a thread that wants to emit it. `Lock` is the mutex of
`emit_report_line`, or the lock inside `eprintln!` for descriptor 2. Each call
of `write(2)` is one action: `Accept` some bytes (which resets both budgets),
`Interrupted`, `WouldBlock` (also a result of 0), `WriteError`. Descriptor 2 has
no budget, and an error there is a panic (`StderrError`). The stream is the
sequence of accepted bytes, each named by its record.

### BatchReport

The composition as the closure of `main` makes it: `R` is `ReportStream` with
the images as its records, alive until the process is aborted. `Convert` is a step of
`BatchConvert` with one more condition: a thread is free when its last closure
has *returned*, and not when the candidate is decided. `Begin` builds the line
from the outcome and takes the lock, `Continue` is one `write(2)`, `Panic` joins
the failing `eprintln!` to the abort of the whole process, `Main` joins all
closures before the summary. `told` is what a line says, which is one of three
things: the three emitters `emit_batch_record_success`, `_failure` and
`_io_failure` (1230-1347) differ in status and blocks. Without `--json` a
success has no line and a failure is told by `eprintln!` on descriptor 2,
whatever `--report-fd` says. One process has one stream, so the module ends with
the process; new commands are in `BatchConvert`.

### Codecs, Resize, ResizeText and ImagePipeline

A codec is a pair of formats; `Codecs` says for each pair what the nine
`impl Codec` blocks say: extensions, the error of a file that cannot be opened,
`to_rgb8` or `to_rgba8` (a matter of the codec: every PNG is written as
RGBA, also one of an opaque picture), what the encoder does instead of returning bytes, and
which parameters it uses. `Resize` translates `target_dimensions` in saturating `u32`
arithmetic and the branches of `apply_resize`. What `img.resize` makes of a box
is external: `Rounded` gives both neighbours at an exact tie, where the
floating-point rounding of the library decides. `ResizeText` reads a text of
`--resize` as the program does, pair by pair, and writes a policy back as the
reports do; texts are taken as split at their separators. `IsText` says what
such a text is, which the module assumes of its `Texts`, and `Expressible` which
policies a text can stand for, which it assumes of the default.

`ImagePipeline` puts the operations in the order of each mode, from the text of
`--resize` to the encoded picture. Decode and encode may fail at will; the
errors the program itself decides (texts, sizes, dimensions, pixel capacity)
and the panic of the WebP encoder on a long side are computed.

### SingleFile and JsonText

One thread. The variable `stage` is the position in `run_single_file`. The
encoded picture is `Chunks` chunks; `buffered` is what `write_all` took and
`stdout` what has reached the consumer, which lags behind until `flush`. Each
action ends in `Failure` on its error path: the report, then the exit code. A
report line that cannot be written is dropped on another descriptor and aborts
the process on descriptor 2. A report is a record of what consumers tell apart;
its message is a sequence of code points, which `--json` turns into a literal
with `JsonText!WriteJsonString`. The same module has the reader of RFC 8259,
which is no code of the program and only serves the property: `CharAt` is the
character that stands at a position, plain or escaped, and `ReadJsonString` walks
from one to the next, up to the closing quote.

### CommandLine

One action per round of the loop of `parse_cli`, with its index `i` and the
values given so far. Arguments are strings of a small vocabulary, and constants
say which of them the value parsers accept. The loop is checked against a
definition of well-formed command lines that has no loop: the set of positions
at which an option starts. Then come the gates of `main` in their order:
`SelectMode`, `ValidateReportFd`, `ResolveDirectory`, `SelectCodec`. What they
find outside the process is `host`: whether the report descriptor is open for
writing, `GALLERY_BASE` is set and the directory is there. It is chosen once,
before the first gate, so that the gates answer as they must and their order
shows. A run that passes them all reaches stage `batch` or `single`, where the
other modules begin.

### GalleryCompress

The forwarder and the converter as two processes: `Spawn` starts the converter
or fails with 127, `Converter` is a step of `CommandLine`, `ModeEnds` the end of
a mode, `Wait` the rest of `Command::status` with `process::exit`. Either
process may be killed at any time. The signal number `n` has no bit in common
with `0x80`, so `n | 0x80` is `128 + n`.

## 3. What the runs check

| Run | Instance | Shows |
|---|---|---|
| `batch` | 3 files, own outputs, 2 threads, 3 commands with or without `--keep-source` | types; no picture lost; exit code 0 and the byte total mean what they say; `ImageStore` is implemented |
| `batch_report` | 3 files, 2 of them with one output, 2 threads, both descriptors, with and without `--json`, fair | a whole line tells the truth about the directory; stream and summary agree; failed candidates keep their source; the summary accounts for all; every run ends |
| `report` | 3 records, budgets of 1, both descriptors, fair | no interleaving; an error spoils at most two records, none on descriptor 2; every call returns |
| `pipeline` | pictures up to 12 by 12, 9 codecs, 28 texts of `--resize`, small limits | the policy is the one asked for and survives a report; boxes and shapes are kept and the two roundings cost at most half of a target, unless a side of it is 0; on which side of the resize an error was; an alpha channel is kept; what panics |
| `command_line` | all command lines of at most 5 of 14 arguments on every host, at most 3 through the forwarder | exactly the well-formed ones start a mode; the last option wins; reports never go to stdout; the exit code tells which gate was not passed, in their order; the forwarder tells how the converter ended |
| `single` | all format pairs, five input lengths around the limit, 34 messages | delivery, reports, their quality and their text, and exit codes of single-file mode |

Every property of these runs fails under a mutant of the code, listed in
`PROJECT.json`: an operator next to the definition it changes.

*Bounds.* Two pictures that meet in one output need two workers, a third shows
that it does not depend on them, and two chunks per picture are enough to tell
whole, partial and mixed files apart. Two commands show a restart over
leftovers; a third replaces an output that an earlier one has replaced, with
every order of keeping and not keeping. In `batch_report` a third candidate
waits for one of the two threads while these wait for the lock; its pictures
and lines are of one unit each, and its retry budgets are 0, since partial
writes and retries are what `report` is about. There, a retry budget of 1
reaches every branch of the loop: a retry, its reset, and giving up. Twelve by
twelve pictures reach both roundings of a resize, every relation of sides and
caps, and, with `U32_MAX = 60`, the saturation of the product; the texts hold
every shape of policy, both orders of the pairs of `auto:`, repeated and wrong
pairs, zeros and numbers out of range. The messages hold one character of every
kind, all pairs of the characters that an escape could be taken for, and one
that looks like an escape. Five arguments hold a `fit=` policy with its three
arguments and another option before or behind it, or a flag given twice and a
directory; the forwarder does not look at arguments, so three are enough for
it to meet every end. The violation runs of the pipeline use the program's own
limits (TLC's integers end at 2^31 - 1, which stands for `U32_MAX`).

*Fairness.* `batch_report` assumes only that the kernel does not stop the
process for ever while one of its threads can run: weak fairness of the step
"`main` or some closure moves", nothing of any one thread, none of a crash. That
is enough because no step can repeat for ever: the candidates are finite, each
write ends within its retry budgets, and the holder of the stream's lock can
always move. `report` has threads and no `main` to wait for them, and assumes
weak fairness of each thread. Of the descriptor it is assumed that each
`write(2)` returns, with whatever result: one that blocks in the kernel for ever
blocks its thread, and with it every other reporter.

*Stopping.* The programs end, so the runs do not check for deadlock; that they
end where they should is what `RunEnds` and `EveryCallReturns` say.

### Where the code and its documentation differ

Six runs end in a counterexample to a claim of the documentation:

| Run | Claim | What the code does |
|---|---|---|
| `batch_overwrite` | INV-CB-2: `out_bytes` is the length of the output | `a.jpg` and `a.jpeg` are written to one file by two workers, and both sources are deleted |
| `report_torn` | INV-RS-1: every record is one line | after a record that was given up in the middle the next one continues the line |
| `pipeline_dimension_limit` | INV-CB-8: limit enforced in both modes | batch mode does not call `check_dimensions` |
| `pipeline_contain` | `Contain` makes the longer side `long_edge` | 3000x2000 becomes 999x666 for 1000 |
| `heic_alpha` | HEIC to WebP preserves alpha | `HeicToWebp` encodes with `to_rgb8` and `from_rgb` |
| `single_jpeg` | the MozJPEG flags are honoured end to end | single-file mode encodes with the defaults |

Seen on the way, without a run of its own:

- A picture so thin that a side of its target divides to 0 becomes a single pixel:
  3000x1 becomes 1x1 for 1000, under `cap`, `auto` and `contain`, although
  integration-contract.md line 72 has "longest side = `N`" for the last.
  `EmptyTargetIsOnePixel` says so of every such picture.
- README line 226 counts a pair of one and the same format as a wrong invocation,
  code 2; where the directory is missing too, `main` ends with 1, since it looks
  for the directory (342) before it looks at the formats (352).
  `ExitCodeTellsGate` has the code of every such line.
- `fs::write` writes an output in place, so a process that dies leaves a partial
  file under the final name, which INV-CC-5 ("atomic per file") may or may not
  mean.
- A side above 16383 makes `webp::Encoder::encode` panic, which ends the process
  with all its workers and without a record (INV-CB-5, INV-RS-3). The limit is
  libwebp's and the unwrap is the crate's, so both are outside this repository;
  `PanicTakesHugeSide` says which pictures get there.
- The records of failed candidates have no input block: `bytes_in` is 0 for
  every `Err` (`main.rs` 451), so `if in_bytes > 0` at 1277 is never true,
  although report-shape.md line 89 has no input only where none was consumed. A candidate whose
  second `fs::metadata` fails is reported without its output, which exists.
- Batch mode without `--json` tells failures on descriptor 2 whatever
  `--report-fd` says.
- A write error of stdout is reported with `out_bytes` 0 also when a part of the
  picture was delivered, and a refused format pair with the default quality.
- A failing `eprintln!` aborts although the comment at `main.rs` 1112 says that a
  failed report must not crash the binary.
- Without `--input-format` the program takes `jpg`, although a contract speaks
  of inference from the extension.
- `cap=<W>` bounds the width and not the "wider side" of README line 186;
  `long-edge` is accepted above `MAX_DIMENSION` although `params.rs` 207 says
  otherwise.
- `gallery-compress` spawns the converter where its header says `exec`, so a
  signal for the forwarder alone leaves the converter running; it looks into its
  own directory where the header says "walking upwards", and reads
  `CARGO_BIN_EXE_...` from the environment it is started in.

## 4. What is proved

Every invariant of the passing runs, and the refinement of the abstract store,
is a theorem that `tlapm` checks from the definitions of the modules and the
named assumptions on their constants: for every directory, pool size and number
of commands, every length of a record, every picture size and limit, every
text, message and command line. Where a theorem has a hypothesis besides `Spec`,
the table names it.

| Module | Theorem | States |
|---|---|---|
| `BatchConvertProofs` | `TypeCorrect` | `[]TypeOK` |
| | `OwnOutputIsSafe` | a picture with an output of its own is never lost, whatever the other candidates do |
| | `NothingLost` | `[]NoImageLost`, given `DistinctOutputs` |
| | `ImplementsStore` | `StoreSpec`, given `DistinctOutputs`: batch mode implements `ImageStore` |
| `BatchOutcomeProofs` | `FailureKeepsSource` | `[]FailedKeepsSource` |
| | `ExitZeroIsTrue` | `[]ExitZeroMeansConverted`, given `DistinctOutputs` |
| | `SummaryIsTrue` | `[]SummaryAccounts` |
| | `TotalIsOnDisk` | `[]TotalMatchesDisk`, given `DistinctOutputs` |
| `ReportStreamProofs` | `TypeCorrect` | `[]TypeOK`, with the retry budgets |
| | `RecordsStayTogether` | `[]NoInterleaving` |
| | `DamageBounded` | `[]DamageIsContained` |
| `BatchReportProofs` | `ReportsOnlyTell` | `ReportSpec => Spec`: the composition refines batch mode |
| | `ReportTypeCorrect` | `[]ReportTypeOK`, with the bound on open closures |
| | `RecordsAreTrue` | `[]RecordsTellTheTruth` |
| | `StreamAgreesWithSummary` | `[]StreamMatchesSummary` |
| `SingleFileProofs` | `TypeCorrect` | `[]TypeOK` |
| | `ReportsOnce` | `[]OneReport` |
| | `SuccessIsComplete` | `[]SuccessIsDelivered` |
| | `NoBytesBeforeEncode` | `[]StdoutOnlyAfterEncode` |
| | `ReportsAreModest` | `[]ReportNeverExceeds` |
| | `QualityIsTrue` | `[]ReportedQualityIsUsed` |
| | `MessageSurvives` | `[]MessageIsReadBack` |
| `ImagePipelineProofs` | `OutputsAreNoSources` | no codec writes an extension it reads |
| | `TypeCorrect` | `[]TypeOK`: no picture loses its last pixel in a direction |
| | `PolicyIsAsked` | `[]PolicyAsAsked` |
| | `ReportedPolicyIsRead` | `[]ReportedPolicyReparses` |
| | `OnlyBoxesEnlarge` | `[]NeverEnlarged` |
| | `BoxesAreKept` | `[]FitsItsBox` |
| | `ShapeIsKept` | `[]AspectKept` |
| | `TargetsAreExact` | `[]TargetIsExact` |
| | `HalfIsReached` | `[]TargetHalfReached` |
| | `EmptyTargetCollapses` | `[]EmptyTargetIsOnePixel` |
| | `KindTellsStage` | `[]SingleKindTellsStage` |
| | `PanicIsRare` | `[]PanicTakesHugeSide` |
| | `AlphaIsKept` | `[]AlphaReachesOutput` |
| `CommandLineProofs` | `TypeCorrect` | `[]TypeOK` |
| | `LoopIsExact` | `[]AcceptsWellFormed` |
| | `LastGivenIsUsed` | `[]LastOptionWins` |
| | `StdoutIsKept` | `[]ReportsAvoidStdout` |
| | `GatesAnswerInOrder` | `[]ExitCodeTellsGate` |
| | `ForwardedIsConverter` | `AliasSpec => Spec`: the forwarded converter is the converter |
| | `CodeTellsTheEnd` | `AliasSpec => []ForwarderTellsHowItEnded` |

`DistinctOutputs` says that no two candidates have the same output file. It is a
hypothesis of the theorems and not an assumption of the module, since the
program does not see to it; `batch_overwrite` shows what happens without it.
`OwnOutputIsSafe` needs less: `OwnOutput(src)` is a hypothesis about the one
picture it is about.

The assumptions on the constants say what the program's own values are like:
finitely many images, positive sizes, at least one thread and one run; retry
budgets that are numbers; records of at least one byte; limits that are numbers;
a default policy that `--resize` could ask for (`DefaultAssumption`), texts as
splitting leaves them (`TextsAssumption`), messages that are sequences of code
points (`MessagesAssumption`). TLC evaluates each of them in a run.

### Batch mode

*No picture is lost.* `NoImageLost` is not inductive: it does not say that the
source deleted by `Remove` has a complete output. `WInv` does. For each picture
with an output of its own it ties the worker's step to the two files: before
`Remove` the source is there; in `Write` the output is the prefix of the picture
that `written` counts; from `Restat` on, the output is the whole picture. A
worker leaves the output and the step of every such picture but its own alone,
and a crash keeps the disk and forgets only what is weaker.

*Refinement.* A file holds a picture if it is its source or its complete output.
The last `Write` is `Publish`, `Remove` is `Retire`, `Create` over a complete
output is `Reopen`, and every other step stutters. That the source is there when
an output is taken back, and that the output is complete when the source is
given up, comes from `WInv`.

*Outcomes.* `OInv` ties the result of a picture to its step, its source and the
failure counter, and to the exit code: a bad result means that the source is
there and `failed` is positive, and a result is there exactly when the worker is
done. It needs nothing of the outputs, so `FailureKeepsSource` holds also when
they collide. `OkInv` adds that a converted picture with an output of its own has
it complete. For the summary, `CountInv` says at all times what
`SummaryAccounts` says after the join: each counter is the number of pictures
with such a result. It is inductive because `OInv` excludes that a worker which
ends had a result before.

*The byte total.* `TotalInv` says at all times that `total_out` is the sum of the
sizes of the converted pictures. `SumFunction` adds in an order that a `CHOOSE`
fixes; the lemmas take it apart into a function `Sums` on all subsets, show that
it exists (`SumsExist`), and by induction over the subsets of a finite set that
any element may be taken out first (`SumOfAny`), so that the order in which the
workers end does not matter. `OkInv` turns sizes into the lengths of files.

*Extensions.* `BatchConvert` keeps sources and outputs apart: `List` takes
candidates from `sources` only. `OutputsAreNoSources` is why it may, for commands
with the same formats.

### The report stream, and batch mode with it

`LockInv` is mutual exclusion: the holder of the lock is the one thread in a
write loop. `Base` is the place of the stream where the holder's bytes begin.
`BlockInv` says that the bytes behind it are the holder's and that no byte before
its turn is there, which is what `NoInterleaving` lacks to be inductive. For
`DamageIsContained`, a record that is given up may leave the stream in the
middle of a line (`Dirty`), and the next record pays for it: `DamageInv` counts
that debt from the moment it is made, together with the records that are
spoiled, against two for each record given up.

A step of `BatchReport` is a step of `BatchConvert` or none (`ReportsOnlyTell`), and
a step of `ReportStream` or none but for the end of the process, so the invariants
of the parts carry over by the lemmas that keep them there; `RP` is
`ReportStreamProofs` with the images as its records. What joins the two is
`ClosureInv`: a line is begun when its candidate is decided, it says the verdict on
that candidate, what it says is true, and `main` waits for it. Nobody touches
the files of a decided candidate, so it stays true; and since a whole line was
begun, `RecordsTellTheTruth` follows. For the summary the records that are whole,
those that are spoiled and the results are counted as sets, with `DamageInv` as
the bound on their difference.

### Single-file mode

`StageInv` ties `stage` to the two lengths: nothing is buffered before `write`, all
of the picture at `flush`, the input is within the limit and not empty from where
it was checked. `ReportInv` says that there is no report before the end, and then
one that satisfies `SoundReport`, the conjunction of what the properties say of a
report, or none because the process was aborted. The five theorems about reports
follow from it.

`MessageSurvives` is a round trip through two recursive functions. Both have to be
shown to exist: the reader by induction from the end of the line
(`ReaderExists`), the writer, `FlattenSeq` of the escaped characters, from the
front (`WriterExists`). Each escape is printable and is read back as its character
(`EscapedIsRead`), every round of the writer leaves what is there
(`WritingStays`), so that behind each escape the line holds the rest, and the
reader returns the rest of the string from there (`RoundTrip`).

### The pipeline

The first half of `ImagePipelineProofs` is arithmetic. `Rounded` is bounded by the
exact quotient, from above and below by half a unit (`RoundedBelow`,
`RoundedNear`). `target_dimensions` leaves a picture alone or caps one side
(`TargetCases`), and the side that follows has an exact value unless it
saturates, a case in which it is never longer than before. From that come the
facts about `Resized` that the properties state. For `TargetHalfReached` the
truncated side, being at least 1, is more than half of its exact value
(`FollowerHalf`), so a fit by that side leaves more than half of the cap before
rounding (`ResizeIntoHalf`). The steps are then short:
`PictureInv` says when the picture and its new size are known, and that the size
is one that the policy gives.

For the texts, `FoldLeft` over the pairs of `auto:` is taken apart into its rounds
like the sum above; after each round the caps are the last values of their keys
so far, and any wrong pair leaves none.

### The command line and the forwarder

The properties speak of `Options`, the positions at which an option starts, by a
`CHOOSE`. `OptionsExist` shows that there is such a set, the smallest one that is
closed under going from an option to the next. The invariant `CmdInv` is stated
for every set with that property: the loop has stood at the members below `i`
and nowhere else (`PositionInv`), has read each setting from its last option
(`ValuesInv`), and has accepted only complete options and one directory
(`ModeInv`). `StageInv` follows the gates: which were passed at each stage, and
which one refused when the process has exited; `GatesReadTheLine` turns what they
asked of `cli` into what the properties say of the arguments. The forwarder changes nothing of the converter
(`ForwardedIsConverter`), so the theorems hold behind it, and `ForwarderInv` follows
the status from `Wait` to the exit code.

### On induction

The prover cannot instantiate a theorem about an operator, which is how the
library states induction. `InductionLemmas` states it for sets: a set that has
zero and with each number the next one has them all. A proof about `P` takes
`{n \in Nat : P(n)}`. That, and its version for subsets of a finite set, is enough
for the sums, rounds, readers and writers above.

### Only model-checked

- `RunEnds` and `EveryCallReturns`: liveness under fairness is not in the prover's
  reach.
- The six runs that end in a counterexample, which are about instances.

## 5. Not modelled, and why

- Pixels, file formats and the insides of the codecs: external libraries. The
  `encode`, `encode_with_quality`, `convert_one` and `convert_bytes_with` methods
  of the trait are called by unit tests only.
- Writers of the directory other than the program. So the size limit, checked
  on `fs::metadata` before the file is opened again, cannot go stale.
- Commands with different formats on one directory: sources and outputs would
  change roles.
- Power loss: nothing is synced, and what a file system keeps is not in the code.
- The order and spelling of the fields of a record, text output on the terminal,
  durations, wording, host metadata.
- The search of `gallery-compress` for the converter, but for its failure.
- `build.rs`, the tests and the scripts.

## 6. Plan

Every component that runs is modelled, and every invariant that a run checks is a
theorem. What would say more:

1. An abstract specification of the report stream, a queue of whole records of
   which some are lost, with `ReportStream` shown to implement it where no
   record is given up.
2. Single-file mode as a refinement of the error kinds of `ImagePipeline`, so
   that the two modules are tied by more than their common operators.
3. Facts on the way to liveness that the prover can do: that each step of a
   write loop makes progress towards the end of its record or of a budget, which
   is the measure that `EveryCallReturns` rests on.
