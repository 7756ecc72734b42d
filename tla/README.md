# LittleWhite in TLA+

LittleWhite moves a file between two phones through the air: the sender zips the file, cuts
it into RaptorQ packets, draws each packet as a QR code and plays the codes as a video in a
loop; the receiver films the screen, decodes the codes, collects the packets until the block
can be solved, and unzips the result. A reception may be interrupted at any time and resumed
by a later visit of the page, from a log of the packets on the phone.

Paths below are relative to `src/app/src/main/java/`; `lw` stands for `com/littlewhite`,
`orq` for `net/fec/openrq`, and `cpp` for `src/app/src/main/cpp`.

## Inventory

| component | state | operations | interacts with |
|---|---|---|---|
| source block decoder, `orq/ArraySourceBlockDecoder` | source and repair symbols held, overhead, `SourceBlockState` | `putEncodingPacket`, `setSymbolOverhead`, the decoding they start | called by the RaptorQ thread; announces a decoding to the activity's handler |
| resumable reception, `lw/ReceiveFile/RaptorQDecoderHandler`, `RaptorQDecoder`, `MyObjectStream`, `SqllitUtil/*` | `hasinit`, list of incomplete rows, current row, check array, counter; table `File_Logs`; `tmp<time>.tmp` files | `decodeRaptor`, `CompareWithList`, `RestartDecode`, `StartNewOne`, `decodeFirst`, `WritePacket`, `Complete`, `SendToUnzip`, `DeleteEmptyFile` | decoder thread, unzip thread, main thread, SQLite, file system |
| receive pipeline, `lw/ReceiveFile/ReceiveActivity`, `ReceiveHandler`, `QRcodeDecoder/*` | the activity's `handler`, message queues, which threads run | `onPause`, `initCamera`, `quitSynchronously`, `TransmissionComplete`, frames, finish and stop messages | all receiving threads |
| unzip and zip thread, `lw/ZipFile/*` | `zFile`, queue | `ZipFile`, `UnZipFile`, finish, failed; recursive `zip`, `unzip` | both pipelines, file system, SQLite (`Changename`) |
| send pipeline, `lw/SendFile/SendFileHandler`, `RaptorEncoder*`, `FFMPEG*` | configurations, queues, zip, pictures, video | `StartProgress`, `Encode*`, `GenerateVideo`, finish, failed | main thread, file system, FFmpeg |
| RaptorQ encoder of a file, `lw/SendFile/RaptorEncoderHandler`, `QrcodeUtil` | block and number of the picture being drawn, the directory of pictures | `encodeData` and its colour variants, `encodeSourceBlock`, `encodebytearry` | zip thread, file system, FFmpeg |
| FFmpeg in the process, `cpp/ffmpeg.c`, `ffmpeg_opt.c`, `cmdutils.c`, the image demuxer `src/ffmpeg-3.2.5/libavformat/img2dec.c` | global arrays of files and streams, counts of decoded pictures, slots and time stamps | `jxRun`, `open_input_file`, `process_input`, `do_video_out`, `write_packet`, `flush_encoders`, `exit_program` | called by the FFmpeg thread of every page |
| send page, `lw/SendFile/SendFileActivity` | form fields, chosen path | `onClick`, `checkConfig`, `playVideo`, phase texts | send pipeline |
| camera preview, `lw/Camera/newCameraManager`, `PreviewCallback` | camera, `previewing`, two callback buffers | `openDriver`, `startPreview`, `stopPreview`, `onPreviewFrame` | decoder thread |
| auto focus, `lw/Camera/AutoFocusManager`, `setAutoFocus` | `focusing`, `stopped`, outstanding task of each manager; the page's `isautofocus` | `start`, `stop`, `onAutoFocus`, `autoFocusAgainLater`, retry task, volume keys | camera, receiving page |
| FEC parameters, `orq/Partition`, `DataUtils`, `parameters/*`, `OpenRQ` | none that changes | number of symbols and blocks, partition | encoder, decoder |
| history, file manager, settings, video player, camera configuration, QR code imaging, linear algebra, other native libraries | lists, dialogs, pixels, matrices | - | - |

What is hard here:

* **Kills.** The database row, the log and the zip that takes its place are changed in
  separate steps, and Android may kill the process between (or inside) any two.
* **Replies to whoever is there.** Worker threads do not answer the handler they were built
  with but the one the activity has *when they answer*, and that one is null after `onPause`
  and after `TransmissionComplete`.
* **Threads that outlive the page.** `quitSynchronously` stops the QR decoder behind its
  queued frames and nothing stops the RaptorQ thread; the next visit starts another one on
  the same row and the same log.
* **Snapshots.** The list of incomplete rows is read once per visit.
* **Finish signals.** On both sides they are put at the *front* of three queues in turn, so
  they overtake messages and may meet a thread that has quit, or one that has work left.
* **Thresholds.** A decoding is started at K plus two symbols, in the call that adds the
  symbol; a failed decoding is final for the thread that meets it.
* **Shared names.** On the sending side the zip of a file has one path, whoever makes it, and
  every page has a thread that may run FFmpeg on the same global variables.
* **A program used as a library.** FFmpeg's `exit_program` cleans up and, here, returns; what
  it freed stays counted until the end of the run, and some counts are never set back.
* **Lent memory.** The camera gets a frame's buffer back before the decoder has read it.
* **Errors that are logged.** Pictures that could not be written leave holes and spoilt files,
  and the exit code of FFmpeg is dropped. On the receiving side the log, the zip and the unzip
  may fail, and what follows is done all the same.
* **Whatever is in sight.** Any QR code reaches the RaptorQ thread, which compares the
  parameters of the first packet only.

`PROJECT.json` lists these hazards line by line with the properties that watch them.

What makes each component correct:

* *Source block decoder*: what it says of itself (DECODED, DECODING_FAILURE, INCOMPLETE) is
  true of the symbols it holds now, nothing is forgotten, and enough repetition decodes it.
* *Resumable reception*: what the user has been told is received is on disk and can be
  resumed, but for the packets whose own writing failed; only whole files of one sender are
  unzipped, unless something foreign got in or the zip could not be written; a completed row is
  final; a kill at any point costs time but not the file.
* *Receive and send pipelines*: signals reach a thread that can take them, configuration
  comes before work and the end after it, and the chain of threads neither stops short nor
  stays.
* *Encoder and FFmpeg*: every packet is in the video, at its place, whatever happened to
  other pictures; a run is judged by its own errors.
* *Camera preview*: a frame is read as it was taken, within what two buffers can give, and a
  page that was left tells its decoder nothing more.
* *Auto focus*: retries neither multiply nor die out, and a page that was left is quiet.

## Modules

| module | models |
|---|---|
| `SymbolsState` | `SymbolsState` and `putEncodingPacket` of the block decoder as a record (source, repair, overhead, state) and pure operators; the packets' ESIs; used by all receiving modules |
| `SymbolsStateProofs` | lemmas about its operators, used by the proofs of all receiving modules |
| `SourceBlockDecoder` | the decoder object as a state machine: `putEncodingPacket` and `setSymbolOverhead` |
| `SourceBlockDecoderProofs` | its theorems |
| `ResumableTransfer` | abstract: what a resumable reception promises |
| `RaptorQReceiver` | the RaptorQ thread, the unzip thread, table and files, with kills; shown to implement `ResumableTransfer` |
| `RaptorQReceiverProofs` | its theorems, and that it implements `ResumableTransfer` |
| `ReceivePipeline` | the threads, queues and signals of the receiving page over several visits |
| `ReceivePipelineProofs` | its theorems |
| `SendPipeline` | the threads, queues and signals of the sending page over several visits |
| `SendPipelineProofs` | its theorems |
| `FECParameters` | how a file is cut into symbols and source blocks: pure operators |
| `PictureVideo` | one process that makes videos: the encoder's loops and pictures, FFmpeg from the directory of pictures to the frames in the file, and the way out of `jxRun` |
| `PictureVideoProofs` | its theorems, and those about `FECParameters` |
| `CameraPreview` | the two callback buffers between the camera, the main thread and the decoder thread, over a visit |
| `CameraPreviewProofs` | its theorems |
| `CameraFocus` | the focus managers of the receiving page, their retry tasks and the keys that lock and unlock the focus |
| `CameraFocusProofs` | its theorems |
| `MC...` | model values and definitions for the configurations |

`SymbolsState` has no variables; `SourceBlockDecoder` wraps it in a state machine, and
`RaptorQReceiver` and `ReceivePipeline` extend it for the decoder inside the RaptorQ thread,
so that the three share one definition of `Put`. `RaptorQReceiver` and `ReceivePipeline`
look at the same threads from two sides: the first keeps every step that touches the disk
and one visit at a time, the second keeps the queues and the threads of several visits at
once and takes what a RaptorQ thread does to the disk as one step. `SendPipeline` and
`PictureVideo` divide the sending side in the same way: the first has the threads of several
pages and takes a drawing and an FFmpeg run as a step with its possible outcomes, the second
has the steps of one drawing and one run after the other. The outcomes that `SendPipeline`
allows (pictures lost without a word, a video that fails silently, the end of the process) are
the ones `PictureVideo` produces. `ReceivePipeline` takes the content of a frame as read when
it is posted; `CameraPreview` says when that is so.

## How the models correspond to the code

**SymbolsState, SourceBlockDecoder.** The record `symbols` is the inner class `SymbolsState`:
`sources` the bit set of source symbols, `repairs` the keys of the repair map, `state` the
`SourceBlockState`, `overhead` the symbol overhead. `AddSource`, `AddRepair` and `Decode` are
the methods of that class and `decode()`; `Put` is `putEncodingPacket` with the early returns
for a decoded block and for symbols that are held already. All of it runs under one lock, so
a call is a step. Bytes and matrices are abstracted: `Singular` is the family of ESI sets that
cannot be solved, because the rank of the constraint matrix depends on the ESIs alone.

**RaptorQReceiver.** `rpc` is where `handleMessage` of the RaptorQ thread stands; `hasinit`,
`list`, `cur`, `check`, `num` are the fields of `RaptorQDecoderHandler`, `dec` the decoder and
`held` the packets its data came from. `rows` is the table `File_Logs`, `disk` the content of
each `tmp<time>.tmp` as a sequence of records (whole or torn) or zip bytes, `out` what was
unzipped. Each change of table or file is an action; `Kill` may come between any two, and
`KillInWrite` inside the write of the zip or of a record: the default symbols make records longer
than the blocks of 1024 bytes in which the object stream hands them to the file. `ReadObject` says
what a later visit can read back: up to the first byte that is not a record, a torn record
completed with the bytes behind it. `DeleteEmptyFile` deletes files but, its SQL being compiled
and never stepped, no rows.

Every file operation whose `IOException` the code catches has a branch in which it fails
(`Fault`): `writeObject` leaves nothing or a part of the record, and the packet is counted
(`WritePacket`, `DecodeFirst`); the first packet's stream may not open again (`oos`); the zip
may be absent or partial, and `Complete` and `SendToUnzip` follow (`SaveZip`); a log may not open
for its replay (`RestartDecode`); and an unzip may fail, after which nothing is sent and the zip
is deleted (`UnZipFile`, `DeleteZip`).

A message is a code of any file, or of none (`Junk`). `Receive` offers the codes that belong to
the reception under way, `ReceiveStray` all others, at any time. In `CompareWithList` a code that
is no packet throws, in the handling of the first packet, where the exception is caught
(`DropFirst`). Later `decodeRaptor` does not look at the parameters: of a foreign code either
`value()` throws and nothing catches it (`DecodeForeign`), or its symbol is put among the others
(`DecodeRaptor`). Which of the two depends on sizes and numbers that the model leaves out, so
both are possible for a packet of another file. Every other uncaught exception ends the process,
too (`Die`). The observers say
what has happened: `stray` the message at hand, `spoilt` the receptions that took something in
that is not theirs or could not write their zip, `lost` the packets counted without their record,
`handed` how often the unzip thread was told in this visit.

For a block of one symbol the log decodes by itself: `RestartDecode` hands the file over, and
`handleMessage` goes on to `decodeRaptor` with the packet that resumed it, which decodes again
(`resuming`).

**ReceivePipeline.** `dq`, `rq`, `zq` and `mq` are the message queues of the three loopers
of each visit and of the main thread; `Post` and `PostAtFront` drop what is sent to a looper
that has quit. A decoding or an unzip may fail in any visit, and nothing is announced then
(`failed`). Codes of other files and failing writes are in `RaptorQReceiver`. `handler` is
`ReceiveActivity.handler`, read when a reply is sent, and null
after `onPause` and `TransmissionComplete`. A decoder thread cuts the code out of a frame
with the camera manager of that moment and sends it on later, hence `reading` and two steps.

**SendPipeline.** `todo` is the rest of the three sends of `StartProgress`; `zips` is the
file system, one zip per chosen file whichever visit makes it; `zip`, `raptor`, `ffmpeg` are
the threads of each visit. `WriteZip` is separate from `OpenZip`, and `Encode` from
`EncodeComplete`, because another visit may write or delete the zip in between. `failed`
remembers a failure that the code only logs: a failed zip or drawing, pictures that
`EncodeComplete` leaves behind incomplete, a video FFmpeg did not make. `raced` holds the
visits whose FFmpeg ran together with another one's; on shared global variables such a run may
give anything, never return (`FFmpegHangs`) or end the process (`FFmpegCrashes`). The latter
is also possible for a run on its own, as `PictureVideo` shows, and it is certain for a path
with a space (`Spaced`), at which the command line falls apart. `crashed` tells an exception of
Java from an end inside FFmpeg, because only the former is a matter of the threads' order.

**FECParameters.** The operators have the names and the integer divisions of `ExtraMath`,
`Partition`, `DataUtils` and `ParameterChecker`, with `K_max` a parameter. The bounds that the
library checks on its arguments are left out; they keep the sums within 32 and 64 bits.

**PictureVideo.** `stage` is where the encoder thread and then the FFmpeg thread stand. The
encoder's loops are `NextPicture`: K pictures of source packets, K + 1 of repair packets (the
counter that is passed to `numberOfRepairSymbols` has been incremented already), numbered from
1 in every block. `disk` is the directory: a picture is whole, cut off (FFmpeg opens it, and may
decode it or not) or empty (it cannot even be read). Symbols that fit no code throw for the
source packets of black and white codes and for the repair packets of colour codes, and are
logged otherwise (`DrawNothing`). `FirstIndices` and `LastIndex` are the search for the range of
numbers; `Powers` are the distances it doubles up to, as far as a block of `KMax` symbols can
have pictures. `AtEnd` is the end of reading, also at a hole; `pts` counts the pictures read and thereby
is their time. `FramesFor` and `DoVideoOut` are the constant frame rate: a picture whose slot
has not come repeats what was shown, in numbers of tenths because the thresholds are 1.1 and
0.6, and `nb0` is the history whose median (`MidPred`) decides what is repeated at the end. Input and
output have the same rate, so a picture lasts one slot. `WriteFrames` leaves out the frames that
the video encoder still holds back (`Delay`) and may fail, after which nothing more is written
or read. `globals` follows `exit_program`: "freed" means that the arrays are gone and still
counted, so that a second clean-up follows a freed pointer. Undefined behaviour, after a failed
opening or a second clean-up, is taken as the end of the process. `own` is an observer: what
`errors` counts, for this run only.

**CameraPreview.** A frame is named by its number, a message by the buffer and the frame it
was posted for, and `content` says which frame a buffer really holds. The camera is the
environment: it takes the free buffers in the order they were given, and calls back later. A
frame begun when the preview stops may still be delivered, one begun when the camera is
released may not. `dq` is the queue of the decoder thread of this visit; `Decode` and `Decoded`
are the two ends of reading a buffer. A finish signal may be delivered after the page was left.

**CameraFocus.** A manager is a record; its synchronised methods are operators that give the
states a call may leave (the camera may refuse, the thread pool may reject). The actions are
what calls them: the page, the keys, the camera's callback, the tasks that have slept. A
camera is named by the visit that opened it, and the opening that fails is left out: no
manager is built then. `alive`, `starts`, `rejected` and `late` are observers: the tasks that
have not ended, the calls of `start` from outside, and what has happened to the manager.

**ResumableTransfer** is the promise: packets are saved one at a time and never lost one by
one, storage holds packets or the whole file, a reception is completed once and with the
whole file in place, and only completed receptions are delivered. A reception may be spoilt
(`Spoil`): it keeps its packets and its phases, but nothing is promised of its contents.
`RaptorQReceiver` maps `rows` to `phase`, readable logs to `saved`, whole zips to `whole`, and
the observer `spoilt` to itself. A failing write of a record leaves the log as it was to a
reader, a stutter; a failing write of the zip is `Spoil`.

Definitions whose comment begins "Mutant" are variants of the definition that follows them,
with a plausible mistake; each property of a passing run fails with one of them in place.

## Runs

| run | question | bounds | distinct states |
|---|---|---|---|
| `decoder` | do state and symbols of a block stay consistent, and does repetition decode it? | K = 4, K + 1 repair symbols, packets of 1-2 symbols, overhead 2 raised beyond its cap | 886 |
| `receiver` | is progress real and saved, which exceptions end the process, and does the receiver implement resumable transfer, with kills, failing writes and foreign codes anywhere? | K = 2, 3 repair symbols, one singular set, 2 visits, 1 kill, 1 fault, one packet left in the queue | 1 010 645 |
| `receiver_short` | is what is unzipped whole, how often is it handed over, is a completed row final, when a log decodes by itself? | K = 1, 3 repair symbols, 3 visits, 2 kills, 1 fault | 1 323 492 |
| `receiver_two_files` | are two senders kept apart, and is the file received in the end? | K = 2, 2 repair symbols, two files, 2 visits, 1 kill, 1 fault | 1 760 810 |
| `receiver_purge`, `receiver_reread` | see Findings | the smallest that show it | - |
| `pipeline` | do the threads of two visits harm an undisturbed page? | K = 2, one singular set, 2 visits, 1 packet on its way | 3 467 390 |
| `pipeline_live` | is the file announced unless a decoding or an unzip fails? | K = 2, one singular set, 1 visit, 2 packets on their way | 19 530 |
| `send` | do configuration, work and finish keep their order, is the video played, do the threads end? | 2 visits, 2 ordinary files, one without a dot, one with a space | 98 079 |
| `video` | do frames keep the time of the pictures, is everything shown, is a run rated by its own errors? | 2 videos, zips of 1 and 5 symbols in blocks of at most 3, 4 failures | 1 708 678 |
| `preview` | is a frame read as it was taken, and does anything get behind the stop? | 6 frames, 1 visit | 1 874 |
| `focus` | do retries neither multiply nor die out, and is a page that was left quiet? | 2 visits, 3 managers, 3 tasks | 74 309 |

Why these are enough:

* *Block size.* The code compares sizes with K and K + 2 and tells source from repair symbols
  and nothing else. With K = 2 and three repair symbols a block can be completed by its
  last source symbol, decoded with the overhead, or fail and be decoded by one more; the
  encoder emits 2K + 1 symbols in the same way. K = 1 is no corner case: with symbols of 1935
  bytes it is any short file, and the only one whose log decodes by itself, so
  `receiver_short` is about it. K = 4 leaves room in `decoder` for packets of two symbols that
  overlap what is held.
* *Visits and kills.* A visit leaves something on disk, the next resumes it, and in
  `receiver_short` the third meets what the second made of a damaged log; the second kill hits
  a visit that is itself repairing a first one. A bound on visits makes the last one
  undisturbed, which is what `EventuallyReceived` is about. One visit is enough in
  `pipeline_live`, whose property is about pages that are not left early.
* *Faults.* One fault is a foreign code or a failing file operation at any place, with a kill
  before or after it. Two of them meet in the theorems, which hold for any number.
* *Files.* Rows are told apart by their parameters alone, so two files with different ones
  are the interesting case. Files with equal parameters are mixed up by design of the code.
* *Queues.* One packet already lets a finish signal overtake it, and two let it arrive
  between them. `MaxLeftover` is the number of packets handled after the page was left; the
  first meets the old list, and later ones meet the same state.
* *Videos.* Five symbols in blocks of at most three give a block of three and one of two, so
  the second leaves two of the seven pictures of the first behind. It takes a lost picture to
  read on in the wrong place, and four failures in the last pictures until the median of
  repeated frames is not zero at the end. A second video is rated with the counts of the
  first; the theorem covers any number. With a delay of two frames a write may fail before
  anything was written, while frames are held back, and while they are flushed. The numbers
  0 .. 4 are the range FFmpeg tries for the first picture.
* *Frames.* Six frames fill each buffer three times; the theorems cover any number.
* *Focus.* A manager can have two attempts alive (it is started by its constructor and by
  `setAutoFocus`), so three tasks are one more than the property allows. Three managers on
  two visits give a visit with a lock and an unlock, and another visit.

`CHECK_DEADLOCK FALSE` stands where the system really stops: bounds on visits and kills end
every behaviour, loopers quit, a failed zip or drawing leaves threads waiting for ever, and
an uncaught exception or a crash ends the process. `decoder` checks for deadlock.

A block of one symbol is decoded by its first source packet, which `decodeFirst` has put in the
log already. A visit that resumes such a log hands the file over in `RestartDecode` and again in
`decodeRaptor`. `HandedOverOnce` therefore allows two for K = 1 and says that it is never more,
and once for any longer block; `NoUncaughtException` excepts the second handing over, which
may find the database closed, and `UnzipsWholeFiles` is about the first. With two symbols or
more a packet that decodes the block is never logged by the one receiver of this model; logs
written by two receivers are part of `ReceivePipeline` (`Resume`).

## Fairness

* Loopers are weakly fair: a thread with a message runs (`RaptorQ`, `UnZip`, `MainLooper`,
  `DecoderThread`, ...).
* The sender's video is played in a loop (`setLooping(true)` in `lw/SendFile/VideoPlayer`), so every
  packet is shown again and again. A packet may be missed whenever the thread is busy, hence
  strong fairness of `Receive(e)` and `Frame(e)` for each ESI. In `decoder` a call is always
  possible and weak fairness says the same.
* In `receiver_two_files` a user who has not got the file opens the app and the page again
  (`Launch`, `Leave`, `OpenReceive`); kills, pauses and the choice of the file shown are not
  fair.
* A focus task sleeps for two seconds and then runs (`DoInBackground`). The camera's callback
  and the keys are not fair: `LeftPageGoesQuiet` needs neither.

## Proofs

The modules ending in `Proofs` are checked by TLAPS for all values of the constants that
satisfy `BlockAssumption`, `DecoderAssumption`, `ReceiverAssumption`, `PipelineAssumption`,
`SendAssumption`, `VideoAssumption`, `PreviewAssumption` and `FocusAssumption`: blocks with at
least one symbol, natural overheads and caps, packets of at least one symbol, any family of
singular sets, any set of tasks, any number of files, visits, kills and managers, any lengths of
files, any number of videos, failures and frames. Every invariant and every action property
that a passing run checks is a theorem, and so is the refinement.

*Decoder.* `Inv == TypeOK /\ DecodedIsComplete /\ FailureIsCurrent` is inductive. `Put` is the
only hard step; `PutCases` splits it into the call that is ignored, the symbol that is added,
and the addition that starts a decoding, and one lemma each says what `AddSource`, `AddRepair`
and `Decode` keep. `DecodedIsComplete` needs both directions: `Put` ignores decoded blocks,
so a block that held everything without saying DECODED would never recover, and one that
said it without holding everything would freeze. `NeverForgets` follows step by step from the
same lemmas. `NothingPending` is a theorem under one more hypothesis: the values later passed
to `setSymbolOverhead` do not lie below the initial one (stated for one value). It is false
when the overhead is lowered, because `setSymbolOverhead` does not look at the symbols held.

*Resumable reception.* The inductive invariant is `RInv == TInv /\ Parts`. `TInv` is the type
with what it rests on (`Placed`: a reception under way is a row of the table). The parts say,
for every place where the RaptorQ thread may stand, what table, files, list and decoder have to
do with each other, because the properties are about moments when it is idle and every step on
the way must lead back to them:

* `DecoderOK`: while packets are collected, the decoder is exactly what the check array makes
  (`Collecting`), the data came from the same packets, and the number counts them. It needs that
  the check array never has enough symbols to start a decoding (`Collects`), and therefore
* `LogsOK`: no log of two or more symbols that was left behind decodes when it is replayed, and the
  log of a one-symbol file decodes only if it holds that symbol and nothing else (`Loggable`;
  `Readable` is what a reading may return, up to the first damage); a log without damage has
  each packet once.
* `SavedOK`: while a packet is between decoder and disk, the log is behind the check array by
  this packet, during a replay it is ahead by what is still to be replayed, and at all times
  it lacks the packets in `lost`.
* `RowsOK`, `RowOK`, `ListOK`: a file with anything in it belongs to a row with parameters, the
  current row is of the file of the message unless that is stray, and complete only when it is
  about to be handed over, and none of the rows in the list was completed since it was read. That
  is what makes completed rows final, and that the database is open whenever a row is first
  marked.
* `HandedOK`: how often the zip was handed over, by place: a second time only for K = 1, only
  after a replay, with a decoded block.
* `MessageOK`, `FreshOK`, `DownOK`, `ZipOK`: what a message is and where a stray one can get to,
  what is empty at the start of a row, that no thread outlives the process, and that the unzip
  thread works for a RaptorQ thread that has ended or decodes again.

From it follow `TypeOK`, `ProgressIsReal`, `CountedIsSaved`, `HandedOverOnce`,
`NoUncaughtException` and `CompletedIsFinal`, for every K, also 1, any number of faults and
kills, and any files. `UnzipsWholeFiles` and the refinement need one more hypothesis,
`DistinctOti`: two files with equal parameters are one to the code, which does mix them. With it
`DataOK` is inductive relative to `RInv`: of a reception that is not spoilt, what is logged
(`FilesClean`), held (`HeldClean`), about to be replayed (`ReplayClean`) or written
(`WriteClean`) is of the file of its row and, where it is used, whole, and what is handed over
is the whole zip (`ZipWhole`). Torn records are in the files all the same; a reception is
spoilt only when a reading pieces one together with the bytes behind it.

*Refinement.* `RefinesTransferHolds` maps each step of `RaptorQReceiver` to a step of
`ResumableTransfer` or a stutter. Writing a record is the abstract `Save` of its packet when
the log has nothing but whole records before it, and a stutter behind damage (`PrefixAppend`:
what an item appended to a log adds to what can be read); a torn record is a stutter. A row
without parameters is still idle in the abstract, which is why `RowsOK` says that its file is
empty; emptying the log of a decoded block, and a kill inside the write of the zip, are the
abstract `Discard`, and a zip that cannot be written, like a stray symbol, is `Spoil`.

*Receive pipeline.* `IInv == TypeOK /\ Undisturbed`, where `Undisturbed` says what holds until a
page is left before its file was received: no exception, `PageOK` (only the last page has work),
`WorkOK` (the file is with the RaptorQ thread, the unzip thread, or on its way to the activity;
while it is with one of them the others have nothing of it and the handler is there),
`SignalsOK` (the messages that stop a decoder and a RaptorQ thread travel only when the
block is decoded or given up) and `LogOK` (what is on disk is the log of the page at work).
`NoCrashOnUndisturbedPage` needs `WorkOK` for the handler and `SignalsOK` for the threads;
`LogOK` is why a page begins with an empty decoder as long as none was left early. After that
`Resume` loads a log with `FoldSet`, a recursive function. That it leaves a decoder's state
(`LoadedFacts`) rests on a function of the sets of at most n packets for every n (`SmallFold`):
the least n without one (`Least`) is not 0, and what its predecessor has can be extended.

*Send pipeline.* `Stage` divides the work of a visit into nine stages, from `Unstarted` to
`Ending`, and `Broken` for a failed zip or drawing. A stage fixes the state of the three threads,
what may be in their queues (at most a configuration and one message), and what the zip, the
pictures and the video are when the file is not shared. `IInv` says that every visit is
at a stage, that what the main thread has still to send is for a visit being configured (`Sending`), and that phases are
announced in order and none twice (`InOrder`, `Ahead`). The proof of a step names the stage it
leads to, and `Untouched` keeps the stages of the other visits. No thread meets work without a
configuration because the configuration is in front of the work at every stage; `finish`
overtakes nothing because `Filmed` and `Ending` have nothing left to overtake.

*Auto focus.* `Inv == Typed /\ Each /\ Owned /\ Left`. `Each` speaks of one manager: its
outstanding task is alive or forgotten, it has at most as many attempts as it was started
from outside, and it goes on unless stopped or rejected. The count is inductive only because
a task leaves `alive` as it calls `start` and because `start` and `autoFocusAgainLater` look at
`focusing` and the outstanding task. `Owned` says that the open camera is in the hands of the
current manager alone, which is what makes `OneManagerPerCamera` survive `UnlockFocus` and
`OpenPage`. `Left` says that a manager still running on a camera that is not open belongs to
a page that received its file; for it one needs that an open camera without a handler means
exactly that. Since managers only change through `Start`, `Stop` and `AutoFocusAgainLater`,
what these keep is proved once on records (`AgainLaterFacts`, `StartFacts`, `StopFacts`) and
lifted by `OwnStep` (one manager changes) and `BuiltStep` (one is added); the lemma of each
action names the manager it changes.

*Partition* (in `PictureVideoProofs`). `PartitionIsComplete` says that the long and short blocks have all the symbols
between them, and differ by one at most; `BlocksFit` that with the fewest blocks the library
allows no block is empty or exceeds K_max, which is why the numbers of pictures in
`PictureVideo` are bounded. Both rest on the uniqueness of quotient and remainder (`DivUnique`)
and on `CeilDivLeast`.

*Error rate.* FFmpeg fails a run when more than two thirds of the pictures could not be
decoded, by counts that are never set back. `BlamedForOwnErrors` says that nobody is blamed for
an earlier run: of two runs one of which has an acceptable rate, the sum can only be
unacceptable because of the other (`BlameIsOwn`, the mediant of two fractions lies between
them). The invariant therefore carries `BeforeOK`: what the earlier runs counted together is
acceptable. It holds because a run with an unacceptable rate calls the clean-up twice and does
not survive it, and that needs `OpenOK`: at this point the files are open, so the first
clean-up does free them. Were the clean-up harmless, the property would be false, as its
mutant shows.

*Making of the video.* `TypeOK` follows from `Typed`. The only hard part is the range of
numbers: `LastFrom` is recursive with no bound in sight, and that such a function exists is
shown from the largest number a picture can have downwards (`LeastNumber`).
`LastIndexFacts` says that the search ends at a picture behind which the next is missing.
`ShownInPlace` follows from `Placed`: the frames fill consecutive slots (`InSlots`), every whole
picture that was read is in the slot of its number (`InPlace`), and the video is never ahead of
the pictures (`NotAhead`), so that `FramesFor` fills the slots of lost pictures and leaves none
out. `LastBlockShown` follows from `Whole`: while nothing has failed, `Complete` says for every
stage which pictures are drawn (`Drawn`: the numbers are 1 to m without a hole, the first are
those of the block being drawn), that a frame of each picture read is in the video, and at the
end that all frames were written.

*Preview.* `DoubleBuffered` follows from `InTurn`: the camera, the callbacks and the free list
have the two buffers between them, none twice, in the order of the frames, so that frame n is
in the buffer of its parity (`B`) and the buffer is not begun again before frame n + 2. Once
the camera is closed nothing is begun, and the invariant lets `InTurn` go. `NothingBehindStop`
needs that whoever posts stop has taken the handler out of the callback (`Stopped`).

Only model-checked: liveness (`EventuallyDecoded`, `EventuallyReceived`, `EventuallyAnnounced`,
`EventuallyPlayed`, `ThreadsEnd`, `LeftPageGoesQuiet`), because liveness
under fairness and ENABLED are out of the prover's reach. What the two violating runs of the
next section show, they show on their small instances.

## Findings

* `receiver_purge`: `DeleteEmptyFile` runs its `delete` through `rawQuery` and never steps the
  cursor, so a row left without parameters by a kill stays; every comparison that reaches it
  fails, and the file of a newer row is not received. `EventuallyReceived` therefore assumes
  that there is no such row.
* `receiver_reread`: the zip is written under the name of the log, and a record in several
  writes. After a kill in between, records of later visits are appended behind zip bytes or a
  torn record and never read back.

What else the models contain, and no run is about:

* The list of incomplete rows is read once per visit. A packet still queued after the page was
  left during the first one starts a second row for a file that the database has, in the
  branch whose comment says that the database has no data (`RaptorQDecoderHandler.java:186`).
* `isautofocus` outlives the camera manager it describes, so after a pause with locked focus
  the keys announce the opposite of what they do (`ReceiveActivity.java:158`).
* A page that received its file leaves its focus manager asking a released camera every two
  seconds for ever, and its preview handler in place.
* A failed decoding gives up the log although one more symbol might solve the system, and the
  page waits for ever; so it does after a failed unzip, whose message is obtained and not sent.
* A file of one symbol whose reception is resumed is handed over twice, and the second
  `Complete` may find the database closed (`RaptorQDecoderHandler.java:89`, `237-252`).
* A packet is counted although its record could not be written, and a zip that could not be
  written is announced as complete (`RaptorQDecoderHandler.java:119-139`).
* A QR code that is no packet ends the process when it meets a reception under way
  (`RaptorQDecoderHandler.java:105`).
* The QR decoder is not told to finish when the last source symbol completes the block.
* `cmdutils.h:60` says that `exit_program` wraps exit; here it returns, and every fatal error
  of FFmpeg continues on what was freed.
* `newCameraManager.java:48` says that the handler of the preview is cleared after one message;
  it gets every frame until the preview is stopped.
* A file of several source blocks, which the page does not lead to, would be shown as its last
  block and a rest of the one before: the pictures of each block overwrite those of the last.

## Not modelled

* On the receiving side: files of several source blocks, which the sending page does not lead to;
  and reads that fail although the bytes are there.
* Image processing (colour QR codes, ZXing, framing), matrices, codecs, muxers and filters:
  data without the control the properties are about. A code is read or not; a set of ESIs is
  solvable or not; a picture can be decoded or not.
* The rest of FFmpeg, and the vendored libyuv and OpenCV. They are more than nine tenths of the
  lines of the repository, third-party, and this program runs one command line of them. Hence
  the share of all lines that the map covers is small, and will be; it is the program's own
  Java code and the FFmpeg code that its command line reaches that are mapped.
* Camera configuration: a one-time choice among parameters.
* History, file manager and settings pages: lists and dialogs over data modelled elsewhere.
* The legacy merge thread: nothing starts it.
* Derivation and checks of FEC parameters: `newParameters` is called with values that pass
  them; interleaving is off.
* The recursive `zip` and `unzip` of a directory tree and `checkConfig` of the send page:
  straight-line code over the file system and a form, whose outcome (whole, partial, failed)
  is what the threads' models use.
* Progress texts, toasts and the drawing of frames: of them only that they need a handler.

## Plan

The order followed the weight of the behaviour: decoder, resumable reception with its abstract
specification, receive pipeline, send pipeline, auto focus, and the proofs of decoder and auto
focus; then FEC parameters, the making of the video and the camera preview with their proofs;
then the proofs of the receiver with its refinement, of both pipelines and of the rest of the video.
What comes next:

1. Deletion of history rows against a reception under way; the receivers of overlapping
   visits on one log, which joins `RaptorQReceiver` and `ReceivePipeline`.
2. The round trip of `zip` and `unzip` over a directory tree, and `checkConfig`, as pure
   operators.
