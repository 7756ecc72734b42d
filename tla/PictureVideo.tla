----------------------------- MODULE PictureVideo -----------------------------
(***************************************************************************)
(* From the zip to the video.  The encoder draws the packets of each       *)
(* source block as pictures with consecutive numbers; FFmpeg, run inside   *)
(* the process, finds the range of numbers, reads and decodes the pictures *)
(* and makes one frame of each, at the pace of the numbers.  Errors of the *)
(* file system while drawing are logged and the drawing goes on, so that   *)
(* pictures may be missing or spoilt.                                      *)
(***************************************************************************)
EXTENDS FECParameters, Sequences

CONSTANTS
  Lengths,    \* lengths of the zips that may be sent
  T,          \* symbol size
  KMax,       \* most symbols a source block may have
  StartRange, \* numbers 0 .. StartRange - 1 are tried for the first picture
  Probe,      \* pictures looked at to learn their format
  Delay,      \* frames the video encoder holds back
  MaxVideos,  \* bound: videos made in one process
  MaxFaults   \* bound: pictures and writes that fail

ASSUME VideoAssumption ==
  /\ Lengths \subseteq Nat \ {0} /\ T \in Nat \ {0} /\ KMax \in Nat \ {0}
  /\ StartRange \in Nat /\ Probe \in Nat \ {0} /\ Delay \in Nat
  /\ MaxVideos \in Nat \ {0} /\ MaxFaults \in Nat

VARIABLES
  video,    \* number of the video being made
  stage,    \* where the encoder thread and then the FFmpeg thread stand
  length, symbols,  \* of the file; whether a symbol fits into a code, and into which if not
  block, next,            \* encoder: the block and the number of the next picture
  disk,     \* the pictures in the directory of this video: number |-> packet and kind
  globals,  \* FFmpeg's files and streams: closed, open, or freed and still counted
  img, last, pts,         \* demuxer: next number, last number of the range, next time stamp
  sync, frames, lastFrame, nb0,  \* output stream: next slot, frames made, and so on
  written, muxing,        \* frames in the file, whether it is still being written
  errors,   \* pictures decoded and not decoded since the process started
  own,      \* ... in this run
  faults    \* nothing has failed for this video, and how much has failed for all

encoder == <<length, symbols, block, next, disk>>
demuxer == <<img, last, pts>>
output  == <<sync, frames, lastFrame, nb0>>
muxer   == <<written, muxing>>
vars    == <<video, stage, encoder, globals, demuxer, output, muxer, errors, own, faults>>

\* A picture that cannot be drawn or a write that fails.
Fault == [clean |-> FALSE, count |-> faults.count + 1]

NoPicture == [packet |-> [sbn |-> 0, esi |-> 0], kind |-> "none"]

-----------------------------------------------------------------------------
(* The encoder.                                                            *)

Blocks == MinAllowedNumSourceBlocks(length, T, KMax)
K(sbn) == GetK(length, T, Blocks, sbn)

\* Mutant: each block is drawn with as many packets as the whole file has.
PicturesOfFile(sbn) == 2 * TotalSymbols(length, T) + 1

\* Each block numbers its pictures from 1: K source packets, then the repair packets of
\* numberOfRepairSymbols, which is called with the number after the source packets.
PicturesOf(sbn) == K(sbn) + (K(sbn) + 1)
PacketAt(sbn, n) == [sbn |-> sbn, esi |-> n - 1]

Exists(n)   == n \in DOMAIN disk
Put(n, x)   == [m \in DOMAIN disk \cup {n} |-> IF m = n THEN x ELSE disk[m]]
Picture(kind) == [packet |-> PacketAt(block, next), kind |-> kind]

Init ==
  /\ video = 0 /\ stage = "idle"
  /\ length = 1 /\ symbols = "fit" /\ block = 0 /\ next = 1 /\ disk = <<>>
  /\ globals = "closed" /\ img = 0 /\ last = 0 /\ pts = 0
  /\ sync = 0 /\ frames = <<>> /\ lastFrame = NoPicture /\ nb0 = <<0, 0, 0>>
  /\ written = 0 /\ muxing = FALSE
  /\ errors = [good |-> 0, bad |-> 0] /\ own = [good |-> 0, bad |-> 0]
  /\ faults = [clean |-> TRUE, count |-> 0]

\* A zip is read and cut into blocks; the pictures go to a new directory.
StartVideo ==
  /\ stage \in {"idle", "played", "notDrawn"} /\ video < MaxVideos
  /\ video' = video + 1 /\ stage' = "drawing"
  /\ length' \in Lengths /\ symbols' \in {"fit", "tooLarge", "tooLargeForColour"}
  /\ block' = 0 /\ next' = 1 /\ disk' = <<>>
  /\ frames' = <<>> /\ written' = 0 /\ muxing' = FALSE
  /\ own' = [good |-> 0, bad |-> 0]
  /\ faults' = [faults EXCEPT !.clean = TRUE]
  /\ UNCHANGED <<globals, demuxer, sync, lastFrame, nb0, errors>>

\* After the last picture of a block comes the next block, and after the last block FFmpeg.
NextPicture ==
  IF next < PicturesOf(block)
  THEN next' = next + 1 /\ UNCHANGED <<block, stage>>
  ELSE IF block + 1 < Blocks
  THEN next' = 1 /\ block' = block + 1 /\ UNCHANGED stage
  ELSE stage' = "opening" /\ UNCHANGED <<block, next>>

\* encodebytearry and its colour variants; the file may turn out whole, cut off or empty,
\* or not be opened at all, which leaves what was there.  None of this stops the drawing.
DrawPicture ==
  /\ stage = "drawing" /\ symbols = "fit"
  /\ \/ disk' = Put(next, Picture("whole")) /\ UNCHANGED faults
     \/ /\ faults.count < MaxFaults /\ faults' = Fault
        /\ \/ \E kind \in {"cut", "empty"} : disk' = Put(next, Picture(kind))
           \/ UNCHANGED disk
  /\ NextPicture
  /\ UNCHANGED <<video, length, symbols, globals, demuxer, output, muxer, errors, own>>

\* A symbol that is too large for a code: drawing source packets of black and white codes
\* and repair packets of colour codes throws, the others are logged.
DrawNothing ==
  /\ stage = "drawing" /\ symbols # "fit"
  /\ IF symbols = "tooLargeForColour" /\ next <= K(block)
     THEN next' = next + 1 /\ UNCHANGED <<block, stage>>
     ELSE stage' = "notDrawn" /\ UNCHANGED <<block, next>>
  /\ UNCHANGED <<video, length, symbols, disk, globals, demuxer, output, muxer, errors,
                own, faults>>

-----------------------------------------------------------------------------
(* Opening the pictures and the video.                                     *)

FirstIndices == {n \in 0 .. StartRange - 1 : Exists(n)}
Least(S)     == CHOOSE n \in S : \A m \in S : n <= m
Greatest(S)  == CHOOSE n \in S : \A m \in S : n >= m

\* find_image_range doubles the distance while the picture there exists; no picture is
\* further away than the number of the last one, 2 * KMax + 1 at most, which is at most
\* 2 ^ (KMax + 1) ...
Powers == {d \in 1 .. 2 * KMax + 1 : \E k \in 0 .. KMax + 1 : d = 2 ^ k}
Jump(n) == LET S == {d \in Powers : \A e \in Powers : e <= d => Exists(n + e)}
           IN IF S = {} THEN 0 ELSE Greatest(S)

\* ... and starts again from there until the next one does not.
LastIndex(first) ==
  LET from[n \in Nat] == IF Jump(n) = 0 THEN n ELSE from[n + Jump(n)]
  IN from[first]

Readable(n) == Exists(n) /\ disk[n].kind # "empty"

\* The pictures looked at to learn their size: the first ones, as far as they can be read.
Probed(first) == {n \in first .. first + Probe - 1 : \A m \in first .. n : Readable(m)}

Crash == stage' = "crashed" /\ UNCHANGED <<video, encoder, demuxer, output, muxer, errors, own, faults>>

\* open_input_file, open_output_file.  exit_program frees what is open and returns: without
\* a first picture the input is used although it is not there; without a picture that tells
\* the size the output cannot be opened, and what has been freed is used.
Open ==
  /\ stage = "opening"
  /\ \/ /\ FirstIndices = {} /\ Crash /\ UNCHANGED globals
     \/ /\ FirstIndices # {}
        /\ \A n \in Probed(Least(FirstIndices)) : disk[n].kind # "whole"
        /\ Crash /\ globals' = "freed"
     \/ /\ FirstIndices # {}
        /\ \E n \in Probed(Least(FirstIndices)) : disk[n].kind \in {"whole", "cut"}
        /\ img' = Least(FirstIndices) /\ last' = LastIndex(Least(FirstIndices)) /\ pts' = 0
        /\ sync' = 0 /\ frames' = <<>> /\ lastFrame' = NoPicture /\ nb0' = <<0, 0, 0>>
        /\ written' = 0 /\ muxing' = TRUE
        /\ globals' = "open" /\ stage' = "reading"
        /\ UNCHANGED <<video, encoder, errors, own, faults>>

-----------------------------------------------------------------------------
(* Transcoding.                                                            *)

\* The one of three numbers that is between the others.
MidPred(t) == CHOOSE x \in {t[1], t[2], t[3]} :
                \E i, j, k \in 1 .. 3 : {i, j, k} = 1 .. 3 /\ t[i] <= x /\ x = t[j] /\ x <= t[k]
SmallerOf(a, b) == IF a < b THEN a ELSE b

\* lrintf of a number of tenths, which is never half way here.
Round(tenths) == (tenths + 5) \div 10

\* do_video_out, constant frame rate: how many frames bring the video up to the end of a
\* picture that begins delta0 and ends delta after the next slot, and how many of them show
\* the previous picture.
FramesFor(delta0, delta) ==
  LET nb   == IF 10 * delta < -11 THEN 0 ELSE IF 10 * delta > 11 THEN delta ELSE 1
      prev == IF 10 * delta > 11 /\ 10 * delta0 > 11 THEN Round(10 * delta0 - 6) ELSE 0
  IN [nb |-> nb, prev |-> SmallerOf(prev, nb)]

\* nb frames from slot on, prev of them showing the last picture.
Repeat(slot, nb, prev, x) ==
  [i \in 1 .. nb |-> [slot |-> slot + i - 1,
                      shows |-> IF i <= prev /\ lastFrame # NoPicture THEN lastFrame ELSE x]]

\* write_packet: what has left the encoder goes into the file, until a write fails.
WriteFrames(ready) ==
  \/ /\ muxing /\ written' = (IF ready > written THEN ready ELSE written)
     /\ UNCHANGED <<muxing, faults>>
  \/ /\ muxing /\ ready > written /\ faults.count < MaxFaults
     /\ written' \in written .. ready - 1 /\ muxing' = FALSE /\ faults' = Fault
  \/ ~muxing /\ UNCHANGED <<written, muxing, faults>>

\* The initial offset is not filled with frames (VSYNC_VSCFR).
DoVideoOut(x, ipts) ==
  LET begin == IF frames = <<>> /\ 10 * (ipts - sync) >= 5 THEN ipts ELSE sync
      f     == FramesFor(ipts - begin, ipts - begin + 1)
  IN /\ frames' = frames \o Repeat(begin, f.nb, f.prev, x)
     /\ sync' = begin + f.nb
     /\ lastFrame' = x
     /\ nb0' = <<f.prev, nb0[1], nb0[2]>>
     /\ WriteFrames(Len(frames') - Delay)

\* At the end do_video_out is called without a picture.
FlushVideoOut ==
  LET nb == MidPred(nb0)
  IN /\ frames' = IF lastFrame = NoPicture THEN frames ELSE frames \o Repeat(sync, nb, nb, lastFrame)
     /\ sync' = sync + nb
     /\ lastFrame' = NoPicture
     /\ nb0' = <<nb, nb0[1], nb0[2]>>
     /\ WriteFrames(Len(frames') - Delay)

AtEnd == img > last \/ ~Readable(img)

\* Mutant: the time stamps only advance for pictures that are decoded.
ReadPictureUntimed ==
  /\ stage = "reading" /\ muxing /\ ~AtEnd
  /\ img' = img + 1
  /\ UNCHANGED <<video, stage, encoder, globals, last>>
  /\ \/ /\ pts' = pts + 1
        /\ errors' = [errors EXCEPT !.good = @ + 1] /\ own' = [own EXCEPT !.good = @ + 1]
        /\ DoVideoOut(disk[img], pts)
     \/ /\ disk[img].kind = "cut" /\ pts' = pts
        /\ errors' = [errors EXCEPT !.bad = @ + 1] /\ own' = [own EXCEPT !.bad = @ + 1]
        /\ UNCHANGED <<output, muxer, faults>>

\* process_input and what follows it: one picture is read, decoded or not, and shown.
ReadPicture ==
  /\ stage = "reading" /\ muxing /\ ~AtEnd
  /\ img' = img + 1 /\ pts' = pts + 1
  /\ UNCHANGED <<video, stage, encoder, globals, last>>
  /\ \/ /\ errors' = [errors EXCEPT !.good = @ + 1] /\ own' = [own EXCEPT !.good = @ + 1]
        /\ DoVideoOut(disk[img], pts)
     \/ /\ disk[img].kind = "cut"
        /\ errors' = [errors EXCEPT !.bad = @ + 1] /\ own' = [own EXCEPT !.bad = @ + 1]
        /\ UNCHANGED <<output, muxer, faults>>

\* Nothing more to read, a picture that is missing included.
EndOfPictures ==
  /\ stage = "reading" /\ muxing /\ AtEnd
  /\ FlushVideoOut
  /\ stage' = "flushing"
  /\ UNCHANGED <<video, encoder, globals, demuxer, errors, own>>

\* A write has failed: need_output finds no stream that wants more.
StopReading ==
  /\ stage = "reading" /\ ~muxing
  /\ stage' = "flushing"
  /\ UNCHANGED <<video, encoder, globals, demuxer, output, muxer, errors, own, faults>>

\* Mutant: what the encoder holds back is lost.
FlushEncodersNot ==
  /\ stage = "flushing"
  /\ stage' = "rating"
  /\ UNCHANGED <<video, encoder, globals, demuxer, output, muxer, errors, own, faults>>

\* flush_encoders, the trailer, and the closing of encoder and decoder.
FlushEncoders ==
  /\ stage = "flushing"
  /\ WriteFrames(Len(frames))
  /\ stage' = "rating"
  /\ UNCHANGED <<video, encoder, globals, demuxer, output, errors, own>>

-----------------------------------------------------------------------------
(* Leaving jxRun.                                                          *)

\* Mutant: the clean-up clears the counts with the arrays.
ExitProgramClean(returnsTo) ==
  /\ globals' = IF globals = "open" THEN "freed" ELSE globals
  /\ stage' = returnsTo
  /\ UNCHANGED <<video, encoder, demuxer, output, muxer, errors, own, faults>>

\* exit_program no longer exits.  It runs ffmpeg_cleanup, which frees the arrays of files and
\* streams and leaves their counts; run again, it follows the freed arrays.
ExitProgram(returnsTo) ==
  IF globals = "freed" THEN Crash /\ UNCHANGED globals
  ELSE /\ globals' = IF globals = "open" THEN "freed" ELSE globals
       /\ stage' = returnsTo
       /\ UNCHANGED <<video, encoder, demuxer, output, muxer, errors, own, faults>>

\* (good + bad) * max_error_rate < bad, with max_error_rate two thirds.
TooManyErrors(e) == 2 * (e.good + e.bad) < 3 * e.bad

RateErrors ==
  /\ stage = "rating"
  /\ IF TooManyErrors(errors) THEN ExitProgram("exiting")
     ELSE /\ stage' = "exiting"
          /\ UNCHANGED <<video, encoder, globals, demuxer, output, muxer, errors, own, faults>>

Exit == stage = "exiting" /\ ExitProgram("resetting")

\* The counts are set to 0 and jxRun returns; the video is played, whatever it returns.
Reset ==
  /\ stage = "resetting"
  /\ globals' = "closed" /\ stage' = "played"
  /\ UNCHANGED <<video, encoder, demuxer, output, muxer, errors, own, faults>>

Draw      == StartVideo \/ DrawPicture \/ DrawNothing
Transcode == Open \/ ReadPicture \/ EndOfPictures \/ StopReading \/ FlushEncoders
Leave     == RateErrors \/ Exit \/ Reset
Next      == Draw \/ Transcode \/ Leave

Spec == Init /\ [][Next]_vars

-----------------------------------------------------------------------------
(* Properties.                                                             *)

Packets  == [sbn : Nat, esi : Nat]
Pictures == [packet : Packets, kind : {"whole", "cut", "empty"}]
Counts   == [good : Nat, bad : Nat]

\* The variables keep their types, and no block needs more numbers than the largest.
TypeOK ==
  /\ video \in 0 .. MaxVideos /\ faults \in [clean : BOOLEAN, count : 0 .. MaxFaults]
  /\ stage \in {"idle", "drawing", "notDrawn", "opening", "reading", "flushing", "rating",
               "exiting", "resetting", "played", "crashed"}
  /\ length \in Nat \ {0} /\ symbols \in {"fit", "tooLarge", "tooLargeForColour"}
  /\ block \in 0 .. Blocks - 1 /\ next \in 1 .. PicturesOf(block)
  /\ DOMAIN disk \subseteq 1 .. 2 * KMax + 1 /\ \A n \in DOMAIN disk : disk[n] \in Pictures
  /\ globals \in {"closed", "open", "freed"}
  /\ img \in 0 .. 2 * KMax + 2 /\ last \in 0 .. 2 * KMax + 1 /\ pts \in Nat /\ sync \in Nat
  /\ \A i \in DOMAIN frames : frames[i].slot \in Nat /\ frames[i].shows \in Pictures
  /\ lastFrame \in Pictures \cup {NoPicture} /\ \A i \in 1 .. 3 : nb0[i] \in Nat
  /\ written \in 0 .. Len(frames) /\ muxing \in BOOLEAN
  /\ errors \in Counts /\ own \in Counts

\* The pictures that have been read, in this run of FFmpeg.
Begun    == stage \in {"reading", "flushing", "rating"}
ReadSoFar == {n \in DOMAIN disk : img - pts <= n /\ n < img}

\* The video keeps the time of the pictures: its slots follow each other without a gap, and
\* each whole picture that was read is in the slot of its number, whatever was not decoded
\* before it.
ShownInPlace ==
  Begun =>
    /\ \A i \in 2 .. Len(frames) : frames[i].slot = frames[i - 1].slot + 1
    /\ \A n \in ReadSoFar : disk[n].kind = "whole" =>
          \E i \in DOMAIN frames : frames[i].slot = n - (img - pts) /\ frames[i].shows = disk[n]

\* When nothing has failed, the video holds every packet of the last block in the order of
\* their numbers, and nothing else when there is one block: the numbers have no gap that
\* would end the reading, and no frame stays behind in the encoder.
LastBlockShown ==
  stage = "played" /\ faults.clean =>
    /\ \A n \in 1 .. PicturesOf(Blocks - 1) :
          n <= written /\ frames[n].shows.packet = PacketAt(Blocks - 1, n)
    /\ Blocks = 1 => written = PicturesOf(0)

\* A run that is failed for its rate of errors has such a rate of its own, although the
\* counts are never set back: the runs that came before and did not end the process can
\* only have made the rate better.
BlamesOwnErrors ==
  stage = "exiting" /\ globals = "freed" => 2 * (own.good + own.bad) < 3 * own.bad
=============================================================================
