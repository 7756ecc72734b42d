----------------------------- MODULE SendPipeline -----------------------------
(***************************************************************************)
(* Making the video of a file.  Each visit of SendFileActivity has a zip   *)
(* thread, a RaptorQ encoder thread and an FFmpeg thread, loopers that     *)
(* pass the work on: zip the file, draw its packets as pictures, make a    *)
(* video of them, and tell the main thread to play it; the player sends    *)
(* finish back down the same chain.  Visits share the file system: the zip *)
(* of a file has one path, whoever makes it.                               *)
(***************************************************************************)
EXTENDS Naturals, Sequences

CONSTANTS
  Files,      \* files the user may choose
  Dotless,    \* those without a dot anywhere in their path
  Spaced,     \* those with a space in it
  NoFile,     \* nothing chosen yet
  MaxVisits   \* bound: how often the page is opened

ASSUME SendAssumption == NoFile \notin Files /\ Dotless \subseteq Files /\ Spaced \subseteq Files
                       /\ MaxVisits \in Nat \ {0}

Visit == 1 .. MaxVisits

VARIABLES
  file,      \* the configuration of each visit: the file whose video is being made
  todo,      \* main thread: what StartProgress has still to send
  mq,        \* main thread: messages to the SendFileHandlers
  zq, rq, fq,           \* queues of the zip, encoder and FFmpeg threads
  zip, raptor, ffmpeg,  \* state of these threads
  zFile,     \* the zip thread remembers a zip
  ready,     \* handlers that have their configuration
  zips,      \* file system: the zip next to each file
  pictures,  \* what the pictures of a visit were drawn from
  video,     \* what its video shows
  phase,     \* what the page shows
  raced,     \* visits whose FFmpeg ran at the same time as another one
  failed,    \* zipping, drawing or FFmpeg has failed, or a part of it
  crashed    \* whether the process has ended, by an exception or inside FFmpeg

queues  == <<mq, zq, rq, fq>>
threads == <<zip, raptor, ffmpeg>>
data    == <<zFile, ready, zips, pictures, video, raced>>
vars    == <<file, todo, queues, threads, data, phase, failed, crashed>>

Init ==
  /\ file = [v \in Visit |-> NoFile] /\ todo = <<>> /\ mq = <<>>
  /\ zq = [v \in Visit |-> <<>>] /\ rq = [v \in Visit |-> <<>>] /\ fq = [v \in Visit |-> <<>>]
  /\ zip = [v \in Visit |-> "idle"] /\ raptor = [v \in Visit |-> "idle"]
  /\ ffmpeg = [v \in Visit |-> "idle"]
  /\ zFile = [v \in Visit |-> FALSE] /\ ready = {}
  /\ zips = [f \in Files |-> "absent"]
  /\ pictures = [v \in Visit |-> "none"] /\ video = [v \in Visit |-> "none"]
  /\ phase = [v \in Visit |-> 0]
  /\ raced = {} /\ failed = [v \in Visit |-> FALSE] /\ crashed = "no"

-----------------------------------------------------------------------------
Post(q, v, m)        == [q EXCEPT ![v] = Append(@, m)]
PostAtFront(q, v, m) == [q EXCEPT ![v] = <<m>> \o @]
Next1(q, v, m)       == q[v] # <<>> /\ Head(q[v]) = m
Done(q, v)           == [q EXCEPT ![v] = Tail(@)]
Quit(q, v)           == [q EXCEPT ![v] = <<>>]

\* Another visit has started on the same file, and its threads write, read and delete
\* the same zip.
Shared(v) == \E w \in Visit \ {v} : file[w] = file[v] /\ file[w] # NoFile

Running == crashed = "no"

\* An exception that nobody catches ends the process.
Crash == crashed' = "exception" /\ UNCHANGED <<file, todo, queues, threads, data, phase, failed>>

-----------------------------------------------------------------------------
(* The main thread.                                                        *)

\* Mutant: the zip thread is told first.
SendOrderZipFirst(v) == << <<v, "zip">>, <<v, "raptor">>, <<v, "ffmpeg">> >>

\* StartProgress: whom the configuration goes to, in this order.
SendOrder(v) == << <<v, "ffmpeg">>, <<v, "raptor">>, <<v, "zip">> >>

\* The start button, which works once on a page.
StartProgress(v, f) ==
  /\ Running /\ todo = <<>> /\ file[v] = NoFile
  /\ \A w \in 1 .. v - 1 : file[w] # NoFile
  /\ file' = [file EXCEPT ![v] = f]
  /\ todo' = SendOrder(v)
  /\ UNCHANGED <<queues, threads, data, phase, failed, crashed>>

SendConfigs ==
  /\ Running /\ todo # <<>>
  /\ LET v == Head(todo)[1]
         t == Head(todo)[2]
     IN /\ zq' = IF t = "zip" THEN Post(zq, v, "ZipFile") ELSE zq
        /\ rq' = IF t = "raptor" THEN Post(rq, v, "Init") ELSE rq
        /\ fq' = IF t = "ffmpeg" THEN Post(fq, v, "Init") ELSE fq
  /\ todo' = Tail(todo)
  /\ UNCHANGED <<file, mq, threads, data, phase, failed, crashed>>

ShowPhase ==
  /\ Running /\ todo = <<>> /\ mq # <<>>
  /\ Head(mq)[2] \in {"RaptorEncodePhase", "FFmpegPhase"}
  /\ phase' = [phase EXCEPT ![Head(mq)[1]] = IF Head(mq)[2] = "FFmpegPhase" THEN 2 ELSE 1]
  /\ mq' = Tail(mq)
  /\ UNCHANGED <<file, todo, zq, rq, fq, threads, data, failed, crashed>>

\* Mutant: the zip thread is not told to finish.
PlayVideoOnly ==
  /\ Running /\ todo = <<>> /\ mq # <<>> /\ Head(mq)[2] = "finish"
  /\ phase' = [phase EXCEPT ![Head(mq)[1]] = 3]
  /\ mq' = Tail(mq)
  /\ UNCHANGED <<file, todo, zq, rq, fq, threads, data, failed, crashed>>

PlayVideo ==
  /\ Running /\ todo = <<>> /\ mq # <<>> /\ Head(mq)[2] = "finish"
  /\ phase' = [phase EXCEPT ![Head(mq)[1]] = 3]
  /\ zq' = PostAtFront(zq, Head(mq)[1], "finish")
  /\ mq' = Tail(mq)
  /\ UNCHANGED <<file, todo, rq, fq, threads, data, failed, crashed>>

-----------------------------------------------------------------------------
(* The zip thread.                                                         *)

\* Mutant: the encoder is told while the zip is being written.
OpenZipEarly(v) ==
  /\ Running /\ zip[v] = "idle" /\ Next1(zq, v, "ZipFile")
  /\ zip' = [zip EXCEPT ![v] = "zipping"]
  /\ zips' = [zips EXCEPT ![file[v]] = "partial"]
  /\ rq' = Post(rq, v, "Encode")
  /\ UNCHANGED <<file, todo, mq, zq, fq, raptor, ffmpeg, zFile, ready, pictures, video,
                raced, phase, failed, crashed>>

\* zipDirectory opens the zip, which empties it, and writes it.  Either may fail, and the
\* encoder is told which it was; a part of the zip may stay.
OpenZip(v) ==
  /\ Running /\ zip[v] = "idle" /\ Next1(zq, v, "ZipFile")
  /\ zip' = [zip EXCEPT ![v] = "zipping"]
  /\ zips' = [zips EXCEPT ![file[v]] = "partial"]
  /\ UNCHANGED <<file, todo, queues, raptor, ffmpeg, zFile, ready, pictures, video,
                raced, phase, failed, crashed>>

WriteZip(v) ==
  /\ Running /\ zip[v] = "zipping"
  /\ zips' \in [Files -> {"absent", "partial", "whole"}]
  /\ \A f \in Files \ {file[v]} : zips'[f] = zips[f]
  /\ IF zips[file[v]] = "absent" THEN zips'[file[v]] = "absent"
     ELSE zips'[file[v]] \in IF Shared(v) THEN {"partial", "whole"} ELSE {"whole"}
  /\ zFile' = [zFile EXCEPT ![v] = TRUE]
  /\ zip' = [zip EXCEPT ![v] = "idle"]
  /\ zq' = Done(zq, v)
  /\ rq' = Post(rq, v, "Encode")
  /\ UNCHANGED <<file, todo, mq, fq, raptor, ffmpeg, ready, pictures, video, raced, phase,
                failed, crashed>>

ZipFails(v) ==
  /\ Running /\ \/ zip[v] = "zipping"
                 \/ (zip[v] = "idle" /\ Next1(zq, v, "ZipFile"))
  /\ zip' = [zip EXCEPT ![v] = "idle"]
  /\ zq' = Done(zq, v)
  /\ rq' = Post(rq, v, "failed")
  /\ failed' = [failed EXCEPT ![v] = TRUE]
  /\ UNCHANGED <<file, todo, mq, fq, raptor, ffmpeg, data, phase, crashed>>

ZipFinish(v) ==
  /\ Running /\ zip[v] = "idle" /\ Next1(zq, v, "finish")
  /\ IF ~zFile[v] THEN Crash
     ELSE /\ zips' = [zips EXCEPT ![file[v]] = "absent"]
          /\ zip' = [zip EXCEPT ![v] = "quit"]
          /\ zq' = Quit(zq, v)
          /\ rq' = IF raptor[v] = "quit" THEN rq ELSE PostAtFront(rq, v, "finish")
          /\ UNCHANGED <<file, todo, mq, fq, raptor, ffmpeg, zFile, ready, pictures, video,
                        raced, phase, failed, crashed>>

-----------------------------------------------------------------------------
(* The encoder thread.                                                     *)

\* The names of the pictures and of the video are the path up to its last dot; a path
\* without a dot ends the process, here and in InitFFmpeg.
InitEncode(v) ==
  /\ Running /\ raptor[v] = "idle" /\ Next1(rq, v, "Init")
  /\ \/ file[v] \in Dotless /\ Crash
     \/ /\ file[v] \notin Dotless
        /\ ready' = ready \cup {<<v, "raptor">>}
        /\ rq' = Done(rq, v)
        /\ UNCHANGED <<file, todo, mq, zq, fq, threads, zFile, zips, pictures, video,
                      raced, phase, failed, crashed>>

\* The zip is read whole before the drawing starts, outside the try block: a missing zip, a
\* zip without a byte or a missing configuration ends the process.
Encode(v) ==
  /\ Running /\ raptor[v] = "idle" /\ Next1(rq, v, "Encode")
  /\ \/ /\ zips[file[v]] # "whole" \/ <<v, "raptor">> \notin ready
        /\ Crash
     \/ /\ zips[file[v]] # "absent" /\ <<v, "raptor">> \in ready
        /\ pictures' = [pictures EXCEPT ![v] = zips[file[v]]]
        /\ mq' = Append(mq, <<v, "RaptorEncodePhase">>)
        /\ raptor' = [raptor EXCEPT ![v] = "encoding"]
        /\ UNCHANGED <<file, todo, zq, rq, fq, zip, ffmpeg, zFile, ready, zips, video,
                      raced, phase, failed, crashed>>

\* The drawing ends.  Pictures that could not be written are missing or spoilt by then, and
\* nobody is told.
\* Mutants: the FFmpeg thread is sent the message of the encoder; the thread ends itself;
\* the FFmpeg thread is not told.
EncodeCompleteForwards(v) ==
  /\ Running /\ raptor[v] = "encoding"
  /\ raptor' = [raptor EXCEPT ![v] = "idle"]
  /\ rq' = Done(rq, v)
  /\ fq' = Post(fq, v, "Encode")
  /\ UNCHANGED <<file, todo, mq, zq, zip, ffmpeg, data, phase, failed, crashed>>

EncodeCompleteQuits(v) ==
  /\ Running /\ raptor[v] = "encoding"
  /\ raptor' = [raptor EXCEPT ![v] = "quit"]
  /\ rq' = Quit(rq, v)
  /\ fq' = Post(fq, v, "GenerateVideo")
  /\ UNCHANGED <<file, todo, mq, zq, zip, ffmpeg, data, phase, failed, crashed>>

EncodeCompleteSilent(v) ==
  /\ Running /\ raptor[v] = "encoding"
  /\ raptor' = [raptor EXCEPT ![v] = "idle"]
  /\ rq' = Done(rq, v)
  /\ UNCHANGED <<file, todo, mq, zq, fq, zip, ffmpeg, data, phase, failed, crashed>>

EncodeComplete(v) ==
  /\ Running /\ raptor[v] = "encoding"
  /\ raptor' = [raptor EXCEPT ![v] = "idle"]
  /\ rq' = Done(rq, v)
  /\ fq' = Post(fq, v, "GenerateVideo")
  /\ \/ UNCHANGED <<pictures, failed>>
     \/ /\ pictures' = [pictures EXCEPT ![v] = "partial"]
        /\ failed' = [failed EXCEPT ![v] = TRUE]
  /\ UNCHANGED <<file, todo, mq, zq, zip, ffmpeg, zFile, ready, zips, video, raced, phase, crashed>>

\* A symbol is too large for a code: this is logged, and nobody is told.
EncodeFails(v) ==
  /\ Running /\ raptor[v] = "encoding"
  /\ raptor' = [raptor EXCEPT ![v] = "idle"]
  /\ rq' = Done(rq, v)
  /\ failed' = [failed EXCEPT ![v] = TRUE]
  /\ UNCHANGED <<file, todo, mq, zq, fq, zip, ffmpeg, data, phase, crashed>>

RaptorFailed(v) ==
  /\ Running /\ raptor[v] = "idle" /\ Next1(rq, v, "failed")
  /\ raptor' = [raptor EXCEPT ![v] = "quit"]
  /\ rq' = Quit(rq, v)
  /\ UNCHANGED <<file, todo, mq, zq, fq, zip, ffmpeg, data, phase, failed, crashed>>

RaptorFinish(v) ==
  /\ Running /\ raptor[v] = "idle" /\ Next1(rq, v, "finish")
  /\ fq' = PostAtFront(fq, v, "finish")
  /\ raptor' = [raptor EXCEPT ![v] = "quit"]
  /\ rq' = Quit(rq, v)
  /\ UNCHANGED <<file, todo, mq, zq, zip, ffmpeg, data, phase, failed, crashed>>

-----------------------------------------------------------------------------
(* The FFmpeg thread.                                                      *)

InitFFmpeg(v) ==
  /\ Running /\ ffmpeg[v] = "idle" /\ Next1(fq, v, "Init")
  /\ \/ file[v] \in Dotless /\ Crash
     \/ /\ file[v] \notin Dotless
        /\ ready' = ready \cup {<<v, "ffmpeg">>}
        /\ fq' = Done(fq, v)
        /\ UNCHANGED <<file, todo, mq, zq, rq, threads, zFile, zips, pictures, video,
                      raced, phase, failed, crashed>>

\* FFmpeg is called inside the process; its files and streams are global, and every page has
\* a thread that may call it.
GenerateVideo(v) ==
  /\ Running /\ ffmpeg[v] = "idle" /\ Next1(fq, v, "GenerateVideo")
  /\ mq' = Append(mq, <<v, "FFmpegPhase">>)
  /\ ffmpeg' = [ffmpeg EXCEPT ![v] = "running"]
  /\ LET others == {w \in Visit : ffmpeg[w] \in {"running", "stuck"}}
     IN raced' = IF others = {} THEN raced ELSE raced \cup others \cup {v}
  /\ UNCHANGED <<file, todo, zq, rq, fq, zip, raptor, zFile, ready, zips, pictures, video,
                phase, failed, crashed>>

\* Mutant: the phase is announced again, behind the finish.
VideoMadePhaseLast(v) ==
  /\ Running /\ ffmpeg[v] = "running" /\ file[v] \notin Spaced
  /\ \/ /\ <<v, "ffmpeg">> \in ready /\ v \notin raced
        /\ video' = [video EXCEPT ![v] = pictures[v]]
        /\ UNCHANGED failed
     \/ failed' = [failed EXCEPT ![v] = TRUE] /\ UNCHANGED video
  /\ ffmpeg' = [ffmpeg EXCEPT ![v] = "idle"]
  /\ fq' = Done(fq, v)
  /\ mq' = mq \o << <<v, "finish">>, <<v, "FFmpegPhase">> >>
  /\ UNCHANGED <<file, todo, zq, rq, zip, raptor, zFile, ready, zips, pictures, raced, phase, crashed>>

\* FFmpeg returns.  Its exit code is not looked at: the video is played either way.
VideoMade(v) ==
  /\ Running /\ ffmpeg[v] = "running" /\ file[v] \notin Spaced
  /\ \/ /\ <<v, "ffmpeg">> \in ready /\ v \notin raced
        /\ video' = [video EXCEPT ![v] = pictures[v]]
        /\ UNCHANGED failed
     \/ failed' = [failed EXCEPT ![v] = TRUE] /\ UNCHANGED video
  /\ ffmpeg' = [ffmpeg EXCEPT ![v] = "idle"]
  /\ fq' = Done(fq, v)
  /\ mq' = Append(mq, <<v, "finish">>)
  /\ UNCHANGED <<file, todo, zq, rq, zip, raptor, zFile, ready, zips, pictures, raced, phase, crashed>>

\* FFmpeg goes on after a fatal error and ends the process (PictureVideo): pictures are not
\* there or cannot be read, or the video cannot be written.  The command line is split at its
\* spaces, so that for a path with a space nothing else can happen.  Two runs at a time may
\* end it, or spoil each other's work.
FFmpegCrashes(v) ==
  /\ Running /\ ffmpeg[v] = "running"
  /\ crashed' = "ffmpeg"
  /\ failed' = [failed EXCEPT ![v] = TRUE]
  /\ UNCHANGED <<file, todo, queues, threads, data, phase>>

\* ... or never end.
FFmpegHangs(v) ==
  /\ Running /\ ffmpeg[v] = "running" /\ v \in raced
  /\ ffmpeg' = [ffmpeg EXCEPT ![v] = "stuck"]
  /\ failed' = [failed EXCEPT ![v] = TRUE]
  /\ UNCHANGED <<file, todo, queues, zip, raptor, data, phase, crashed>>

FFmpegFinish(v) ==
  /\ Running /\ ffmpeg[v] = "idle" /\ Next1(fq, v, "finish")
  /\ ffmpeg' = [ffmpeg EXCEPT ![v] = "quit"]
  /\ fq' = Quit(fq, v)
  /\ UNCHANGED <<file, todo, mq, zq, rq, zip, raptor, data, phase, failed, crashed>>

-----------------------------------------------------------------------------
MainLooper      == SendConfigs \/ ShowPhase \/ PlayVideo
ZipThread(v)    == OpenZip(v) \/ WriteZip(v) \/ ZipFails(v) \/ ZipFinish(v)
RaptorThread(v) == InitEncode(v) \/ Encode(v) \/ EncodeComplete(v) \/ EncodeFails(v)
                   \/ RaptorFailed(v) \/ RaptorFinish(v)
FFmpegThread(v) == InitFFmpeg(v) \/ GenerateVideo(v) \/ VideoMade(v) \/ FFmpegCrashes(v)
                   \/ FFmpegHangs(v) \/ FFmpegFinish(v)

Next ==
  \/ MainLooper
  \/ \E v \in Visit : \/ \E f \in Files : StartProgress(v, f)
                      \/ ZipThread(v) \/ RaptorThread(v) \/ FFmpegThread(v)

Spec == Init /\ [][Next]_vars

\* Loopers run while they have messages.
Fairness ==
  /\ WF_vars(MainLooper)
  /\ \A v \in Visit : WF_vars(ZipThread(v)) /\ WF_vars(RaptorThread(v)) /\ WF_vars(FFmpegThread(v))

FairSpec == Spec /\ Fairness

-----------------------------------------------------------------------------
(* Properties.                                                             *)

\* The variables keep their types.
TypeOK ==
  /\ file \in [Visit -> Files \cup {NoFile}]
  /\ todo \in Seq(Visit \X {"ffmpeg", "raptor", "zip"})
  /\ mq \in Seq(Visit \X {"RaptorEncodePhase", "FFmpegPhase", "finish"})
  /\ zq \in [Visit -> Seq({"ZipFile", "finish"})]
  /\ rq \in [Visit -> Seq({"Init", "Encode", "failed", "finish"})]
  /\ fq \in [Visit -> Seq({"Init", "GenerateVideo", "finish"})]
  /\ zip \in [Visit -> {"idle", "zipping", "quit"}]
  /\ raptor \in [Visit -> {"idle", "encoding", "quit"}]
  /\ ffmpeg \in [Visit -> {"idle", "running", "stuck", "quit"}] /\ raced \subseteq Visit
  /\ zFile \in [Visit -> BOOLEAN] /\ ready \subseteq Visit \X {"raptor", "ffmpeg"}
  /\ zips \in [Files -> {"absent", "partial", "whole"}]
  /\ pictures \in [Visit -> {"none", "partial", "whole"}]
  /\ video \in [Visit -> {"none", "partial", "whole"}]
  /\ phase \in [Visit -> 0 .. 3] /\ failed \in [Visit -> BOOLEAN]
  /\ crashed \in {"no", "exception", "ffmpeg"}

\* The configuration reaches every thread before the work that needs it, and finish reaches
\* no thread before its work is done: an exception only ends the process when two visits
\* share a zip, or for a path without a dot.
CrashesOnlyWhenShared ==
  crashed = "exception" => \E v \in Visit : Shared(v) \/ file[v] \in Dotless

\* A video that is played without a failure having been overlooked was made from the whole
\* zip, unless another visit wrote or deleted that zip at the same time.
PlaysWholeFile ==
  \A v \in Visit : phase[v] = 3 /\ ~failed[v] /\ ~Shared(v) => video[v] = "whole"

\* finish ends the threads from the zip thread on, and none before the video is played;
\* a failed zip ends the encoder alone.
FinishAfterPlayed ==
  \A v \in Visit :
    /\ zip[v] = "quit" => phase[v] = 3
    /\ raptor[v] = "quit" => zip[v] = "quit" \/ failed[v]
    /\ ffmpeg[v] = "quit" => raptor[v] = "quit" /\ zip[v] = "quit"

\* The page never falls back to an earlier phase, although three threads announce phases.
PhaseMovesOn == [][\A v \in Visit : phase[v] <= phase'[v]]_vars

\* A start without a failure leads to a video on the screen.
EventuallyPlayed ==
  \A v \in Visit : file[v] # NoFile ~> (phase[v] = 3 \/ failed[v] \/ ~Running)

\* Once the video is played, all three threads of the page end.
ThreadsEnd ==
  \A v \in Visit :
    phase[v] = 3 ~> ((zip[v] = "quit" /\ raptor[v] = "quit" /\ ffmpeg[v] = "quit") \/ ~Running)
=============================================================================
