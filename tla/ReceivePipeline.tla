-------------------------- MODULE ReceivePipeline ---------------------------
(***************************************************************************)
(* The threads of one reception and the messages between them.  Every      *)
(* visit of ReceiveActivity builds a ReceiveHandler with a decoder thread  *)
(* (QR codes), a RaptorQ thread and an unzip thread, each a looper over    *)
(* its own queue; the main thread delivers camera frames, handles what the *)
(* threads send to the activity's handler, and runs onPause and onResume.  *)
(* A reply goes to the handler the activity has at that moment, not to the *)
(* one its sender was built with.                                          *)
(*                                                                         *)
(* Init and update_progress only set a text: of them the model keeps that  *)
(* they need a handler.  A frame without a readable code changes nothing   *)
(* and is left out.  The camera is open while the page is in front.  The   *)
(* codes are those of one file, and its packets are saved: codes of other  *)
(* files or of none, and writes of the log or the zip that fail, are in    *)
(* RaptorQReceiver.  A decoding or an unzipping can fail here too.         *)
(***************************************************************************)
EXTENDS SymbolsState, Sequences, FiniteSetsExt

CONSTANTS
  MaxVisits,  \* bound: how often the page is opened
  MaxQueue    \* bound: messages waiting for the decoder and RaptorQ threads of a page

ASSUME PipelineAssumption == MaxVisits \in Nat \ {0} /\ MaxQueue \in Nat \ {0}

SymbolOverhead == 2

Visit == 1 .. MaxVisits
None  == 0                \* no handler, no preview

CodeRead(e)      == [what |-> "decode", esi |-> e]
Signal(w)        == [what |-> w, esi |-> 0]      \* "finish", "stop", "UnZipFile"
ToHandler(v, w)  == [to |-> v, what |-> w]       \* "RaptorDecodeFile", "finish"

VARIABLES
  front,     \* ReceiveActivity is in the foreground
  visit,     \* ReceiveHandlers built so far
  handler,   \* ReceiveActivity.handler: the visit it belongs to, or None
  preview,   \* the visit whose decoder gets the camera's frames, or None
  mq,        \* main thread: messages to ReceiveHandlers
  dq, rq, zq,               \* queues of the decoder, RaptorQ and unzip threads of each visit
  reading,   \* decoder threads: the code in the frame at hand, if it has been cut out
  decoder, raptor, started, \* state of the threads; started: hasinit of the RaptorQ handler
  sbd,       \* the source block decoder of each RaptorQ thread
  saved,     \* packets on disk, which a RaptorQ thread loads before its first packet; once
             \* two threads have worked on the file at a time, perhaps more than there are
  delivered, \* files announced to the activity
  failed,    \* a decoding or an unzipping has failed, and nothing was announced
  paused,    \* the page was left before its file was announced
  crashed    \* an uncaught exception has ended the process

main    == <<front, visit, handler, preview, mq, paused>>
dthread == <<dq, decoder, reading>>
rthread == <<rq, raptor, started, sbd, saved>>
outcome == <<delivered, failed>>
vars    == <<main, dthread, rthread, zq, outcome, crashed>>

Init ==
  /\ front = FALSE /\ visit = 0 /\ handler = None /\ preview = None /\ mq = <<>>
  /\ dq = [v \in Visit |-> <<>>] /\ rq = [v \in Visit |-> <<>>] /\ zq = [v \in Visit |-> <<>>]
  /\ reading = [v \in Visit |-> {}]
  /\ decoder = [v \in Visit |-> "none"] /\ raptor = [v \in Visit |-> "none"]
  /\ started = [v \in Visit |-> FALSE]
  /\ sbd = [v \in Visit |-> NewSymbols(SymbolOverhead)]
  /\ saved = {} /\ delivered = 0 /\ failed = FALSE /\ paused = FALSE /\ crashed = FALSE

-----------------------------------------------------------------------------
\* Queues of loopers: a message to a looper that has quit is dropped.
Post(q, v, running, m)        == IF running THEN [q EXCEPT ![v] = Append(@, m)] ELSE q
PostAtFront(q, v, running, m) == IF running THEN [q EXCEPT ![v] = <<m>> \o @] ELSE q

Crash == crashed' = TRUE /\ UNCHANGED <<main, dthread, rthread, zq, outcome>>

-----------------------------------------------------------------------------
(* The main thread.                                                        *)

\* onResume and initCamera: the camera is opened, and a handler with its threads is built.
Open ==
  /\ ~crashed /\ ~front /\ visit < MaxVisits
  /\ front' = TRUE
  /\ visit' = visit + 1 /\ handler' = visit + 1 /\ preview' = visit + 1
  /\ decoder' = [decoder EXCEPT ![visit + 1] = "running"]
  /\ raptor' = [raptor EXCEPT ![visit + 1] = "running"]
  /\ UNCHANGED <<mq, paused, dq, reading, rq, started, sbd, saved, zq, outcome, crashed>>

\* PreviewCallback.onPreviewFrame: each frame is posted to the decoder thread.
Frame(e) ==
  /\ ~crashed /\ preview # None
  /\ Len(dq[preview]) + Cardinality(reading[preview]) + Len(rq[preview]) < MaxQueue
  /\ dq' = Post(dq, preview, decoder[preview] = "running", CodeRead(e))
  /\ UNCHANGED <<main, decoder, reading, rthread, zq, outcome, crashed>>

\* onPause: quitSynchronously stops the preview and posts stop behind what the decoder
\* still has to do; without a handler only the camera is closed.
Pause ==
  /\ ~crashed /\ front
  /\ front' = FALSE
  /\ dq' = IF handler = None THEN dq
           ELSE Post(dq, handler, decoder[handler] = "running", Signal("stop"))
  /\ paused' = (paused \/ handler # None)
  /\ handler' = None /\ preview' = None
  /\ UNCHANGED <<visit, mq, decoder, reading, rthread, zq, outcome, crashed>>

\* ReceiveHandler.handleMessage.
RaptorDecodeFile ==
  /\ ~crashed /\ mq # <<>> /\ Head(mq).what = "RaptorDecodeFile"
  /\ mq' = Tail(mq)
  /\ LET v == Head(mq).to
     IN dq' = PostAtFront(dq, v, decoder[v] = "running", Signal("finish"))
  /\ UNCHANGED <<front, visit, handler, preview, paused, decoder, reading, rthread, zq, outcome, crashed>>

TransmissionComplete ==
  /\ ~crashed /\ mq # <<>> /\ Head(mq).what = "finish"
  /\ mq' = Tail(mq)
  /\ handler' = None
  /\ UNCHANGED <<front, visit, preview, paused, dthread, rthread, zq, outcome, crashed>>

-----------------------------------------------------------------------------
(* The decoder thread of a visit.                                          *)

\* The framing rectangle is asked of the camera manager the page has now: with the camera
\* closed there is none, and the frame is dropped.
DecodeFrame(v) ==
  /\ ~crashed /\ decoder[v] = "running" /\ reading[v] = {}
  /\ dq[v] # <<>> /\ Head(dq[v]).what = "decode"
  /\ dq' = [dq EXCEPT ![v] = Tail(@)]
  /\ reading' = IF front THEN [reading EXCEPT ![v] = {Head(dq[v])}] ELSE reading
  /\ UNCHANGED <<main, decoder, rthread, zq, outcome, crashed>>

SendToRaptorDecoder(v) ==
  /\ ~crashed
  /\ \E m \in reading[v] : rq' = Post(rq, v, raptor[v] # "quit", m)
  /\ reading' = [reading EXCEPT ![v] = {}]
  /\ UNCHANGED <<main, dq, decoder, raptor, started, sbd, saved, zq, outcome, crashed>>

DecoderFinish(v) ==
  /\ ~crashed /\ decoder[v] = "running" /\ reading[v] = {}
  /\ dq[v] # <<>> /\ Head(dq[v]).what = "finish"
  /\ rq' = PostAtFront(rq, v, raptor[v] # "quit", Signal("finish"))
  /\ decoder' = [decoder EXCEPT ![v] = "quit"]
  /\ dq' = [dq EXCEPT ![v] = <<>>]
  /\ UNCHANGED <<main, reading, raptor, started, sbd, saved, zq, outcome, crashed>>

\* Mutant: stop is passed on like finish, to a thread that does not know it.
DecoderStopForwards(v) ==
  /\ ~crashed /\ decoder[v] = "running" /\ reading[v] = {}
  /\ dq[v] # <<>> /\ Head(dq[v]).what = "stop"
  /\ rq' = PostAtFront(rq, v, raptor[v] # "quit", Signal("stop"))
  /\ decoder' = [decoder EXCEPT ![v] = "quit"]
  /\ dq' = [dq EXCEPT ![v] = <<>>]
  /\ UNCHANGED <<main, reading, raptor, started, sbd, saved, zq, outcome, crashed>>

DecoderStop(v) ==
  /\ ~crashed /\ decoder[v] = "running" /\ reading[v] = {}
  /\ dq[v] # <<>> /\ Head(dq[v]).what = "stop"
  /\ decoder' = [decoder EXCEPT ![v] = "quit"]
  /\ dq' = [dq EXCEPT ![v] = <<>>]
  /\ UNCHANGED <<main, reading, rthread, zq, outcome, crashed>>

-----------------------------------------------------------------------------
(* The RaptorQ thread of a visit.                                          *)

\* What RestartDecode makes of the packets on disk.
Loaded == FoldSet(LAMBDA e, s : Put(s, {e}), NewSymbols(SymbolOverhead), saved)

\* The first decode message of a visit resumes the file on disk, or starts a new one with a
\* log that holds the packet (the thread looks for its row in a list read when it started, so
\* that a file may have two rows: their logs are one here).  Without a handler the try block
\* drops the message after that.  A log that two visits have written may decode the block by
\* itself: the file goes to the unzip thread at once, and again when the message is handled.
Resume(v) ==
  LET e == Head(rq[v]).esi
  IN /\ ~crashed /\ raptor[v] = "running" /\ ~started[v]
     /\ rq[v] # <<>> /\ Head(rq[v]).what = "decode"
     /\ \E fresh \in {TRUE, FALSE}, announced \in {TRUE, FALSE} :
          /\ announced => Cardinality(saved) >= K + SymbolOverhead /\ handler # None
          /\ saved' = IF fresh THEN saved \cup {e} ELSE saved
          /\ IF handler = None
               THEN rq' = [rq EXCEPT ![v] = Tail(@)] /\ UNCHANGED <<started, sbd, raptor, zq>>
               ELSE /\ started' = [started EXCEPT ![v] = TRUE]
                    /\ sbd' = [sbd EXCEPT ![v] =
                                 IF fresh THEN Put(NewSymbols(SymbolOverhead), {e}) ELSE Loaded]
                    /\ IF ~fresh /\ Decoded(Loaded)
                         THEN /\ raptor' = [raptor EXCEPT ![v] = "decoding"]
                              /\ zq' = [zq EXCEPT ![v] = Append(@, Signal("UnZipFile"))]
                         ELSE UNCHANGED <<raptor, zq>>
                    /\ UNCHANGED rq
          /\ mq' = IF announced THEN Append(mq, ToHandler(handler, "RaptorDecodeFile")) ELSE mq
     /\ UNCHANGED <<front, visit, handler, preview, paused, dthread, outcome, crashed>>

\* decodeRaptor.  Without a handler a packet that has something to tell ends the process:
\* before the decoding it would start, or after it was saved.
HandlePacket(v) ==
  LET e      == Head(rq[v]).esi
      after  == Put(sbd[v], {e})
      starts == StartsDecoding(sbd[v], {e})
      counts == after.state = INCOMPLETE /\ e \notin Held(sbd[v])
  IN /\ ~crashed /\ raptor[v] = "running" /\ started[v]
     /\ rq[v] # <<>> /\ Head(rq[v]).what = "decode"
     /\ IF handler = None /\ starts THEN Crash
        ELSE /\ rq' = [rq EXCEPT ![v] = Tail(@)]
             /\ sbd' = [sbd EXCEPT ![v] = after]
             /\ raptor' = [raptor EXCEPT ![v] =
                  IF after.state = INCOMPLETE THEN "running" ELSE "decoding"]
             /\ saved' = IF counts THEN saved \cup {e} ELSE saved
             /\ mq' = IF starts THEN Append(mq, ToHandler(handler, "RaptorDecodeFile")) ELSE mq
             /\ crashed' = (handler = None /\ counts)
             /\ UNCHANGED <<front, visit, handler, preview, paused, dthread, started, zq, outcome>>

\* Mutants: the looper is not quit; the unzip thread is not told.
EndDecodingKeepsRunning(v) ==
  /\ ~crashed /\ raptor[v] = "decoding"
  /\ raptor' = [raptor EXCEPT ![v] = "running"]
  /\ saved' = {}
  /\ zq' = IF Decoded(sbd[v]) THEN [zq EXCEPT ![v] = Append(@, Signal("UnZipFile"))] ELSE zq
  /\ failed' = (failed \/ ~Decoded(sbd[v]))
  /\ UNCHANGED <<main, dthread, rq, started, sbd, delivered, crashed>>

EndDecodingSilently(v) ==
  /\ ~crashed /\ raptor[v] = "decoding"
  /\ raptor' = [raptor EXCEPT ![v] = "quit"]
  /\ rq' = [rq EXCEPT ![v] = <<>>]
  /\ saved' = {}
  /\ failed' = (failed \/ ~Decoded(sbd[v]))
  /\ UNCHANGED <<main, dthread, zq, started, sbd, delivered, crashed>>

\* The decoding ends: the log makes room for the file, which goes to the unzip thread, or,
\* after a failure, for nothing.  Either way the looper quits and drops its queue.
EndDecoding(v) ==
  /\ ~crashed /\ raptor[v] = "decoding"
  /\ raptor' = [raptor EXCEPT ![v] = "quit"]
  /\ rq' = [rq EXCEPT ![v] = <<>>]
  /\ saved' = {}
  /\ zq' = IF Decoded(sbd[v]) THEN [zq EXCEPT ![v] = Append(@, Signal("UnZipFile"))] ELSE zq
  /\ failed' = (failed \/ ~Decoded(sbd[v]))
  /\ UNCHANGED <<main, dthread, started, sbd, delivered, crashed>>

RaptorFinish(v) ==
  /\ ~crashed /\ raptor[v] = "running" /\ rq[v] # <<>> /\ Head(rq[v]).what = "finish"
  /\ zq' = [zq EXCEPT ![v] = <<Signal("finish")>> \o @]
  /\ raptor' = [raptor EXCEPT ![v] = "quit"]
  /\ rq' = [rq EXCEPT ![v] = <<>>]
  /\ UNCHANGED <<main, dthread, started, sbd, saved, outcome, crashed>>

-----------------------------------------------------------------------------
(* The unzip thread of a visit.                                            *)

\* The file is unzipped and announced.  An unzip may fail, and must when two RaptorQ threads
\* have shared the file and the zip is gone: then a message is made and not sent.
UnZipFile(v) ==
  /\ ~crashed /\ zq[v] # <<>> /\ Head(zq[v]).what = "UnZipFile"
  /\ \/ /\ handler # None
        /\ mq' = Append(mq, ToHandler(handler, "finish"))
        /\ delivered' = delivered + 1
        /\ zq' = [zq EXCEPT ![v] = Tail(@)]
        /\ UNCHANGED <<front, visit, handler, preview, paused, dthread, rthread, failed, crashed>>
     \/ /\ handler = None
        /\ Crash
     \/ /\ failed' = TRUE
        /\ zq' = [zq EXCEPT ![v] = Tail(@)]
        /\ UNCHANGED <<main, dthread, rthread, delivered, crashed>>

\* On the receiving side zFile was never set.
ZipFinish(v) ==
  /\ ~crashed /\ zq[v] # <<>> /\ Head(zq[v]).what = "finish"
  /\ Crash

-----------------------------------------------------------------------------
MainLooper      == RaptorDecodeFile \/ TransmissionComplete
DecoderThread(v) == DecodeFrame(v) \/ SendToRaptorDecoder(v) \/ DecoderFinish(v) \/ DecoderStop(v)
RaptorThread(v)  == Resume(v) \/ HandlePacket(v) \/ EndDecoding(v) \/ RaptorFinish(v)
ZipThread(v)     == UnZipFile(v) \/ ZipFinish(v)

Next ==
  \/ Open \/ Pause \/ MainLooper
  \/ \E e \in ESI : Frame(e)
  \/ \E v \in Visit : DecoderThread(v) \/ RaptorThread(v) \/ ZipThread(v)

Spec == Init /\ [][Next]_vars

\* Loopers run while they have messages, the page is opened, and the sender's video shows
\* every packet again and again.
Fairness ==
  /\ WF_vars(Open) /\ WF_vars(MainLooper)
  /\ \A v \in Visit : /\ WF_vars(DecoderThread(v))
                      /\ WF_vars(RaptorThread(v))
                      /\ WF_vars(ZipThread(v))
  /\ \A e \in ESI : SF_vars(Frame(e))

FairSpec == Spec /\ Fairness

-----------------------------------------------------------------------------
(* Properties.                                                             *)

\* The variables keep their types.
TypeOK ==
  /\ front \in BOOLEAN /\ paused \in BOOLEAN /\ crashed \in BOOLEAN
  /\ visit \in 0 .. MaxVisits /\ handler \in {None, visit} /\ preview \in {None, visit}
  /\ mq \in Seq([to : Visit, what : {"RaptorDecodeFile", "finish"}])
  /\ dq \in [Visit -> Seq([what : {"decode", "finish", "stop"}, esi : ESI \cup {0}])]
  /\ rq \in [Visit -> Seq([what : {"decode", "finish"}, esi : ESI \cup {0}])]
  /\ zq \in [Visit -> Seq([what : {"UnZipFile", "finish"}, esi : {0}])]
  /\ reading \in [Visit -> SUBSET [what : {"decode"}, esi : ESI]]
  /\ decoder \in [Visit -> {"none", "running", "quit"}]
  /\ raptor \in [Visit -> {"none", "running", "decoding", "quit"}]
  /\ started \in [Visit -> BOOLEAN] /\ sbd \in [Visit -> Symbols]
  /\ saved \subseteq ESI /\ delivered \in Nat /\ failed \in BOOLEAN

\* A page that is never left early does not bring the process down: the finish signals
\* that travel down the chain of threads never arrive where nothing is there to finish.
NoCrashOnUndisturbedPage == crashed => paused

\* On such a page there is never more than one RaptorQ thread at work, so one writer of a log.
OneReceiver ==
  ~paused => \A v, w \in Visit :
    raptor[v] \in {"running", "decoding"} /\ raptor[w] \in {"running", "decoding"} => v = w

\* On such a page the file is received and announced to the activity in the end, or a decoding
\* or an unzipping has failed; nothing else leaves the page waiting.
EventuallyAnnounced == []~paused => <>(delivered > 0 \/ failed)
=============================================================================
