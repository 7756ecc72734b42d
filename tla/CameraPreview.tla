---------------------------- MODULE CameraPreview -----------------------------
(***************************************************************************)
(* The frames of the camera.  newCameraManager gives the camera two        *)
(* buffers; the camera copies a frame into the next one and calls          *)
(* PreviewCallback on the main thread, which posts the buffer, not a copy, *)
(* to the decoder thread and gives it back at once.  So a frame that waits *)
(* for the decoder, or is being read, may be overwritten.                  *)
(*                                                                         *)
(* One visit of the page: the manager, the camera, the buffers and the     *)
(* decoder thread of another visit are others.                             *)
(***************************************************************************)
EXTENDS Naturals, Sequences

CONSTANTS
  MaxFrames  \* bound: frames the camera takes

ASSUME PreviewAssumption == MaxFrames \in Nat

Buffer == 1 .. 2
NoFrame == 0

VARIABLES
  opened, camera, previewing,  \* the page was opened; the camera is open, and takes frames
  handler,        \* ReceiveActivity.handler # null
  announced,      \* the file is being decoded
  previewHandler, \* PreviewCallback.previewHandler # null
  free,           \* the camera: buffers it may fill, in the order they were given
  filling,        \* the buffer it is copying a frame into, if any
  begun,          \* frames begun; a frame is named by its number
  content,        \* the frame in each buffer, NoFrame while it is being written
  callbacks,      \* main thread: frames to be delivered
  dq,             \* the decoder thread: its queue, ...
  decoder, reading  \* ... whether it has quit, and the frame it is reading

page    == <<opened, camera, previewing, handler, announced, previewHandler>>
device  == <<free, filling, begun, content, callbacks>>
thread  == <<dq, decoder, reading>>
vars    == <<page, device, thread>>

Frame(b, n) == [what |-> "decode", buffer |-> b, frame |-> n]
Signal(w)   == [what |-> w]

Init ==
  /\ opened = FALSE /\ camera = FALSE /\ previewing = FALSE
  /\ handler = FALSE /\ announced = FALSE /\ previewHandler = FALSE
  /\ free = <<>> /\ filling = {} /\ begun = 0 /\ content = [b \in Buffer |-> NoFrame]
  /\ callbacks = <<>>
  /\ dq = <<>> /\ decoder = "none" /\ reading = {}

-----------------------------------------------------------------------------
(* The camera.                                                             *)

\* It waits while it has no buffer.
BeginFrame ==
  /\ previewing /\ filling = {} /\ free # <<>> /\ begun < MaxFrames
  /\ filling' = {Head(free)} /\ free' = Tail(free)
  /\ begun' = begun + 1
  /\ content' = [content EXCEPT ![Head(free)] = NoFrame]
  /\ UNCHANGED <<page, callbacks, thread>>

\* A frame begun before the preview stopped may still be delivered; a camera that was
\* released delivers nothing more.
EndFrame ==
  /\ filling # {}
  /\ \E b \in filling :
       \/ /\ camera
          /\ content' = [content EXCEPT ![b] = begun]
          /\ callbacks' = Append(callbacks, Frame(b, begun))
       \/ ~previewing /\ UNCHANGED <<content, callbacks>>
  /\ filling' = {}
  /\ UNCHANGED <<page, free, begun, thread>>

-----------------------------------------------------------------------------
(* The main thread.                                                        *)

\* initCamera: openDriver, and the ReceiveHandler with its decoder thread, startPreview and
\* requestPreviewFrameWithBuffer.
InitCamera ==
  /\ ~opened
  /\ opened' = TRUE /\ camera' = TRUE /\ previewing' = TRUE
  /\ handler' = TRUE /\ previewHandler' = TRUE
  /\ free' = <<1, 2>>
  /\ decoder' = "running"
  /\ UNCHANGED <<announced, filling, begun, content, callbacks, dq, reading>>

PostFrame(m) == IF previewHandler /\ decoder = "running" THEN Append(dq, m) ELSE dq

\* Mutant: the second addCallbackBuffer is not commented out.
OnPreviewFrameTwice ==
  /\ callbacks # <<>>
  /\ dq' = PostFrame(Head(callbacks))
  /\ free' = IF camera THEN free \o <<Head(callbacks).buffer, Head(callbacks).buffer>> ELSE free
  /\ callbacks' = Tail(callbacks)
  /\ UNCHANGED <<page, filling, begun, content, decoder, reading>>

\* A released camera takes no buffer.
OnPreviewFrame ==
  /\ callbacks # <<>>
  /\ dq' = PostFrame(Head(callbacks))
  /\ free' = IF camera THEN Append(free, Head(callbacks).buffer) ELSE free
  /\ callbacks' = Tail(callbacks)
  /\ UNCHANGED <<page, filling, begun, content, decoder, reading>>

\* The RaptorQ thread has begun to decode the file: the frames that wait are not needed.  The
\* message may be handled when the page has been left.
RaptorDecodeFile ==
  /\ opened /\ ~announced
  /\ announced' = TRUE
  /\ dq' = IF decoder = "running" THEN <<Signal("finish")>> \o dq ELSE dq
  /\ UNCHANGED <<opened, camera, previewing, handler, previewHandler, device, decoder, reading>>

\* The file is there.  The handler is dropped, and nobody stops the preview.
TransmissionComplete ==
  /\ handler /\ announced
  /\ handler' = FALSE
  /\ UNCHANGED <<opened, camera, previewing, announced, previewHandler, device, thread>>

\* Mutant: stopPreview leaves the handler in the callback.
OnPauseKeepsHandler ==
  /\ camera
  /\ IF handler
     THEN /\ previewing' = FALSE
          /\ dq' = IF decoder = "running" THEN Append(dq, Signal("stop")) ELSE dq
     ELSE UNCHANGED <<previewing, dq>>
  /\ handler' = FALSE /\ camera' = FALSE
  /\ UNCHANGED <<opened, announced, previewHandler, device, decoder, reading>>

\* quitSynchronously stops the preview and takes the handler out of the callback before it
\* posts stop; the camera is closed with or without a handler.
OnPause ==
  /\ camera
  /\ IF handler
     THEN /\ previewHandler' = FALSE
          /\ dq' = IF decoder = "running" THEN Append(dq, Signal("stop")) ELSE dq
     ELSE UNCHANGED <<previewHandler, dq>>
  /\ handler' = FALSE /\ camera' = FALSE /\ previewing' = FALSE
  /\ UNCHANGED <<opened, announced, device, decoder, reading>>

-----------------------------------------------------------------------------
(* The decoder thread.                                                     *)

\* The buffer is read while the camera may be writing to it.
Decode ==
  /\ decoder = "running" /\ reading = {} /\ dq # <<>> /\ Head(dq).what = "decode"
  /\ reading' = {Head(dq)} /\ dq' = Tail(dq)
  /\ UNCHANGED <<page, device, decoder>>

Decoded ==
  /\ reading # {}
  /\ reading' = {}
  /\ UNCHANGED <<page, device, dq, decoder>>

Quit ==
  /\ decoder = "running" /\ reading = {} /\ dq # <<>> /\ Head(dq).what \in {"finish", "stop"}
  /\ decoder' = "quit" /\ dq' = <<>>
  /\ UNCHANGED <<page, device, reading>>

-----------------------------------------------------------------------------
Camera  == BeginFrame \/ EndFrame
Main    == InitCamera \/ OnPreviewFrame \/ RaptorDecodeFile \/ TransmissionComplete \/ OnPause
Decoder == Decode \/ Decoded \/ Quit
Next    == Camera \/ Main \/ Decoder

Spec == Init /\ [][Next]_vars

-----------------------------------------------------------------------------
(* Properties.                                                             *)

Frames  == [what : {"decode"}, buffer : Buffer, frame : Nat \ {0}]
Signals == [what : {"finish", "stop"}]

\* The variables keep their types.
TypeOK ==
  /\ opened \in BOOLEAN /\ camera \in BOOLEAN /\ previewing \in BOOLEAN
  /\ handler \in BOOLEAN /\ announced \in BOOLEAN /\ previewHandler \in BOOLEAN
  /\ free \in Seq(Buffer) /\ filling \in SUBSET Buffer /\ begun \in Nat
  /\ content \in [Buffer -> Nat] /\ callbacks \in Seq(Frames)
  /\ dq \in Seq(Frames \cup Signals)
  /\ decoder \in {"none", "running", "quit"} /\ reading \in SUBSET Frames

\* The frames the decoder has still to read or is reading.
Unread == {dq[i] : i \in DOMAIN dq} \cup reading

\* With its two buffers the preview is one frame ahead of the decoder: a frame stays as it
\* was taken until the next but one is begun, however the callbacks are delayed.
DoubleBuffered ==
  \A m \in Unread : m.what = "decode" /\ begun < m.frame + 2 => content[m.buffer] = m.frame

\* What a page posts when it is left is the last thing its decoder is told: no frame that
\* is delivered late gets behind stop.
NothingBehindStop == \A i \in DOMAIN dq : dq[i].what = "stop" => i = Len(dq)
=============================================================================
