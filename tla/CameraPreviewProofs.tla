-------------------------- MODULE CameraPreviewProofs --------------------------
(***************************************************************************)
(* The properties of the preview, for any number of frames.                *)
(***************************************************************************)
EXTENDS CameraPreview, Integers, SequenceTheorems, TLAPS

\* The buffer that frame n is copied into: the camera takes them in turn.
B(n) == IF n % 2 = 1 THEN 1 ELSE 2

\* The frames copied so far.
Completed == IF filling = {} THEN begun ELSE begun - 1

\* The buffers go round: what is free follows what is being filled, which follows what waits
\* to be delivered, and none gets lost.
InTurn ==
  /\ \A i \in 1 .. Len(free) : free[i] = B(begun + i)
  /\ filling = {} \/ (filling = {B(begun)} /\ begun > 0)
  /\ \A i \in 1 .. Len(callbacks) : callbacks[i].frame = Completed - Len(callbacks) + i
  /\ Len(free) + (begun - Completed) + Len(callbacks) = 2

\* A frame that is somewhere on its way to the decoder.
Kept(m) ==
  /\ m.buffer = B(m.frame) /\ m.frame <= Completed
  /\ begun < m.frame + 2 => content[m.buffer] = m.frame

\* Everything on its way to the decoder.
OnTheWay == Unread \cup {callbacks[i] : i \in DOMAIN callbacks}

Linked ==
  /\ filling # {} => begun > 0
  /\ previewing = camera /\ (camera => opened)
  /\ ~opened => dq = <<>> /\ callbacks = <<>> /\ filling = {} /\ reading = {} /\ begun = 0

\* A page that was left has told its decoder last.
Stopped ==
  /\ NothingBehindStop
  /\ (\E i \in DOMAIN dq : dq[i].what = "stop") => opened /\ ~camera /\ ~previewHandler

IInv ==
  /\ TypeOK /\ Linked /\ Stopped
  /\ camera => InTurn
  /\ \A m \in OnTheWay : m.what = "decode" => Kept(m)

-----------------------------------------------------------------------------
LEMMA TakingTurns ==
  ASSUME NEW n \in Nat
  PROVE  B(n) \in Buffer /\ B(n + 2) = B(n) /\ B(n + 1) # B(n)
BY DEF B, Buffer

LEMMA MessageTypes ==
  /\ \A b \in Buffer : \A n \in Nat \ {0} : Frame(b, n) \in Frames
  /\ Signal("finish") \in Signals /\ Signal("stop") \in Signals
BY DEF Frame, Frames, Signal, Signals

LEMMA InitIInv == Init => IInv
<1> SUFFICES ASSUME Init PROVE IInv
  OBVIOUS
<1>1. TypeOK
  <2>1. [b \in Buffer |-> NoFrame] \in [Buffer -> Nat]
    BY DEF NoFrame
  <2>2. free \in Seq(Buffer) /\ callbacks \in Seq(Frames) /\ dq \in Seq(Frames \cup Signals)
    BY DEF Init
  <2> QED BY <2>1, <2>2 DEF Init, TypeOK
<1>2. Linked /\ Stopped
  <2>1. DOMAIN dq = {}
    BY DEF Init
  <2> QED BY <2>1 DEF Init, Linked, Stopped, NothingBehindStop
<1>3. OnTheWay = {}
  <2>1. DOMAIN dq = {} /\ DOMAIN callbacks = {}
    BY DEF Init
  <2> QED BY <2>1 DEF Init, OnTheWay, Unread
<1> QED BY <1>1, <1>2, <1>3 DEF IInv, Init

-----------------------------------------------------------------------------
\* The types.
LEMMA NextTypeOK == TypeOK /\ Linked /\ [Next]_vars => TypeOK'
<1> SUFFICES ASSUME TypeOK, Linked, [Next]_vars PROVE TypeOK'
  OBVIOUS
<1> USE MessageTypes DEF TypeOK
<1>1. CASE BeginFrame
  <2>1. Head(free) \in Buffer /\ Tail(free) \in Seq(Buffer)
    BY <1>1 DEF BeginFrame
  <2> QED BY <1>1, <2>1 DEF BeginFrame, page, thread, NoFrame
<1>2. CASE EndFrame
  <2>1. PICK b \in filling :
           \/ content' = [content EXCEPT ![b] = begun] /\ callbacks' = Append(callbacks, Frame(b, begun))
           \/ UNCHANGED <<content, callbacks>>
    BY <1>2 DEF EndFrame
  <2>2. b \in Buffer /\ Frame(b, begun) \in Frames
    BY DEF Linked
  <2>3. [content EXCEPT ![b] = begun] \in [Buffer -> Nat]
    BY <2>2
  <2>4. Append(callbacks, Frame(b, begun)) \in Seq(Frames)
    BY <2>2, AppendProperties
  <2> QED BY <1>2, <2>1, <2>3, <2>4 DEF EndFrame, page, thread
<1>3. CASE InitCamera
  <2>1. free' \in Seq(Buffer)
    BY <1>3 DEF InitCamera, Buffer
  <2> QED BY <1>3, <2>1 DEF InitCamera
<1>4. CASE OnPreviewFrame
  <2>1. Head(callbacks) \in Frames /\ Tail(callbacks) \in Seq(Frames)
    BY <1>4 DEF OnPreviewFrame
  <2>2. Head(callbacks).buffer \in Buffer
    BY <2>1 DEF Frames
  <2>3. dq' \in Seq(Frames \cup Signals) /\ free' \in Seq(Buffer)
    BY <1>4, <2>1, <2>2 DEF OnPreviewFrame, PostFrame
  <2> QED BY <1>4, <2>1, <2>3 DEF OnPreviewFrame, page
<1>5. CASE RaptorDecodeFile
  <2>1. <<Signal("finish")>> \o dq \in Seq(Frames \cup Signals)
    <3>1. <<Signal("finish")>> \in Seq(Frames \cup Signals)
      OBVIOUS
    <3> QED BY <3>1, ConcatProperties
  <2> QED BY <1>5, <2>1 DEF RaptorDecodeFile, device
<1>6. CASE TransmissionComplete
  BY <1>6 DEF TransmissionComplete, device, thread
<1>7. CASE OnPause
  <2>1. Append(dq, Signal("stop")) \in Seq(Frames \cup Signals)
    <3>1. Signal("stop") \in Frames \cup Signals
      OBVIOUS
    <3> QED BY <3>1, AppendProperties
  <2> QED BY <1>7, <2>1 DEF OnPause, device
<1>8. CASE Decode
  <2>1. Head(dq) \in Frames \cup Signals /\ Tail(dq) \in Seq(Frames \cup Signals)
    BY <1>8 DEF Decode
  <2>2. Head(dq) \in Frames
    BY <1>8, <2>1 DEF Decode, Signals
  <2> QED BY <1>8, <2>1, <2>2 DEF Decode, page, device
<1>9. CASE Decoded \/ Quit
  <2>1. <<>> \in Seq(Frames \cup Signals)
    OBVIOUS
  <2> QED BY <1>9, <2>1 DEF Decoded, Quit, page, device
<1>10. CASE UNCHANGED vars
  BY <1>10 DEF vars, page, device, thread
<1> QED BY <1>1, <1>2, <1>3, <1>4, <1>5, <1>6, <1>7, <1>8, <1>9, <1>10
        DEF Next, Camera, Main, Decoder

LEMMA NextLinked == TypeOK /\ Linked /\ [Next]_vars => Linked'
<1> SUFFICES ASSUME TypeOK, Linked, [Next]_vars PROVE Linked'
  OBVIOUS
<1> USE DEF Linked
<1>1. CASE BeginFrame
  <2>1. camera = TRUE /\ opened
    BY <1>1 DEF BeginFrame, TypeOK
  <2>2. begun' > 0 /\ UNCHANGED <<page, callbacks, thread>>
    BY <1>1 DEF BeginFrame, TypeOK
  <2> QED BY <2>1, <2>2 DEF page, thread
<1>2. CASE EndFrame
  <2>1. filling # {} /\ filling' = {} /\ UNCHANGED <<page, thread>>
    BY <1>2 DEF EndFrame
  <2> QED BY <2>1 DEF page, thread
<1>3. CASE InitCamera
  BY <1>3 DEF InitCamera
<1>4. CASE OnPreviewFrame
  BY <1>4 DEF OnPreviewFrame, page
<1>5. CASE RaptorDecodeFile \/ TransmissionComplete
  BY <1>5 DEF RaptorDecodeFile, TransmissionComplete, device, thread
<1>8. CASE OnPause
  <2>1. opened /\ opened' /\ camera' = FALSE /\ previewing' = FALSE /\ UNCHANGED device
    BY <1>8 DEF OnPause
  <2> QED BY <2>1 DEF device
<1>6. CASE Decode \/ Decoded \/ Quit
  <2>1. opened /\ UNCHANGED <<page, device>>
    BY <1>6 DEF Decode, Decoded, Quit
  <2> QED BY <2>1 DEF page, device
<1>7. CASE UNCHANGED vars
  BY <1>7 DEF vars, page, device, thread
<1> QED BY <1>1, <1>2, <1>3, <1>4, <1>5, <1>6, <1>7, <1>8 DEF Next, Camera, Main, Decoder

-----------------------------------------------------------------------------
(* What the queue of the decoder holds after an operation on it.           *)

LEMMA AfterAppend ==
  ASSUME NEW q \in Seq(Frames \cup Signals), NEW m \in Frames \cup Signals
  PROVE  /\ Len(Append(q, m)) = Len(q) + 1 /\ DOMAIN Append(q, m) = 1 .. Len(q) + 1
         /\ \A i \in 1 .. Len(q) : Append(q, m)[i] = q[i]
         /\ Append(q, m)[Len(q) + 1] = m
OBVIOUS

LEMMA AfterPutInFront ==
  ASSUME NEW q \in Seq(Frames \cup Signals), NEW m \in Frames \cup Signals
  PROVE  /\ Len(<<m>> \o q) = Len(q) + 1 /\ DOMAIN (<<m>> \o q) = 1 .. Len(q) + 1
         /\ (<<m>> \o q)[1] = m
         /\ \A i \in 2 .. Len(q) + 1 : (<<m>> \o q)[i] = q[i - 1]
OBVIOUS

LEMMA AfterTail ==
  ASSUME NEW q \in Seq(Frames \cup Signals), q # <<>>
  PROVE  /\ Len(Tail(q)) = Len(q) - 1 /\ DOMAIN Tail(q) = 1 .. Len(q) - 1
         /\ \A i \in 1 .. Len(q) - 1 : Tail(q)[i] = q[i + 1]
         /\ Head(q) = q[1] /\ Len(q) >= 1
OBVIOUS

\* A stop stays last: frames are only added while none has been posted, and finish goes to
\* the front.
LEMMA NextStopped == TypeOK /\ Linked /\ Stopped /\ [Next]_vars => Stopped'
<1> SUFFICES ASSUME TypeOK, Linked, Stopped, [Next]_vars PROVE Stopped'
  OBVIOUS
<1>0. dq \in Seq(Frames \cup Signals) /\ DOMAIN dq = 1 .. Len(dq) /\ Len(dq) \in Nat
      /\ DOMAIN <<>> = {}
  BY DEF TypeOK
<1>1. CASE UNCHANGED <<dq, opened, camera, previewHandler>>
  BY <1>1 DEF Stopped, NothingBehindStop
<1>2. CASE InitCamera
  BY <1>0, <1>2 DEF InitCamera, Linked, Stopped, NothingBehindStop
<1>3. CASE OnPreviewFrame
  <2>1. CASE dq' = dq
    BY <1>1, <1>3, <2>1 DEF OnPreviewFrame, page
  <2>2. CASE previewHandler /\ dq' = Append(dq, Head(callbacks))
    <3>1. Head(callbacks) \in Frames
      BY <1>3 DEF OnPreviewFrame, TypeOK
    <3>2. Head(callbacks) \in Frames \cup Signals /\ Head(callbacks).what = "decode"
      BY <3>1 DEF Frames
    <3>3. \A i \in DOMAIN dq : dq[i].what # "stop"
      BY <2>2 DEF Stopped
    <3>4. \A i \in DOMAIN dq' : dq'[i].what # "stop"
      BY <1>0, <2>2, <3>2, <3>3, AfterAppend
    <3> QED BY <3>4 DEF Stopped, NothingBehindStop
  <2> QED BY <1>3, <2>1, <2>2 DEF OnPreviewFrame, PostFrame
<1>4. CASE RaptorDecodeFile
  <2>1. CASE dq' = dq
    BY <1>1, <1>4, <2>1 DEF RaptorDecodeFile
  <2>2. CASE dq' = <<Signal("finish")>> \o dq
    <3>1. Signal("finish") \in Frames \cup Signals /\ Signal("finish").what # "stop"
      BY MessageTypes DEF Signal
    <3>2. \A i \in DOMAIN dq' : dq'[i].what = "stop" =>
             i - 1 \in DOMAIN dq /\ dq[i - 1].what = "stop" /\ Len(dq') = Len(dq) + 1
      BY <1>0, <2>2, <3>1, AfterPutInFront
    <3> QED BY <1>0, <1>4, <3>2 DEF Stopped, NothingBehindStop, RaptorDecodeFile
  <2> QED BY <1>4, <2>1, <2>2 DEF RaptorDecodeFile
<1>5. CASE OnPause
  <2>1. opened /\ camera /\ \A i \in DOMAIN dq : dq[i].what # "stop"
    BY <1>5 DEF OnPause, Linked, Stopped
  <2>2. CASE dq' = dq
    BY <2>1, <2>2 DEF Stopped, NothingBehindStop
  <2>3. CASE handler /\ dq' = Append(dq, Signal("stop"))
    <3>1. \A i \in DOMAIN dq' : dq'[i].what = "stop" => i = Len(dq')
      BY <1>0, <2>1, <2>3, MessageTypes, AfterAppend
    <3> QED BY <1>5, <2>1, <2>3, <3>1 DEF OnPause, Stopped, NothingBehindStop
  <2> QED BY <1>5, <2>2, <2>3 DEF OnPause
<1>6. CASE Decode
  <2>1. dq # <<>> /\ dq' = Tail(dq)
    BY <1>6 DEF Decode
  <2>2. \A i \in DOMAIN dq' : i + 1 \in DOMAIN dq /\ dq'[i] = dq[i + 1] /\ Len(dq') = Len(dq) - 1
    BY <1>0, <2>1, AfterTail
  <2> QED BY <1>0, <1>6, <2>2 DEF Stopped, NothingBehindStop, Decode, page
<1>7. CASE Quit
  BY <1>0, <1>7 DEF Quit, Stopped, NothingBehindStop
<1>8. ASSUME BeginFrame \/ EndFrame \/ TransmissionComplete \/ Decoded \/ UNCHANGED vars
      PROVE  UNCHANGED <<dq, opened, camera, previewHandler>>
  BY <1>8 DEF BeginFrame, EndFrame, TransmissionComplete, Decoded, vars, page, thread
<1> QED BY <1>1, <1>2, <1>3, <1>4, <1>5, <1>6, <1>7, <1>8 DEF Next, Camera, Main, Decoder

-----------------------------------------------------------------------------
(* The buffers in turn.                                                    *)

LEMMA OnTheWayType ==
  ASSUME TypeOK, NEW m \in OnTheWay, m.what = "decode"
  PROVE  m \in Frames /\ m.frame \in Nat /\ m.frame > 0 /\ m.buffer \in Buffer
<1>1. m \in Frames \cup Signals
  BY DEF TypeOK, OnTheWay, Unread
<1>2. m \in Frames
  BY <1>1 DEF Signals
<1> QED BY <1>2 DEF Frames

LEMMA CompletedType ==
  ASSUME TypeOK
  PROVE  begun \in Nat /\ Completed \in Int /\ Completed <= begun
BY DEF TypeOK, Completed

LEMMA NextInTurn ==
  ASSUME IInv, [Next]_vars, camera'
  PROVE  InTurn'
<1>0. /\ begun \in Nat /\ free \in Seq(Buffer) /\ callbacks \in Seq(Frames)
      /\ Len(free) \in Nat /\ Len(callbacks) \in Nat
  BY DEF IInv, TypeOK
<1>1. CASE BeginFrame
  <2>1. InTurn /\ filling = {} /\ free # <<>>
    BY <1>1 DEF IInv, Linked, TypeOK, BeginFrame
  <2>2. /\ free' = Tail(free) /\ Len(free') = Len(free) - 1 /\ Len(free) >= 1
        /\ \A i \in 1 .. Len(free') : free'[i] = free[i + 1]
        /\ Head(free) = free[1] /\ callbacks' = callbacks /\ begun' = begun + 1
        /\ filling' = {Head(free)}
    BY <1>0, <1>1, <2>1 DEF BeginFrame
  <2>3. filling' = {B(begun')} /\ begun' > 0
    BY <1>0, <2>1, <2>2 DEF InTurn
  <2>4. \A i \in 1 .. Len(free') : free'[i] = B(begun' + i)
    <3> SUFFICES ASSUME NEW i \in 1 .. Len(free') PROVE free'[i] = B(begun' + i)
      OBVIOUS
    <3>1. free[i + 1] = B(begun + (i + 1)) /\ begun + (i + 1) = begun' + i
      BY <1>0, <2>1, <2>2 DEF InTurn
    <3> QED BY <2>2, <3>1
  <2>5. Completed' = begun /\ Completed = begun
    BY <1>0, <2>1, <2>2, <2>3 DEF Completed
  <2>6. \A i \in 1 .. Len(callbacks') : callbacks'[i].frame = Completed' - Len(callbacks') + i
    BY <2>1, <2>2, <2>5 DEF InTurn
  <2>7. Len(free) + Len(callbacks) = 2
    BY <1>0, <2>1, <2>5 DEF InTurn
  <2>8. Len(free') + (begun' - Completed') + Len(callbacks') = 2
    BY <1>0, <2>2, <2>5, <2>7
  <2> QED BY <2>3, <2>4, <2>6, <2>8 DEF InTurn
<1>2. CASE EndFrame
  <2>1. InTurn /\ camera /\ previewing
    BY <1>2 DEF IInv, Linked, TypeOK, EndFrame, page
  <2>2. /\ filling = {B(begun)} /\ begun > 0 /\ filling' = {}
        /\ callbacks' = Append(callbacks, Frame(B(begun), begun))
        /\ UNCHANGED <<free, begun>>
    BY <1>2, <2>1 DEF EndFrame, InTurn
  <2>3. Completed' = begun /\ Completed = begun - 1
    BY <2>2 DEF Completed
  <2>4. /\ Len(callbacks') = Len(callbacks) + 1
        /\ \A i \in 1 .. Len(callbacks) : callbacks'[i] = callbacks[i]
        /\ callbacks'[Len(callbacks) + 1].frame = begun
    BY <1>0, <2>2 DEF Frame
  <2>5. \A i \in 1 .. Len(callbacks') : callbacks'[i].frame = Completed' - Len(callbacks') + i
    <3> SUFFICES ASSUME NEW i \in 1 .. Len(callbacks')
                 PROVE  callbacks'[i].frame = Completed' - Len(callbacks') + i
      OBVIOUS
    <3>1. CASE i = Len(callbacks) + 1
      BY <1>0, <2>3, <2>4, <3>1
    <3>2. CASE i # Len(callbacks) + 1
      <4>1. i \in 1 .. Len(callbacks)
        BY <1>0, <2>4, <3>2
      <4>2. callbacks'[i] = callbacks[i] /\ callbacks[i].frame = Completed - Len(callbacks) + i
        BY <2>1, <2>4, <4>1 DEF InTurn
      <4> QED BY <1>0, <2>3, <2>4, <4>1, <4>2
    <3> QED BY <3>1, <3>2
  <2> QED BY <1>0, <2>1, <2>2, <2>3, <2>4, <2>5 DEF InTurn
<1>3. CASE InitCamera
  <2>1. begun' = 0 /\ callbacks' = <<>> /\ filling' = {} /\ free' = <<1, 2>>
    BY <1>3 DEF InitCamera, IInv, Linked
  <2>2. Completed' = 0
    BY <2>1 DEF Completed
  <2> QED BY <2>1, <2>2 DEF InTurn, B
<1>4. CASE OnPreviewFrame
  <2>1. InTurn /\ camera /\ callbacks # <<>>
    BY <1>4 DEF IInv, OnPreviewFrame, page
  <2> DEFINE m == callbacks[1]
  <2>2. /\ Len(callbacks) >= 1 /\ Len(callbacks') = Len(callbacks) - 1
        /\ \A i \in 1 .. Len(callbacks') : callbacks'[i] = callbacks[i + 1]
        /\ Head(callbacks) = m /\ m \in Frames
        /\ free' = Append(free, m.buffer) /\ UNCHANGED <<filling, begun>>
    BY <1>0, <1>4, <2>1 DEF OnPreviewFrame
  <2>3. m.buffer = B(m.frame) /\ m.frame \in Nat /\ m.buffer \in Buffer
    <3>1. 1 \in DOMAIN callbacks /\ m.what = "decode" /\ m.frame \in Nat /\ m.buffer \in Buffer
      BY <1>0, <2>2 DEF Frames
    <3>2. m \in OnTheWay
      BY <3>1 DEF OnTheWay
    <3> QED BY <3>1, <3>2 DEF IInv, Kept
  <2>4. m.frame = Completed - Len(callbacks) + 1
    BY <1>0, <2>1, <2>2 DEF InTurn
  <2>5. begun + (Len(free) + 1) = m.frame + 2
    BY <1>0, <2>1, <2>4, CompletedType DEF InTurn, IInv
  <2>6. \A i \in 1 .. Len(free') : free'[i] = B(begun' + i)
    <3> SUFFICES ASSUME NEW i \in 1 .. Len(free') PROVE free'[i] = B(begun' + i)
      OBVIOUS
    <3>1. Len(free') = Len(free) + 1 /\ free'[Len(free) + 1] = m.buffer
          /\ \A j \in 1 .. Len(free) : free'[j] = free[j]
      BY <1>0, <2>2, <2>3
    <3>2. CASE i = Len(free) + 1
      BY <2>2, <2>3, <2>5, <3>1, <3>2, TakingTurns
    <3>3. CASE i # Len(free) + 1
      BY <1>0, <2>1, <2>2, <3>1, <3>3 DEF InTurn
    <3> QED BY <3>2, <3>3
  <2>7. Completed' = Completed
    BY <2>2 DEF Completed
  <2>8. Len(free') = Len(free) + 1
    BY <1>0, <2>2, <2>3
  <2>9. \A i \in 1 .. Len(callbacks') : callbacks'[i].frame = Completed' - Len(callbacks') + i
    <3> SUFFICES ASSUME NEW i \in 1 .. Len(callbacks')
                 PROVE  callbacks'[i].frame = Completed' - Len(callbacks') + i
      OBVIOUS
    <3>1. i + 1 \in 1 .. Len(callbacks)
      BY <1>0, <2>2
    <3>2. callbacks[i + 1].frame = Completed - Len(callbacks) + (i + 1)
      BY <2>1, <3>1 DEF InTurn
    <3>3. Completed \in Int
      BY CompletedType DEF IInv
    <3>4. callbacks'[i] = callbacks[i + 1] /\ Len(callbacks') = Len(callbacks) - 1 /\ i \in Int
      BY <2>2
    <3>5. callbacks'[i].frame = Completed - Len(callbacks) + (i + 1)
      BY <3>2, <3>4
    <3>6. Completed - Len(callbacks) + (i + 1) = Completed - (Len(callbacks) - 1) + i
      BY <1>0, <3>3, <3>4
    <3> QED BY <2>7, <3>4, <3>5, <3>6
  <2>10. filling' = {} \/ (filling' = {B(begun')} /\ begun' > 0)
    BY <2>1, <2>2 DEF InTurn
  <2>11. Len(free') + (begun' - Completed') + Len(callbacks') = 2
    <3>1. Completed \in Int /\ Len(free) + (begun - Completed) + Len(callbacks) = 2
      BY <2>1, CompletedType DEF InTurn, IInv
    <3> QED BY <1>0, <2>2, <2>7, <2>8, <3>1
  <2> QED BY <2>6, <2>9, <2>10, <2>11 DEF InTurn
<1>5. CASE camera /\ UNCHANGED device
  BY <1>5 DEF IInv, InTurn, Completed, device
<1>6. ASSUME RaptorDecodeFile \/ TransmissionComplete \/ OnPause \/ Decoder \/ UNCHANGED vars
      PROVE  camera /\ UNCHANGED device
  BY <1>6 DEF RaptorDecodeFile, TransmissionComplete, OnPause, Decoder, Decode, Decoded, Quit,
              vars, page
<1> QED BY <1>1, <1>2, <1>3, <1>4, <1>5, <1>6 DEF Next, Camera, Main

-----------------------------------------------------------------------------
(* The frames in the buffers.                                              *)

LEMMA NextKept ==
  ASSUME IInv, [Next]_vars, TypeOK',
         NEW m \in OnTheWay', m.what = "decode"
  PROVE  Kept(m)'
<1>0. /\ begun \in Nat /\ m \in Frames /\ m.frame \in Nat /\ m.frame > 0 /\ m.buffer \in Buffer
      /\ content \in [Buffer -> Nat]
  <2>1. m \in (Frames \cup Signals)
    BY DEF TypeOK, OnTheWay, Unread
  <2>2. m \in Frames
    BY <2>1 DEF Signals
  <2> QED BY <2>2 DEF IInv, TypeOK, Frames
<1>1. CASE BeginFrame
  <2>1. InTurn /\ filling = {} /\ free # <<>> /\ free \in Seq(Buffer)
    BY <1>1 DEF IInv, Linked, TypeOK, BeginFrame
  <2>2. m \in OnTheWay /\ begun' = begun + 1 /\ filling' # {}
        /\ content' = [content EXCEPT ![Head(free)] = NoFrame]
    BY <1>1 DEF BeginFrame, OnTheWay, Unread, page, thread
  <2>3. Kept(m) /\ m.frame <= begun
    BY <2>1, <2>2 DEF IInv, Kept, Completed
  <2>4. Head(free) = B(begun + 1)
    BY <2>1, <1>0 DEF InTurn
  <2>5. Completed' = begun
    BY <1>0, <2>2 DEF Completed
  <2>6. ASSUME begun' < m.frame + 2 PROVE content'[m.buffer] = m.frame
    <3>1. m.frame = begun
      BY <1>0, <2>2, <2>3, <2>6
    <3>2. m.buffer # Head(free) /\ content[m.buffer] = m.frame
      BY <1>0, <2>3, <2>4, <3>1, TakingTurns DEF Kept
    <3> QED BY <1>0, <2>2, <3>2
  <2> QED BY <2>3, <2>5, <2>6 DEF Kept
<1>2. CASE EndFrame /\ m \in OnTheWay
  <2>1. Kept(m) /\ begun' = begun /\ Completed' = begun /\ filling # {} /\ m.frame <= begun - 1
    BY <1>0, <1>2 DEF IInv, EndFrame, Kept, Completed
  <2>2. ASSUME begun < m.frame + 2 PROVE content'[m.buffer] = content[m.buffer]
    <3>1. CASE content' = content
      BY <3>1
    <3>2. CASE camera /\ \E b \in filling : content' = [content EXCEPT ![b] = begun]
      <4>1. filling = {B(begun)}
        BY <2>1, <3>2 DEF IInv, InTurn
      <4>2. begun = m.frame + 1
        BY <1>0, <2>1, <2>2
      <4>3. m.buffer # B(begun)
        BY <1>0, <2>1, <4>2, TakingTurns DEF Kept
      <4> QED BY <1>0, <3>2, <4>1, <4>3
    <3> QED BY <1>2, <3>1, <3>2 DEF EndFrame
  <2> QED BY <1>0, <2>1, <2>2 DEF Kept
<1>3. CASE EndFrame /\ m \notin OnTheWay
  <2>1. PICK b \in filling :
           /\ camera /\ callbacks' = Append(callbacks, Frame(b, begun))
           /\ content' = [content EXCEPT ![b] = begun]
    BY <1>3 DEF EndFrame, OnTheWay, Unread, page, thread
  <2>2. b = B(begun) /\ b \in Buffer
    BY <2>1 DEF IInv, InTurn, TypeOK
  <2>3. m = Frame(b, begun)
    <3>1. callbacks \in Seq(Frames)
      BY DEF IInv, TypeOK
    <3>2. m \in {callbacks'[i] : i \in DOMAIN callbacks'}
      BY <1>3 DEF EndFrame, OnTheWay, Unread, page, thread
    <3>3. PICK i \in DOMAIN callbacks' : m = callbacks'[i]
      BY <3>2
    <3>4. CASE i \in 1 .. Len(callbacks)
      BY <1>3, <2>1, <3>1, <3>3, <3>4 DEF OnTheWay
    <3>5. CASE i = Len(callbacks) + 1
      BY <2>1, <3>1, <3>3, <3>5
    <3> QED BY <2>1, <3>1, <3>3, <3>4, <3>5
  <2>4. begun' = begun /\ filling' = {}
    BY <1>3 DEF EndFrame
  <2> QED BY <1>0, <2>1, <2>2, <2>3, <2>4 DEF Kept, Completed, Frame
<1>4. CASE m \in OnTheWay /\ UNCHANGED <<filling, begun, content>>
  BY <1>4 DEF IInv, Kept, Completed
<1>5. CASE InitCamera \/ TransmissionComplete \/ Decoded \/ UNCHANGED vars
  <2>1. m \in OnTheWay /\ UNCHANGED <<filling, begun, content>>
    BY <1>5 DEF InitCamera, TransmissionComplete, Decoded, OnTheWay, Unread, vars, page, device, thread
  <2> QED BY <1>4, <2>1
<1>6. CASE OnPreviewFrame
  <2>1. m \in OnTheWay
    <3>1. callbacks # <<>> /\ callbacks \in Seq(Frames) /\ dq \in Seq(Frames \cup Signals)
      BY <1>6 DEF OnPreviewFrame, IInv, TypeOK
    <3>2. Head(callbacks) = callbacks[1] /\ 1 \in DOMAIN callbacks
          /\ \A i \in DOMAIN Tail(callbacks) : i + 1 \in DOMAIN callbacks
                                            /\ Tail(callbacks)[i] = callbacks[i + 1]
      BY <3>1
    <3>3. \A i \in DOMAIN dq' : dq'[i] = Head(callbacks) \/ (i \in DOMAIN dq /\ dq'[i] = dq[i])
      BY <1>6, <3>1 DEF OnPreviewFrame, PostFrame
    <3>4. callbacks' = Tail(callbacks) /\ reading' = reading
      BY <1>6 DEF OnPreviewFrame
    <3> QED BY <3>2, <3>3, <3>4 DEF OnTheWay, Unread
  <2> QED BY <1>4, <1>6, <2>1 DEF OnPreviewFrame
<1>7. CASE RaptorDecodeFile \/ OnPause
  <2>1. PICK w \in {"finish", "stop"} :
           dq' \in {dq, <<Signal(w)>> \o dq, Append(dq, Signal(w))}
    BY <1>7 DEF RaptorDecodeFile, OnPause
  <2>2. dq \in Seq(Frames \cup Signals) /\ Signal(w) \in Frames \cup Signals /\ m # Signal(w)
    BY <2>1, MessageTypes DEF IInv, TypeOK, Signal
  <2>3. \A i \in DOMAIN dq' : dq'[i] = Signal(w) \/ \E j \in DOMAIN dq : dq'[i] = dq[j]
    <3>1. CASE dq' = <<Signal(w)>> \o dq
      BY <2>2, <3>1, AfterPutInFront
    <3>2. CASE dq' = Append(dq, Signal(w))
      BY <2>2, <3>2, AfterAppend
    <3> QED BY <2>1, <3>1, <3>2
  <2>4. UNCHANGED <<device, reading>>
    BY <1>7 DEF RaptorDecodeFile, OnPause
  <2>5. m \in OnTheWay
    BY <2>2, <2>3, <2>4 DEF OnTheWay, Unread, device
  <2> QED BY <1>4, <2>4, <2>5 DEF device
<1>8. CASE Decode \/ Quit
  <2>1. dq \in Seq(Frames \cup Signals) /\ UNCHANGED device
    BY <1>8 DEF Decode, Quit, IInv, TypeOK
  <2>2. m \in OnTheWay
    <3>1. CASE Decode
      <4>1. dq # <<>> /\ dq' = Tail(dq) /\ reading' = {Head(dq)}
        BY <3>1 DEF Decode
      <4>2. Head(dq) = dq[1] /\ 1 \in DOMAIN dq
            /\ \A i \in DOMAIN Tail(dq) : i + 1 \in DOMAIN dq /\ Tail(dq)[i] = dq[i + 1]
        BY <2>1, <4>1
      <4> QED BY <2>1, <4>1, <4>2 DEF OnTheWay, Unread, device
    <3>2. CASE Quit
      <4>1. DOMAIN dq' = {} /\ reading' = reading
        BY <3>2 DEF Quit
      <4> QED BY <2>1, <4>1 DEF OnTheWay, Unread, device
    <3> QED BY <1>8, <3>1, <3>2
  <2> QED BY <1>4, <2>1, <2>2 DEF device
<1> QED BY <1>1, <1>2, <1>3, <1>5, <1>6, <1>7, <1>8 DEF Next, Camera, Main, Decoder

LEMMA NextIInv == IInv /\ [Next]_vars => IInv'
<1> SUFFICES ASSUME IInv, [Next]_vars PROVE IInv'
  OBVIOUS
<1>1. TypeOK' /\ Linked' /\ Stopped'
  BY NextTypeOK, NextLinked, NextStopped DEF IInv
<1>2. camera' => InTurn'
  BY NextInTurn
<1>3. \A m \in OnTheWay' : m.what = "decode" => Kept(m)'
  BY <1>1, NextKept
<1> QED BY <1>1, <1>2, <1>3 DEF IInv

-----------------------------------------------------------------------------
\* The variables keep their types, however many frames the camera takes.
THEOREM PreviewTypes == Spec => []TypeOK
<1>1. IInv => TypeOK
  BY DEF IInv
<1> QED BY InitIInv, NextIInv, <1>1, PTL DEF Spec

\* No frame is overwritten before the next but one is begun: startPreview gives the camera
\* two buffers, and onPreviewFrame gives each of them back once.
THEOREM FramesAreDoubleBuffered == Spec => []DoubleBuffered
<1>1. IInv => DoubleBuffered
  <2> SUFFICES ASSUME IInv, NEW m \in Unread, m.what = "decode", begun < m.frame + 2
               PROVE  content[m.buffer] = m.frame
    BY DEF DoubleBuffered
  <2> QED BY DEF IInv, OnTheWay, Kept
<1> QED BY InitIInv, NextIInv, <1>1, PTL DEF Spec

\* Nothing gets behind the stop of onPause: stopPreview has taken the handler out of the
\* callback when quitSynchronously posts it.
THEOREM StopIsLast == Spec => []NothingBehindStop
<1>1. IInv => NothingBehindStop
  BY DEF IInv, Stopped
<1> QED BY InitIInv, NextIInv, <1>1, PTL DEF Spec
=============================================================================
