-------------------------- MODULE SendPipelineProofs --------------------------
(***************************************************************************)
(* The safety properties of the send pipeline, for any number of visits    *)
(* and files.                                                              *)
(***************************************************************************)
EXTENDS SendPipeline, SequenceTheorems, TLAPS

Names == {"RaptorEncodePhase", "FFmpegPhase", "finish"}

\* The order in which a visit's messages to the main thread are sent.
Rank(m) == IF m = "RaptorEncodePhase" THEN 1 ELSE IF m = "FFmpegPhase" THEN 2 ELSE 3

\* Message m of visit v is on its way to the main thread.
Announced(v, m) == \E i \in DOMAIN mq : mq[i] = <<v, m>>

\* Nothing after the k-th announcement of v has been sent.
UpTo(v, k) == phase[v] <= k /\ \A m \in Names : Announced(v, m) => Rank(m) <= k

InOrder == \A i, j \in DOMAIN mq : i < j /\ mq[i][1] = mq[j][1] => Rank(mq[i][2]) < Rank(mq[j][2])
Ahead   == \A i \in DOMAIN mq : phase[mq[i][1]] < Rank(mq[i][2])

\* A thread has its configuration, or finds it first in its queue; Queued: before m.
Waiting(q, v, t) ==
  \/ <<v, t>> \in ready /\ q[v] = <<>>
  \/ <<v, t>> \notin ready /\ q[v] = <<"Init">>

Queued(q, v, t, m) ==
  \/ <<v, t>> \in ready /\ q[v] = <<m>>
  \/ <<v, t>> \notin ready /\ q[v] = <<"Init", m>>

-----------------------------------------------------------------------------
(* The work of a visit is in one place at a time.                          *)

Unstarted(v) ==
  /\ file[v] = NoFile /\ zq[v] = <<>> /\ rq[v] = <<>> /\ fq[v] = <<>>
  /\ <<v, "raptor">> \notin ready /\ <<v, "ffmpeg">> \notin ready
  /\ zip[v] = "idle" /\ raptor[v] = "idle" /\ ffmpeg[v] = "idle" /\ UpTo(v, 0)

Configuring(v) ==
  /\ file[v] # NoFile /\ zq[v] = <<>> /\ <<v, "raptor">> \notin ready
  /\ \/ /\ todo = << <<v, "ffmpeg">>, <<v, "raptor">>, <<v, "zip">> >>
        /\ fq[v] = <<>> /\ rq[v] = <<>> /\ <<v, "ffmpeg">> \notin ready
     \/ todo = << <<v, "raptor">>, <<v, "zip">> >> /\ Waiting(fq, v, "ffmpeg") /\ rq[v] = <<>>
  /\ zip[v] = "idle" /\ raptor[v] = "idle" /\ ffmpeg[v] = "idle" /\ UpTo(v, 0)

ZipNext(v) ==
  /\ file[v] # NoFile /\ todo = << <<v, "zip">> >> /\ zq[v] = <<>>
  /\ Waiting(rq, v, "raptor") /\ Waiting(fq, v, "ffmpeg")
  /\ zip[v] = "idle" /\ raptor[v] = "idle" /\ ffmpeg[v] = "idle" /\ UpTo(v, 0)

Zipping(v) ==
  /\ file[v] # NoFile /\ zq[v] = <<"ZipFile">>
  /\ Waiting(rq, v, "raptor") /\ Waiting(fq, v, "ffmpeg")
  /\ zip[v] \in {"idle", "zipping"} /\ raptor[v] = "idle" /\ ffmpeg[v] = "idle" /\ UpTo(v, 0)
  /\ zip[v] = "zipping" /\ ~Shared(v) => zips[file[v]] = "partial"

Encoding(v) ==
  /\ file[v] # NoFile /\ zq[v] = <<>>
  /\ Queued(rq, v, "raptor", "Encode") /\ Waiting(fq, v, "ffmpeg")
  /\ zip[v] = "idle" /\ zFile[v] /\ ffmpeg[v] = "idle"
  /\ ~Shared(v) => zips[file[v]] = "whole"
  /\ \/ raptor[v] = "idle" /\ UpTo(v, 0)
     \/ /\ raptor[v] = "encoding" /\ UpTo(v, 1) /\ <<v, "raptor">> \in ready
        /\ ~Shared(v) => pictures[v] = "whole"

\* The zip or the drawing has failed: nothing follows.
Broken(v) ==
  /\ file[v] # NoFile /\ failed[v] /\ zq[v] = <<>> /\ Waiting(fq, v, "ffmpeg")
  /\ zip[v] = "idle" /\ ffmpeg[v] = "idle" /\ UpTo(v, 1)
  /\ \/ raptor[v] = "idle" /\ (Queued(rq, v, "raptor", "failed") \/ Waiting(rq, v, "raptor"))
     \/ raptor[v] = "quit" /\ rq[v] = <<>>

Filming(v) ==
  /\ file[v] # NoFile /\ zq[v] = <<>> /\ rq[v] = <<>> /\ <<v, "raptor">> \in ready
  /\ Queued(fq, v, "ffmpeg", "GenerateVideo")
  /\ zip[v] = "idle" /\ zFile[v] /\ raptor[v] = "idle"
  /\ ~failed[v] /\ ~Shared(v) => pictures[v] = "whole"
  /\ \/ ffmpeg[v] = "idle" /\ UpTo(v, 1)
     \/ ffmpeg[v] \in {"running", "stuck"} /\ UpTo(v, 2) /\ <<v, "ffmpeg">> \in ready

Filmed(v) ==
  /\ file[v] # NoFile /\ rq[v] = <<>> /\ fq[v] = <<>>
  /\ <<v, "raptor">> \in ready /\ <<v, "ffmpeg">> \in ready
  /\ zip[v] = "idle" /\ zFile[v] /\ raptor[v] = "idle" /\ ffmpeg[v] = "idle"
  /\ ~failed[v] /\ ~Shared(v) => video[v] = "whole"
  /\ \/ zq[v] = <<>> /\ phase[v] <= 2
     \/ zq[v] = <<"finish">> /\ phase[v] = 3

\* The threads end, the zip thread first.
Ending(v) ==
  /\ file[v] # NoFile /\ zq[v] = <<>> /\ phase[v] = 3 /\ zip[v] = "quit"
  /\ <<v, "raptor">> \in ready /\ <<v, "ffmpeg">> \in ready
  /\ ~failed[v] /\ ~Shared(v) => video[v] = "whole"
  /\ \/ rq[v] = <<"finish">> /\ fq[v] = <<>> /\ raptor[v] = "idle" /\ ffmpeg[v] = "idle"
     \/ rq[v] = <<>> /\ fq[v] = <<"finish">> /\ raptor[v] = "quit" /\ ffmpeg[v] = "idle"
     \/ rq[v] = <<>> /\ fq[v] = <<>> /\ raptor[v] = "quit" /\ ffmpeg[v] = "quit"

Stage(v) ==
  \/ Unstarted(v) \/ Configuring(v) \/ ZipNext(v) \/ Zipping(v) \/ Encoding(v) \/ Broken(v)
  \/ Filming(v) \/ Filmed(v) \/ Ending(v)

Starting(v) == Configuring(v) \/ ZipNext(v)

\* What the main thread has still to send is for one visit.
Sending == todo # <<>> => \E v \in Visit : Starting(v)

IInv ==
  /\ TypeOK /\ Sending /\ InOrder /\ Ahead
  /\ \A v \in Visit : Stage(v)
  /\ CrashesOnlyWhenShared

-----------------------------------------------------------------------------
(* Queues of at most two messages.                                         *)

LEMMA ShortQueues ==
  ASSUME NEW a, NEW b
  PROVE  /\ <<a>> # <<>> /\ Head(<<a>>) = a /\ Tail(<<a>>) = <<>>
         /\ <<a, b>> # <<>> /\ Head(<<a, b>>) = a /\ Tail(<<a, b>>) = <<b>>
         /\ Append(<<>>, a) = <<a>> /\ Append(<<a>>, b) = <<a, b>>
         /\ <<a>> \o <<>> = <<a>>
<1>1. Append(<<a>>, b) = <<a, b>>
  <2>1. <<a>> \in Seq({a, b}) /\ <<a, b>> \in Seq({a, b}) /\ b \in {a, b}
    OBVIOUS
  <2>2. Append(<<a>>, b) \in Seq({a, b}) /\ Len(Append(<<a>>, b)) = 2
    BY <2>1, AppendProperties
  <2>3. Append(<<a>>, b)[1] = a /\ Append(<<a>>, b)[2] = b
    BY <2>1, AppendProperties
  <2>4. Len(<<a, b>>) = 2 /\ <<a, b>>[1] = a /\ <<a, b>>[2] = b
    OBVIOUS
  <2>5. \A i \in 1 .. Len(Append(<<a>>, b)) : Append(<<a>>, b)[i] = <<a, b>>[i]
    BY <2>2, <2>3, <2>4
  <2> QED BY <2>1, <2>2, <2>4, <2>5, SeqEqual
<1>2. <<a>> # <<>> /\ Head(<<a>>) = a /\ Tail(<<a>>) = <<>>
  OBVIOUS
<1>3. <<a, b>> # <<>> /\ Head(<<a, b>>) = a /\ Tail(<<a, b>>) = <<b>>
  OBVIOUS
<1>4. Append(<<>>, a) = <<a>> /\ <<a>> \o <<>> = <<a>>
  OBVIOUS
<1> QED BY <1>1, <1>2, <1>3, <1>4

LEMMA SendOrderSteps ==
  ASSUME NEW v
  PROVE  /\ SendOrder(v) = << <<v, "ffmpeg">>, <<v, "raptor">>, <<v, "zip">> >>
         /\ SendOrder(v) # <<>> /\ Head(SendOrder(v)) = <<v, "ffmpeg">>
         /\ Tail(SendOrder(v)) = << <<v, "raptor">>, <<v, "zip">> >>
BY DEF SendOrder

LEMMA ZipQueue ==
  ASSUME TypeOK, NEW v \in Visit
  PROVE  /\ \A m \in {"ZipFile", "finish"} :
              /\ Post(zq, v, m) \in [Visit -> Seq({"ZipFile", "finish"})]
              /\ PostAtFront(zq, v, m) \in [Visit -> Seq({"ZipFile", "finish"})]
              /\ Post(zq, v, m)[v] = Append(zq[v], m)
              /\ PostAtFront(zq, v, m)[v] = <<m>> \o zq[v]
              /\ \A w \in Visit \ {v} :
                   Post(zq, v, m)[w] = zq[w] /\ PostAtFront(zq, v, m)[w] = zq[w]
         /\ Quit(zq, v) \in [Visit -> Seq({"ZipFile", "finish"})]
         /\ zq[v] # <<>> => Done(zq, v) \in [Visit -> Seq({"ZipFile", "finish"})]
         /\ Done(zq, v)[v] = Tail(zq[v]) /\ Quit(zq, v)[v] = <<>>
         /\ \A w \in Visit \ {v} : Done(zq, v)[w] = zq[w] /\ Quit(zq, v)[w] = zq[w]
<1>1. zq \in [Visit -> Seq({"ZipFile", "finish"})]
  BY DEF TypeOK
<1>2. ASSUME NEW m \in {"ZipFile", "finish"}
      PROVE  /\ Append(zq[v], m) \in Seq({"ZipFile", "finish"})
             /\ <<m>> \o zq[v] \in Seq({"ZipFile", "finish"})
  <2>1. <<m>> \in Seq({"ZipFile", "finish"})
    OBVIOUS
  <2> QED BY <1>1, <2>1, AppendProperties, ConcatProperties
<1>3. /\ <<>> \in Seq({"ZipFile", "finish"})
      /\ (zq[v] # <<>> => Tail(zq[v]) \in Seq({"ZipFile", "finish"}))
  BY <1>1
<1> QED BY <1>1, <1>2, <1>3 DEF Post, PostAtFront, Done, Quit

LEMMA RaptorQueue ==
  ASSUME TypeOK, NEW v \in Visit
  PROVE  /\ \A m \in {"Init", "Encode", "failed", "finish"} :
              /\ Post(rq, v, m) \in [Visit -> Seq({"Init", "Encode", "failed", "finish"})]
              /\ PostAtFront(rq, v, m) \in [Visit -> Seq({"Init", "Encode", "failed", "finish"})]
              /\ Post(rq, v, m)[v] = Append(rq[v], m)
              /\ PostAtFront(rq, v, m)[v] = <<m>> \o rq[v]
              /\ \A w \in Visit \ {v} :
                   Post(rq, v, m)[w] = rq[w] /\ PostAtFront(rq, v, m)[w] = rq[w]
         /\ Quit(rq, v) \in [Visit -> Seq({"Init", "Encode", "failed", "finish"})]
         /\ rq[v] # <<>> => Done(rq, v) \in [Visit -> Seq({"Init", "Encode", "failed", "finish"})]
         /\ Done(rq, v)[v] = Tail(rq[v]) /\ Quit(rq, v)[v] = <<>>
         /\ \A w \in Visit \ {v} : Done(rq, v)[w] = rq[w] /\ Quit(rq, v)[w] = rq[w]
<1>1. rq \in [Visit -> Seq({"Init", "Encode", "failed", "finish"})]
  BY DEF TypeOK
<1>2. ASSUME NEW m \in {"Init", "Encode", "failed", "finish"}
      PROVE  /\ Append(rq[v], m) \in Seq({"Init", "Encode", "failed", "finish"})
             /\ <<m>> \o rq[v] \in Seq({"Init", "Encode", "failed", "finish"})
  <2>1. <<m>> \in Seq({"Init", "Encode", "failed", "finish"})
    OBVIOUS
  <2> QED BY <1>1, <2>1, AppendProperties, ConcatProperties
<1>3. /\ <<>> \in Seq({"Init", "Encode", "failed", "finish"})
      /\ (rq[v] # <<>> => Tail(rq[v]) \in Seq({"Init", "Encode", "failed", "finish"}))
  BY <1>1
<1> QED BY <1>1, <1>2, <1>3 DEF Post, PostAtFront, Done, Quit

LEMMA FFmpegQueue ==
  ASSUME TypeOK, NEW v \in Visit
  PROVE  /\ \A m \in {"Init", "GenerateVideo", "finish"} :
              /\ Post(fq, v, m) \in [Visit -> Seq({"Init", "GenerateVideo", "finish"})]
              /\ PostAtFront(fq, v, m) \in [Visit -> Seq({"Init", "GenerateVideo", "finish"})]
              /\ Post(fq, v, m)[v] = Append(fq[v], m)
              /\ PostAtFront(fq, v, m)[v] = <<m>> \o fq[v]
              /\ \A w \in Visit \ {v} :
                   Post(fq, v, m)[w] = fq[w] /\ PostAtFront(fq, v, m)[w] = fq[w]
         /\ Quit(fq, v) \in [Visit -> Seq({"Init", "GenerateVideo", "finish"})]
         /\ fq[v] # <<>> => Done(fq, v) \in [Visit -> Seq({"Init", "GenerateVideo", "finish"})]
         /\ Done(fq, v)[v] = Tail(fq[v]) /\ Quit(fq, v)[v] = <<>>
         /\ \A w \in Visit \ {v} : Done(fq, v)[w] = fq[w] /\ Quit(fq, v)[w] = fq[w]
<1>1. fq \in [Visit -> Seq({"Init", "GenerateVideo", "finish"})]
  BY DEF TypeOK
<1>2. ASSUME NEW m \in {"Init", "GenerateVideo", "finish"}
      PROVE  /\ Append(fq[v], m) \in Seq({"Init", "GenerateVideo", "finish"})
             /\ <<m>> \o fq[v] \in Seq({"Init", "GenerateVideo", "finish"})
  <2>1. <<m>> \in Seq({"Init", "GenerateVideo", "finish"})
    OBVIOUS
  <2> QED BY <1>1, <2>1, AppendProperties, ConcatProperties
<1>3. /\ <<>> \in Seq({"Init", "GenerateVideo", "finish"})
      /\ (fq[v] # <<>> => Tail(fq[v]) \in Seq({"Init", "GenerateVideo", "finish"}))
  BY <1>1
<1> QED BY <1>1, <1>2, <1>3 DEF Post, PostAtFront, Done, Quit

LEMMA UpToMore ==
  ASSUME TypeOK, NEW v \in Visit
  PROVE  /\ UpTo(v, 0) => UpTo(v, 1)
         /\ UpTo(v, 1) => UpTo(v, 2)
<1>1. phase[v] \in 0 .. 3 /\ \A m : Rank(m) \in 1 .. 3
  BY DEF TypeOK, Rank
<1> QED BY <1>1 DEF UpTo

LEMMA AppendMessage ==
  ASSUME mq \in Seq(Visit \X Names), NEW v \in Visit, NEW m \in Names,
         mq' = Append(mq, <<v, m>>), phase \in [Visit -> 0 .. 3], phase' = phase,
         InOrder, Ahead, UpTo(v, Rank(m) - 1)
  PROVE  /\ \A w \in Visit : \A n : Announced(w, n)' <=> Announced(w, n) \/ (w = v /\ n = m)
         /\ InOrder' /\ Ahead'
<1>1. /\ Len(mq') = Len(mq) + 1 /\ mq'[Len(mq) + 1] = <<v, m>>
      /\ \A i \in 1 .. Len(mq) : mq'[i] = mq[i]
      /\ DOMAIN mq = 1 .. Len(mq) /\ DOMAIN mq' = 1 .. Len(mq) + 1 /\ Len(mq) \in Nat
  OBVIOUS
<1>2. ASSUME NEW w \in Visit, NEW n
      PROVE  Announced(w, n)' <=> Announced(w, n) \/ (w = v /\ n = m)
  <2>1. ASSUME NEW i \in DOMAIN mq', mq'[i] = <<w, n>>
        PROVE  Announced(w, n) \/ (w = v /\ n = m)
    <3>1. CASE i = Len(mq) + 1
      BY <1>1, <2>1, <3>1
    <3>2. CASE i # Len(mq) + 1
      <4>1. i \in DOMAIN mq /\ mq'[i] = mq[i]
        BY <1>1, <3>2
      <4> QED BY <2>1, <4>1 DEF Announced
    <3> QED BY <3>1, <3>2
  <2>2. ASSUME NEW i \in DOMAIN mq, mq[i] = <<w, n>>
        PROVE  Announced(w, n)'
    <3>1. i \in DOMAIN mq' /\ mq'[i] = <<w, n>>
      BY <1>1, <2>2
    <3> QED BY <3>1 DEF Announced
  <2>3. w = v /\ n = m => Announced(w, n)'
    <3>1. Len(mq) + 1 \in DOMAIN mq'
      BY <1>1
    <3> QED BY <1>1, <3>1 DEF Announced
  <2> QED BY <2>1, <2>2, <2>3 DEF Announced
<1>3. \A i \in DOMAIN mq : mq[i][1] = v => Rank(mq[i][2]) < Rank(m)
  <2> SUFFICES ASSUME NEW i \in DOMAIN mq, mq[i][1] = v PROVE Rank(mq[i][2]) < Rank(m)
    OBVIOUS
  <2>1. mq[i] = <<v, mq[i][2]>> /\ mq[i][2] \in Names
    OBVIOUS
  <2> QED BY <2>1 DEF Announced, UpTo, Rank, Names
<1>4. InOrder'
  BY <1>1, <1>3 DEF InOrder
<1>5. Ahead'
  BY <1>1 DEF Ahead, UpTo, Rank, Names
<1> QED BY <1>2, <1>4, <1>5

LEMMA TakeMessage ==
  ASSUME mq \in Seq(Visit \X Names), mq # <<>>, mq' = Tail(mq), phase \in [Visit -> 0 .. 3],
         phase' = [phase EXCEPT ![Head(mq)[1]] = Rank(Head(mq)[2])], InOrder, Ahead
  PROVE  /\ \A w \in Visit : \A n : Announced(w, n)' => Announced(w, n)
         /\ InOrder' /\ Ahead'
         /\ Head(mq)[1] \in Visit /\ Head(mq)[2] \in Names /\ Announced(Head(mq)[1], Head(mq)[2])
         /\ phase[Head(mq)[1]] < Rank(Head(mq)[2])
<1>1. /\ Len(mq') = Len(mq) - 1 /\ Len(mq) \in Nat \ {0} /\ Head(mq) = mq[1]
      /\ \A i \in 1 .. Len(mq) - 1 : mq'[i] = mq[i + 1]
      /\ DOMAIN mq = 1 .. Len(mq) /\ DOMAIN mq' = 1 .. Len(mq) - 1
  OBVIOUS
<1>2. \A w \in Visit : \A n : Announced(w, n)' => Announced(w, n)
  BY <1>1 DEF Announced
<1>3. InOrder'
  <2> SUFFICES ASSUME NEW i \in 1 .. Len(mq) - 1, NEW j \in 1 .. Len(mq) - 1, i < j,
                      mq'[i][1] = mq'[j][1]
               PROVE  Rank(mq'[i][2]) < Rank(mq'[j][2])
    BY <1>1 DEF InOrder
  <2>1. /\ i + 1 \in DOMAIN mq /\ j + 1 \in DOMAIN mq /\ i + 1 < j + 1
        /\ mq'[i] = mq[i + 1] /\ mq'[j] = mq[j + 1]
    BY <1>1
  <2> QED BY <2>1 DEF InOrder
<1>4. 1 \in DOMAIN mq /\ mq[1] \in Visit \X Names /\ mq[1] = <<mq[1][1], mq[1][2]>>
  BY <1>1
<1>5. phase[Head(mq)[1]] < Rank(Head(mq)[2]) /\ Announced(Head(mq)[1], Head(mq)[2])
  BY <1>1, <1>4 DEF Ahead, Announced
<1>6. Ahead'
  <2> SUFFICES ASSUME NEW i \in 1 .. Len(mq) - 1
               PROVE  phase'[mq'[i][1]] < Rank(mq'[i][2])
    BY <1>1 DEF Ahead
  <2>1. i + 1 \in DOMAIN mq /\ mq'[i] = mq[i + 1] /\ mq[i + 1][1] \in Visit
    BY <1>1
  <2>2. CASE mq[i + 1][1] = mq[1][1]
    <3>1. Rank(mq[1][2]) < Rank(mq[i + 1][2])
      <4>1. 1 < i + 1
        OBVIOUS
      <4> QED BY <1>4, <2>1, <2>2, <4>1 DEF InOrder
    <3> QED BY <1>1, <1>4, <2>1, <2>2, <3>1
  <2>3. CASE mq[i + 1][1] # mq[1][1]
    BY <1>1, <2>1, <2>3 DEF Ahead
  <2> QED BY <2>2, <2>3
<1> QED BY <1>1, <1>2, <1>3, <1>4, <1>5, <1>6
-----------------------------------------------------------------------------
(* What one visit does leaves the others where they are.                   *)

\* The step changes nothing that the stage of w is about.
Untouched(w) ==
  /\ file'[w] = file[w] /\ zq'[w] = zq[w] /\ rq'[w] = rq[w] /\ fq'[w] = fq[w]
  /\ zip'[w] = zip[w] /\ raptor'[w] = raptor[w] /\ ffmpeg'[w] = ffmpeg[w]
  /\ zFile'[w] = zFile[w] /\ pictures'[w] = pictures[w] /\ video'[w] = video[w]
  /\ phase'[w] = phase[w] /\ failed'[w] = failed[w]
  /\ \A t \in {"raptor", "ffmpeg"} : <<w, t>> \in ready' <=> <<w, t>> \in ready
  /\ \A m : Announced(w, m)' => Announced(w, m)
  /\ Shared(w) => Shared(w)'
  /\ file[w] # NoFile /\ ~Shared(w)' => zips'[file[w]] = zips[file[w]]
  /\ Starting(w) => todo' = todo

LEMMA UntouchedStays ==
  ASSUME NEW w \in Visit, Stage(w), Untouched(w)
  PROVE  Stage(w)' /\ (Starting(w) => Starting(w)')
<1> USE DEF Starting
<1>1. \A k \in 0 .. 2 : UpTo(w, k) => UpTo(w, k)'
  BY DEF UpTo, Untouched
<1>2. /\ Waiting(rq, w, "raptor") => Waiting(rq, w, "raptor")'
      /\ Waiting(fq, w, "ffmpeg") => Waiting(fq, w, "ffmpeg")'
      /\ \A m : Queued(rq, w, "raptor", m) => Queued(rq, w, "raptor", m)'
      /\ \A m : Queued(fq, w, "ffmpeg", m) => Queued(fq, w, "ffmpeg", m)'
  BY DEF Waiting, Queued, Untouched
<1>3. Unstarted(w) => Unstarted(w)'
  BY <1>1 DEF Unstarted, Untouched
<1>4. Configuring(w) => Configuring(w)'
  BY <1>1, <1>2 DEF Configuring, Untouched
<1>5. ZipNext(w) => ZipNext(w)'
  BY <1>1, <1>2 DEF ZipNext, Untouched
<1>6. Zipping(w) => Zipping(w)'
  BY <1>1, <1>2 DEF Zipping, Untouched
<1>7. Encoding(w) => Encoding(w)'
  BY <1>1, <1>2 DEF Encoding, Untouched
<1>8. Broken(w) => Broken(w)'
  BY <1>1, <1>2 DEF Broken, Untouched
<1>9. Filming(w) => Filming(w)'
  BY <1>1, <1>2 DEF Filming, Untouched
<1>10. Filmed(w) => Filmed(w)'
  BY <1>1, <1>2 DEF Filmed, Untouched
<1>11. Ending(w) => Ending(w)'
  BY <1>1, <1>2 DEF Ending, Untouched
<1> QED BY <1>3, <1>4, <1>5, <1>6, <1>7, <1>8, <1>9, <1>10, <1>11 DEF Stage


\* A step of visit v that neither starts a visit nor sends a configuration.
LEMMA StepOfVisit ==
  ASSUME IInv, NEW v \in Visit, todo' = todo, Stage(v)', Starting(v) => Starting(v)',
         \A w \in Visit \ {v} : Untouched(w)
  PROVE  Sending' /\ \A w \in Visit : Stage(w)'
<1>1. \A w \in Visit : Stage(w)' /\ (Starting(w) => Starting(w)')
  BY UntouchedStays DEF IInv
<1>2. Sending'
  BY <1>1 DEF Sending, IInv
<1> QED BY <1>1, <1>2

\* The process ends: nothing else changes.
LEMMA CrashStep ==
  ASSUME IInv, Crash, \E v \in Visit : Shared(v) \/ file[v] \in Dotless
  PROVE  IInv'
<1> USE DEF Crash, queues, threads, data
<1>1. \A w \in Visit : Untouched(w)
  BY DEF Untouched, Announced, Shared
<1>2. \A w \in Visit : Stage(w)' /\ (Starting(w) => Starting(w)')
  BY <1>1, UntouchedStays DEF IInv
<1>3. Sending'
  BY <1>2 DEF Sending, IInv
<1>4. TypeOK' /\ InOrder' /\ Ahead' /\ CrashesOnlyWhenShared'
  BY DEF IInv, TypeOK, InOrder, Ahead, CrashesOnlyWhenShared, Shared
<1> QED BY <1>2, <1>3, <1>4 DEF IInv

-----------------------------------------------------------------------------
(* The zip thread.                                                         *)

LEMMA OpenZipStep == ASSUME IInv, NEW v \in Visit, OpenZip(v) PROVE IInv'
<1> USE DEF OpenZip, queues, Next1
<1>1. TypeOK /\ Stage(v)
  BY DEF IInv
<1>2. Zipping(v)
  BY <1>1, ShortQueues DEF Stage, Unstarted, Configuring, ZipNext, Encoding, Broken, Filming,
                           Filmed, Ending
<1>3. Zipping(v)' /\ ~Starting(v)
  BY <1>1, <1>2, SendAssumption
     DEF Zipping, TypeOK, UpTo, Announced, Waiting, Shared, Starting, Configuring, ZipNext
<1>4. \A w \in Visit \ {v} : Untouched(w)
  BY <1>1, <1>2 DEF Untouched, TypeOK, Shared, Announced, Zipping
<1>5. TypeOK' /\ InOrder' /\ Ahead' /\ CrashesOnlyWhenShared'
  BY <1>1, <1>2, SendAssumption
     DEF IInv, TypeOK, InOrder, Ahead, CrashesOnlyWhenShared, Running, Zipping
<1> QED BY <1>3, <1>4, <1>5, StepOfVisit DEF IInv, Stage

LEMMA WriteZipStep == ASSUME IInv, NEW v \in Visit, WriteZip(v) PROVE IInv'
<1> USE DEF WriteZip, queues, Next1
<1>1. TypeOK /\ Stage(v)
  BY DEF IInv
<1>2. Zipping(v) /\ file[v] \in Files
  BY <1>1, ShortQueues DEF Stage, Unstarted, Configuring, ZipNext, Encoding, Broken, Filming,
                           Filmed, Ending, TypeOK, Zipping
<1>3. /\ zq'[v] = <<>> /\ rq'[v] = Append(rq[v], "Encode")
      /\ \A w \in Visit \ {v} : zq'[w] = zq[w] /\ rq'[w] = rq[w]
      /\ zq' \in [Visit -> Seq({"ZipFile", "finish"})]
      /\ rq' \in [Visit -> Seq({"Init", "Encode", "failed", "finish"})]
  <2>1. zq[v] = <<"ZipFile">>
    BY <1>2 DEF Zipping
  <2>2. zq[v] # <<>> /\ Tail(zq[v]) = <<>>
    BY <2>1
  <2>3. /\ zq'[v] = <<>> /\ \A w \in Visit \ {v} : zq'[w] = zq[w]
        /\ zq' \in [Visit -> Seq({"ZipFile", "finish"})]
    BY <1>1, <2>2, ZipQueue
  <2>4. /\ rq'[v] = Append(rq[v], "Encode") /\ \A w \in Visit \ {v} : rq'[w] = rq[w]
        /\ rq' \in [Visit -> Seq({"Init", "Encode", "failed", "finish"})]
    BY <1>1, RaptorQueue
  <2> QED BY <2>3, <2>4
<1>4. Queued(rq, v, "raptor", "Encode")'
  <2>1. Append(<<>>, "Encode") = <<"Encode">> /\ Append(<<"Init">>, "Encode") = <<"Init", "Encode">>
    BY ShortQueues
  <2> QED BY <1>2, <1>3, <2>1 DEF Zipping, Waiting, Queued
<1>5. ~Shared(v)' => zips'[file'[v]] = "whole"
  BY <1>2, SendAssumption DEF Zipping, Shared
<1>6. Encoding(v)' /\ ~Starting(v)
  BY <1>1, <1>2, <1>3, <1>4, <1>5
     DEF Zipping, Encoding, TypeOK, UpTo, Announced, Waiting, Starting, Configuring, ZipNext
<1>7. \A w \in Visit \ {v} : Untouched(w)
  BY <1>1, <1>2, <1>3 DEF Untouched, TypeOK, Shared, Announced, Zipping
<1>8. TypeOK' /\ InOrder' /\ Ahead' /\ CrashesOnlyWhenShared'
  BY <1>1, <1>2, <1>3 DEF IInv, TypeOK, InOrder, Ahead, CrashesOnlyWhenShared, Running
<1> QED BY <1>6, <1>7, <1>8, StepOfVisit DEF IInv, Stage


LEMMA ZipFailsStep == ASSUME IInv, NEW v \in Visit, ZipFails(v) PROVE IInv'
<1> USE DEF ZipFails, queues, data, Next1
<1>1. TypeOK /\ Stage(v)
  BY DEF IInv
<1>2. Zipping(v)
  BY <1>1, ShortQueues DEF Stage, Unstarted, Configuring, ZipNext, Encoding, Broken, Filming,
                           Filmed, Ending
<1>3. zq[v] # <<>> /\ Tail(zq[v]) = <<>>
  BY <1>2 DEF Zipping
<1>4. /\ zq'[v] = <<>> /\ \A w \in Visit \ {v} : zq'[w] = zq[w]
      /\ zq' \in [Visit -> Seq({"ZipFile", "finish"})]
  BY <1>1, <1>3, ZipQueue
<1>5. /\ rq'[v] = Append(rq[v], "failed") /\ \A w \in Visit \ {v} : rq'[w] = rq[w]
      /\ rq' \in [Visit -> Seq({"Init", "Encode", "failed", "finish"})]
  BY <1>1, RaptorQueue
<1>6. Queued(rq, v, "raptor", "failed")'
  <2>1. Append(<<>>, "failed") = <<"failed">> /\ Append(<<"Init">>, "failed") = <<"Init", "failed">>
    BY ShortQueues
  <2> QED BY <1>2, <1>5, <2>1 DEF Zipping, Waiting, Queued
<1>7. Broken(v)' /\ ~Starting(v)
  <2>1. UpTo(v, 1)'
    <3>1. UpTo(v, 1)
      BY <1>1, <1>2, UpToMore DEF Zipping
    <3> QED BY <3>1 DEF UpTo, Announced
  <2> QED BY <1>1, <1>2, <1>4, <1>6, <2>1
     DEF Zipping, Broken, TypeOK, Waiting, Starting, Configuring, ZipNext
<1>8. \A w \in Visit \ {v} : Untouched(w)
  BY <1>1, <1>2, <1>4, <1>5 DEF Untouched, TypeOK, Shared, Announced
<1>9. TypeOK' /\ InOrder' /\ Ahead' /\ CrashesOnlyWhenShared'
  BY <1>1, <1>2, <1>4, <1>5 DEF IInv, TypeOK, InOrder, Ahead, CrashesOnlyWhenShared, Running
<1> QED BY <1>7, <1>8, <1>9, StepOfVisit DEF IInv, Stage

LEMMA ZipFinishStep == ASSUME IInv, NEW v \in Visit, ZipFinish(v) PROVE IInv'
<1>1. TypeOK /\ Stage(v) /\ Running /\ Next1(zq, v, "finish")
  BY DEF IInv, ZipFinish
<1>2. Filmed(v) /\ zq[v] = <<"finish">>
  BY <1>1, ShortQueues DEF Stage, Unstarted, Configuring, ZipNext, Zipping, Encoding, Broken,
                           Filming, Filmed, Ending, Next1
<1>3. zFile[v] /\ raptor[v] = "idle" /\ file[v] \in Files
  BY <1>1, <1>2 DEF Filmed, TypeOK
<1>4. /\ zips' = [zips EXCEPT ![file[v]] = "absent"] /\ zip' = [zip EXCEPT ![v] = "quit"]
      /\ zq' = Quit(zq, v) /\ rq' = PostAtFront(rq, v, "finish")
      /\ UNCHANGED <<file, todo, mq, fq, raptor, ffmpeg, zFile, ready, pictures, video,
                    raced, phase, failed, crashed>>
  BY <1>3 DEF ZipFinish
<1>5. /\ zq'[v] = <<>> /\ \A w \in Visit \ {v} : zq'[w] = zq[w]
      /\ zq' \in [Visit -> Seq({"ZipFile", "finish"})]
  BY <1>1, <1>4, ZipQueue
<1>6. /\ rq'[v] = <<"finish">> \o rq[v] /\ \A w \in Visit \ {v} : rq'[w] = rq[w]
      /\ rq' \in [Visit -> Seq({"Init", "Encode", "failed", "finish"})]
  BY <1>1, <1>4, RaptorQueue
<1>7. rq'[v] = <<"finish">>
  BY <1>2, <1>6, ShortQueues DEF Filmed
<1>8. Ending(v)' /\ ~Starting(v)
  BY <1>1, <1>2, <1>4, <1>5, <1>7 DEF Filmed, Ending, TypeOK, Shared, Starting, Configuring, ZipNext
<1>9. \A w \in Visit \ {v} : Untouched(w)
  BY <1>1, <1>3, <1>4, <1>5, <1>6 DEF Untouched, TypeOK, Shared, Announced
<1>10. TypeOK' /\ InOrder' /\ Ahead' /\ CrashesOnlyWhenShared'
  BY <1>1, <1>3, <1>4, <1>5, <1>6
     DEF IInv, TypeOK, InOrder, Ahead, CrashesOnlyWhenShared, Running
<1> QED BY <1>4, <1>8, <1>9, <1>10, StepOfVisit DEF IInv, Stage

-----------------------------------------------------------------------------
(* The encoder thread.                                                     *)

LEMMA InitEncodeStep == ASSUME IInv, NEW v \in Visit, InitEncode(v) PROVE IInv'
<1> USE DEF queues, threads, Next1
<1>1. TypeOK /\ Stage(v)
  BY DEF IInv
<1>2. CASE file[v] \in Dotless /\ Crash
  BY <1>2, CrashStep
<1>3. CASE ~(file[v] \in Dotless /\ Crash)
  <2>1. /\ ready' = ready \cup {<<v, "raptor">>} /\ rq' = Done(rq, v) /\ Next1(rq, v, "Init")
        /\ UNCHANGED <<file, todo, mq, zq, fq, threads, zFile, zips, pictures, video,
                      raced, phase, failed, crashed>>
        /\ Running
    BY <1>3 DEF InitEncode
  <2>2. /\ rq'[v] = Tail(rq[v]) /\ \A w \in Visit \ {v} : rq'[w] = rq[w]
        /\ rq' \in [Visit -> Seq({"Init", "Encode", "failed", "finish"})]
    BY <1>1, <2>1, RaptorQueue
  <2>3. /\ Queued(rq, v, "raptor", "Encode") => Queued(rq, v, "raptor", "Encode")'
        /\ Queued(rq, v, "raptor", "failed") => Queued(rq, v, "raptor", "failed")'
    <3>1. /\ Head(<<"Encode">>) # "Init" /\ Tail(<<"Init", "Encode">>) = <<"Encode">>
          /\ Head(<<"failed">>) # "Init" /\ Tail(<<"Init", "failed">>) = <<"failed">>
      BY ShortQueues
    <3> QED BY <2>1, <2>2, <3>1 DEF Queued
  <2>4. /\ Waiting(rq, v, "raptor") => Waiting(rq, v, "raptor")'
        /\ Waiting(fq, v, "ffmpeg") => Waiting(fq, v, "ffmpeg")'
    BY <2>1, <2>2, ShortQueues DEF Waiting
  <2>5. \A k \in 0 .. 2 : UpTo(v, k) => UpTo(v, k)'
    BY <2>1 DEF UpTo, Announced
  <2>6. Stage(v)' /\ (Starting(v) => Starting(v)')
    <3>1. ZipNext(v) => ZipNext(v)'
      BY <2>1, <2>4, <2>5 DEF ZipNext
    <3>2. Zipping(v) => Zipping(v)'
      BY <2>1, <2>4, <2>5 DEF Zipping, Shared
    <3>3. Encoding(v) => Encoding(v)'
      BY <2>1, <2>3, <2>4, <2>5 DEF Encoding, Shared
    <3>4. Broken(v) => Broken(v)'
      BY <2>1, <2>3, <2>4, <2>5 DEF Broken
    <3>5. ZipNext(v) \/ Zipping(v) \/ Encoding(v) \/ Broken(v)
      BY <1>1, <2>1, ShortQueues DEF Stage, Unstarted, Configuring, Filming, Filmed, Ending
    <3>6. ~Configuring(v)
      BY <2>1 DEF Configuring
    <3> QED BY <3>1, <3>2, <3>3, <3>4, <3>5, <3>6 DEF Stage, Starting
  <2>7. \A w \in Visit \ {v} : Untouched(w)
    BY <1>1, <2>1, <2>2 DEF Untouched, TypeOK, Shared, Announced
  <2>8. TypeOK' /\ InOrder' /\ Ahead' /\ CrashesOnlyWhenShared'
    BY <1>1, <2>1, <2>2 DEF IInv, TypeOK, InOrder, Ahead, CrashesOnlyWhenShared, Running
  <2> QED BY <2>1, <2>6, <2>7, <2>8, StepOfVisit DEF IInv
<1> QED BY <1>2, <1>3


LEMMA EncodeStep == ASSUME IInv, NEW v \in Visit, Encode(v) PROVE IInv'
<1>1. TypeOK /\ Stage(v) /\ Running /\ raptor[v] = "idle" /\ Next1(rq, v, "Encode")
  BY DEF IInv, Encode
<1>2. Encoding(v) /\ rq[v] = <<"Encode">> /\ <<v, "raptor">> \in ready
  <2>1. Head(<<"Init", "Encode">>) # "Encode" /\ Head(<<"Init", "failed">>) # "Encode"
    BY ShortQueues
  <2> QED BY <1>1, <2>1, ShortQueues
             DEF Stage, Unstarted, Configuring, ZipNext, Zipping, Encoding, Broken, Filming,
                 Filmed, Ending, Waiting, Queued, Next1
<1>3. file[v] \in Files
  BY <1>1, <1>2 DEF Encoding, TypeOK
<1>4. CASE /\ zips[file[v]] # "whole" \/ <<v, "raptor">> \notin ready
           /\ Crash
  <2>1. Shared(v)
    BY <1>2, <1>4 DEF Encoding
  <2> QED BY <1>4, <2>1, CrashStep
<1>5. CASE /\ zips[file[v]] # "absent"
           /\ pictures' = [pictures EXCEPT ![v] = zips[file[v]]]
           /\ mq' = Append(mq, <<v, "RaptorEncodePhase">>)
           /\ raptor' = [raptor EXCEPT ![v] = "encoding"]
           /\ UNCHANGED <<file, todo, zq, rq, fq, zip, ffmpeg, zFile, ready, zips, video,
                         raced, phase, failed, crashed>>
  <2>1. UpTo(v, 0)
    BY <1>1, <1>2 DEF Encoding
  <2>2. /\ \A w \in Visit : \A n : Announced(w, n)' <=>
                              Announced(w, n) \/ (w = v /\ n = "RaptorEncodePhase")
        /\ InOrder' /\ Ahead'
    <3>1. mq \in Seq(Visit \X Names) /\ "RaptorEncodePhase" \in Names
      BY <1>1 DEF TypeOK, Names
    <3>2. Rank("RaptorEncodePhase") - 1 = 0 /\ phase \in [Visit -> 0 .. 3] /\ InOrder /\ Ahead
      BY <1>1 DEF Rank, TypeOK, IInv
    <3> QED BY <1>5, <2>1, <3>1, <3>2, AppendMessage
  <2>3. UpTo(v, 1)'
    BY <1>1, <1>5, <2>1, <2>2, UpToMore DEF UpTo, Rank
  <2>4. Encoding(v)' /\ ~Starting(v)
    BY <1>1, <1>2, <1>5, <2>3
       DEF Encoding, TypeOK, Shared, Waiting, Queued, Starting, Configuring, ZipNext
  <2>5. \A w \in Visit \ {v} : Untouched(w)
    BY <1>1, <1>5, <2>2 DEF Untouched, TypeOK, Shared
  <2>6. TypeOK'
    <3>1. mq' \in Seq(Visit \X {"RaptorEncodePhase", "FFmpegPhase", "finish"})
      <4>1. <<v, "RaptorEncodePhase">> \in Visit \X {"RaptorEncodePhase", "FFmpegPhase", "finish"}
        OBVIOUS
      <4> QED BY <1>1, <1>5, <4>1, AppendProperties DEF TypeOK
    <3> QED BY <1>1, <1>3, <1>5, <3>1 DEF TypeOK
  <2>7. CrashesOnlyWhenShared'
    BY <1>1, <1>5 DEF CrashesOnlyWhenShared, Running
  <2> QED BY <1>5, <2>2, <2>4, <2>5, <2>6, <2>7, StepOfVisit DEF IInv, Stage
<1> QED BY <1>4, <1>5 DEF Encode

LEMMA EncodeCompleteStep == ASSUME IInv, NEW v \in Visit, EncodeComplete(v) PROVE IInv'
<1> USE DEF EncodeComplete, Next1
<1>1. TypeOK /\ Stage(v)
  BY DEF IInv
<1>2. Encoding(v) /\ UpTo(v, 1) /\ rq[v] = <<"Encode">> /\ <<v, "raptor">> \in ready
      /\ (~Shared(v) => pictures[v] = "whole")
  BY <1>1 DEF Stage, Unstarted, Configuring, ZipNext, Zipping, Encoding, Broken, Filming,
              Filmed, Ending, Queued
<1>3. /\ rq'[v] = <<>> /\ \A w \in Visit \ {v} : rq'[w] = rq[w]
      /\ rq' \in [Visit -> Seq({"Init", "Encode", "failed", "finish"})]
  <2>1. rq[v] # <<>> /\ Tail(rq[v]) = <<>>
    BY <1>2
  <2> QED BY <1>1, <2>1, RaptorQueue
<1>4. /\ fq'[v] = Append(fq[v], "GenerateVideo") /\ \A w \in Visit \ {v} : fq'[w] = fq[w]
      /\ fq' \in [Visit -> Seq({"Init", "GenerateVideo", "finish"})]
  BY <1>1, FFmpegQueue
<1>5. Queued(fq, v, "ffmpeg", "GenerateVideo")'
  <2>1. /\ Append(<<>>, "GenerateVideo") = <<"GenerateVideo">>
        /\ Append(<<"Init">>, "GenerateVideo") = <<"Init", "GenerateVideo">>
    BY ShortQueues
  <2> QED BY <1>2, <1>4, <2>1 DEF Encoding, Waiting, Queued
<1>6. ~failed'[v] /\ ~Shared(v)' => pictures'[v] = "whole"
  BY <1>1, <1>2 DEF TypeOK, Shared
<1>7. UpTo(v, 1)'
  BY <1>2 DEF UpTo, Announced
<1>8. Filming(v)' /\ ~Starting(v)
  BY <1>1, <1>2, <1>3, <1>5, <1>6, <1>7
     DEF Encoding, Filming, TypeOK, Starting, Configuring, ZipNext
<1>9. \A w \in Visit \ {v} : Untouched(w)
  BY <1>1, <1>3, <1>4 DEF Untouched, TypeOK, Shared, Announced
<1>10. TypeOK' /\ InOrder' /\ Ahead' /\ CrashesOnlyWhenShared'
  BY <1>1, <1>3, <1>4 DEF IInv, TypeOK, InOrder, Ahead, CrashesOnlyWhenShared, Running
<1> QED BY <1>8, <1>9, <1>10, StepOfVisit DEF IInv, Stage

LEMMA EncodeFailsStep == ASSUME IInv, NEW v \in Visit, EncodeFails(v) PROVE IInv'
<1> USE DEF EncodeFails, data, Next1
<1>1. TypeOK /\ Stage(v)
  BY DEF IInv
<1>2. Encoding(v) /\ UpTo(v, 1) /\ rq[v] = <<"Encode">> /\ <<v, "raptor">> \in ready
  BY <1>1 DEF Stage, Unstarted, Configuring, ZipNext, Zipping, Encoding, Broken, Filming,
              Filmed, Ending, Queued
<1>3. /\ rq'[v] = <<>> /\ \A w \in Visit \ {v} : rq'[w] = rq[w]
      /\ rq' \in [Visit -> Seq({"Init", "Encode", "failed", "finish"})]
  <2>1. rq[v] # <<>> /\ Tail(rq[v]) = <<>>
    BY <1>2
  <2> QED BY <1>1, <2>1, RaptorQueue
<1>4. Broken(v)' /\ ~Starting(v)
  BY <1>1, <1>2, <1>3
     DEF Encoding, Broken, TypeOK, Waiting, UpTo, Announced, Starting, Configuring, ZipNext
<1>5. \A w \in Visit \ {v} : Untouched(w)
  BY <1>1, <1>3 DEF Untouched, TypeOK, Shared, Announced
<1>6. TypeOK' /\ InOrder' /\ Ahead' /\ CrashesOnlyWhenShared'
  BY <1>1, <1>3 DEF IInv, TypeOK, InOrder, Ahead, CrashesOnlyWhenShared, Running
<1> QED BY <1>4, <1>5, <1>6, StepOfVisit DEF IInv, Stage

LEMMA RaptorFailedStep == ASSUME IInv, NEW v \in Visit, RaptorFailed(v) PROVE IInv'
<1> USE DEF RaptorFailed, data
<1>1. TypeOK /\ Stage(v)
  BY DEF IInv
<1>2. Broken(v)
  <2>1. Head(<<"Init", "Encode">>) # "failed"
    BY ShortQueues
  <2> QED BY <1>1, <2>1, ShortQueues
             DEF Stage, Unstarted, Configuring, ZipNext, Zipping, Encoding, Filming, Filmed,
                 Ending, Queued, Waiting, Next1
<1>3. /\ rq'[v] = <<>> /\ \A w \in Visit \ {v} : rq'[w] = rq[w]
      /\ rq' \in [Visit -> Seq({"Init", "Encode", "failed", "finish"})]
  BY <1>1, RaptorQueue
<1>4. Broken(v)' /\ ~Starting(v)
  <2>1. rq[v] # <<>> /\ Head(rq[v]) = "failed"
    BY DEF Next1
  <2> QED BY <1>1, <1>2, <1>3, <2>1, ShortQueues
             DEF Broken, TypeOK, Waiting, UpTo, Announced, Starting, Configuring, ZipNext
<1>5. \A w \in Visit \ {v} : Untouched(w)
  BY <1>1, <1>3 DEF Untouched, TypeOK, Shared, Announced
<1>6. TypeOK' /\ InOrder' /\ Ahead' /\ CrashesOnlyWhenShared'
  BY <1>1, <1>3 DEF IInv, TypeOK, InOrder, Ahead, CrashesOnlyWhenShared, Running
<1> QED BY <1>4, <1>5, <1>6, StepOfVisit DEF IInv, Stage

LEMMA RaptorFinishStep == ASSUME IInv, NEW v \in Visit, RaptorFinish(v) PROVE IInv'
<1> USE DEF RaptorFinish, data
<1>1. TypeOK /\ Stage(v)
  BY DEF IInv
<1>2. Ending(v) /\ rq[v] = <<"finish">>
  <2>1. Head(<<"Init", "Encode">>) # "finish" /\ Head(<<"Init", "failed">>) # "finish"
    BY ShortQueues
  <2> QED BY <1>1, <2>1, ShortQueues
             DEF Stage, Unstarted, Configuring, ZipNext, Zipping, Encoding, Broken, Filming,
                 Filmed, Ending, Queued, Waiting, Next1
<1>3. /\ rq'[v] = <<>> /\ \A w \in Visit \ {v} : rq'[w] = rq[w]
      /\ rq' \in [Visit -> Seq({"Init", "Encode", "failed", "finish"})]
  BY <1>1, RaptorQueue
<1>4. /\ fq'[v] = <<"finish">> \o fq[v] /\ \A w \in Visit \ {v} : fq'[w] = fq[w]
      /\ fq' \in [Visit -> Seq({"Init", "GenerateVideo", "finish"})]
  BY <1>1, FFmpegQueue
<1>5. fq'[v] = <<"finish">>
  BY <1>2, <1>4, ShortQueues DEF Ending
<1>6. Ending(v)' /\ ~Starting(v)
  BY <1>1, <1>2, <1>3, <1>5 DEF Ending, TypeOK, Shared, Starting, Configuring, ZipNext
<1>7. \A w \in Visit \ {v} : Untouched(w)
  BY <1>1, <1>3, <1>4 DEF Untouched, TypeOK, Shared, Announced
<1>8. TypeOK' /\ InOrder' /\ Ahead' /\ CrashesOnlyWhenShared'
  BY <1>1, <1>3, <1>4 DEF IInv, TypeOK, InOrder, Ahead, CrashesOnlyWhenShared, Running
<1> QED BY <1>6, <1>7, <1>8, StepOfVisit DEF IInv, Stage

-----------------------------------------------------------------------------
(* The FFmpeg thread.                                                      *)

LEMMA InitFFmpegStep == ASSUME IInv, NEW v \in Visit, InitFFmpeg(v) PROVE IInv'
<1> USE DEF queues, threads, Next1
<1>1. TypeOK /\ Stage(v)
  BY DEF IInv
<1>2. CASE file[v] \in Dotless /\ Crash
  BY <1>2, CrashStep
<1>3. CASE ~(file[v] \in Dotless /\ Crash)
  <2>1. /\ ready' = ready \cup {<<v, "ffmpeg">>} /\ fq' = Done(fq, v) /\ Next1(fq, v, "Init")
        /\ ffmpeg[v] = "idle"
        /\ UNCHANGED <<file, todo, mq, zq, rq, threads, zFile, zips, pictures, video,
                      raced, phase, failed, crashed>>
        /\ Running
    BY <1>3 DEF InitFFmpeg
  <2>2. /\ fq'[v] = Tail(fq[v]) /\ \A w \in Visit \ {v} : fq'[w] = fq[w]
        /\ fq' \in [Visit -> Seq({"Init", "GenerateVideo", "finish"})]
    BY <1>1, <2>1, FFmpegQueue
  <2>3. /\ Queued(rq, v, "raptor", "Encode") => Queued(rq, v, "raptor", "Encode")'
        /\ Queued(rq, v, "raptor", "failed") => Queued(rq, v, "raptor", "failed")'
    BY <2>1 DEF Queued
  <2>4. Queued(fq, v, "ffmpeg", "GenerateVideo") => Queued(fq, v, "ffmpeg", "GenerateVideo")'
    <3>1. Head(<<"GenerateVideo">>) # "Init" /\ Tail(<<"Init", "GenerateVideo">>) = <<"GenerateVideo">>
      BY ShortQueues
    <3> QED BY <2>1, <2>2, <3>1 DEF Queued
  <2>5. /\ Waiting(rq, v, "raptor") => Waiting(rq, v, "raptor")'
        /\ Waiting(fq, v, "ffmpeg") => Waiting(fq, v, "ffmpeg")'
    BY <2>1, <2>2, ShortQueues DEF Waiting
  <2>6. \A k \in 0 .. 2 : UpTo(v, k) => UpTo(v, k)'
    BY <2>1 DEF UpTo, Announced
  <2>7. Stage(v)' /\ (Starting(v) => Starting(v)')
    <3>1. Configuring(v) => Configuring(v)'
      BY <2>1, <2>5, <2>6 DEF Configuring
    <3>2. ZipNext(v) => ZipNext(v)'
      BY <2>1, <2>5, <2>6 DEF ZipNext
    <3>3. Zipping(v) => Zipping(v)'
      BY <2>1, <2>5, <2>6 DEF Zipping, Shared
    <3>4. Encoding(v) => Encoding(v)'
      BY <2>1, <2>3, <2>5, <2>6 DEF Encoding, Shared
    <3>5. Broken(v) => Broken(v)'
      BY <2>1, <2>3, <2>5, <2>6 DEF Broken
    <3>6. Filming(v) => Filming(v)'
      BY <2>1, <2>4, <2>6 DEF Filming, Shared
    <3>7. \/ Configuring(v) \/ ZipNext(v) \/ Zipping(v) \/ Encoding(v) \/ Broken(v)
          \/ Filming(v)
      BY <1>1, <2>1, ShortQueues DEF Stage, Unstarted, Filmed, Ending
    <3> QED BY <3>1, <3>2, <3>3, <3>4, <3>5, <3>6, <3>7 DEF Stage, Starting
  <2>8. \A w \in Visit \ {v} : Untouched(w)
    BY <1>1, <2>1, <2>2 DEF Untouched, TypeOK, Shared, Announced
  <2>9. TypeOK' /\ InOrder' /\ Ahead' /\ CrashesOnlyWhenShared'
    BY <1>1, <2>1, <2>2 DEF IInv, TypeOK, InOrder, Ahead, CrashesOnlyWhenShared, Running
  <2> QED BY <2>1, <2>7, <2>8, <2>9, StepOfVisit DEF IInv
<1> QED BY <1>2, <1>3

LEMMA GenerateVideoStep == ASSUME IInv, NEW v \in Visit, GenerateVideo(v) PROVE IInv'
<1> USE DEF GenerateVideo
<1>1. TypeOK /\ Stage(v)
  BY DEF IInv
<1>2. Filming(v) /\ UpTo(v, 1) /\ fq[v] = <<"GenerateVideo">> /\ <<v, "ffmpeg">> \in ready
  <2>1. Head(<<"Init", "GenerateVideo">>) # "GenerateVideo"
    BY ShortQueues
  <2> QED BY <1>1, <2>1, ShortQueues
             DEF Stage, Unstarted, Configuring, ZipNext, Zipping, Encoding, Broken, Filming,
                 Filmed, Ending, Waiting, Queued, Next1
<1>3. /\ \A w \in Visit : \A n : Announced(w, n)' <=>
                            Announced(w, n) \/ (w = v /\ n = "FFmpegPhase")
      /\ InOrder' /\ Ahead'
  <2>1. mq \in Seq(Visit \X Names) /\ "FFmpegPhase" \in Names
    BY <1>1 DEF TypeOK, Names
  <2>2. Rank("FFmpegPhase") - 1 = 1 /\ phase \in [Visit -> 0 .. 3] /\ InOrder /\ Ahead
    BY <1>1 DEF Rank, TypeOK, IInv
  <2>3. mq' = Append(mq, <<v, "FFmpegPhase">>) /\ phase' = phase
    OBVIOUS
  <2> QED BY <1>2, <2>1, <2>2, <2>3, AppendMessage
<1>4. UpTo(v, 2)'
  BY <1>1, <1>2, <1>3, UpToMore DEF UpTo, Rank
<1>5. Filming(v)' /\ ~Starting(v)
  BY <1>1, <1>2, <1>4 DEF Filming, TypeOK, Shared, Queued, Waiting, Starting, Configuring, ZipNext
<1>6. \A w \in Visit \ {v} : Untouched(w)
  BY <1>1, <1>3 DEF Untouched, TypeOK, Shared
<1>7. TypeOK'
  <2>1. mq' \in Seq(Visit \X {"RaptorEncodePhase", "FFmpegPhase", "finish"})
    <3>1. <<v, "FFmpegPhase">> \in Visit \X {"RaptorEncodePhase", "FFmpegPhase", "finish"}
      OBVIOUS
    <3> QED BY <1>1, <3>1, AppendProperties DEF TypeOK
  <2>2. raced' \subseteq Visit
    BY <1>1 DEF TypeOK
  <2> QED BY <1>1, <2>1, <2>2 DEF TypeOK
<1>8. CrashesOnlyWhenShared'
  BY DEF CrashesOnlyWhenShared, Running
<1> QED BY <1>3, <1>5, <1>6, <1>7, <1>8, StepOfVisit DEF IInv, Stage

LEMMA VideoMadeStep == ASSUME IInv, NEW v \in Visit, VideoMade(v) PROVE IInv'
<1> USE DEF VideoMade
<1>1. TypeOK /\ Stage(v)
  BY DEF IInv
<1>2. /\ Filming(v) /\ UpTo(v, 2) /\ fq[v] = <<"GenerateVideo">> /\ <<v, "ffmpeg">> \in ready
      /\ ~failed[v] /\ ~Shared(v) => pictures[v] = "whole"
  BY <1>1 DEF Stage, Unstarted, Configuring, ZipNext, Zipping, Encoding, Broken, Filming,
              Filmed, Ending, Queued
<1>3. /\ \A w \in Visit : \A n : Announced(w, n)' <=> Announced(w, n) \/ (w = v /\ n = "finish")
      /\ InOrder' /\ Ahead'
  <2>1. mq \in Seq(Visit \X Names) /\ "finish" \in Names
    BY <1>1 DEF TypeOK, Names
  <2>2. Rank("finish") - 1 = 2 /\ phase \in [Visit -> 0 .. 3] /\ InOrder /\ Ahead
    BY <1>1 DEF Rank, TypeOK, IInv
  <2>3. mq' = Append(mq, <<v, "finish">>) /\ phase' = phase
    OBVIOUS
  <2> QED BY <1>2, <2>1, <2>2, <2>3, AppendMessage
<1>4. /\ fq'[v] = <<>> /\ \A w \in Visit \ {v} : fq'[w] = fq[w]
      /\ fq' \in [Visit -> Seq({"Init", "GenerateVideo", "finish"})]
  <2>1. fq[v] # <<>> /\ Tail(fq[v]) = <<>>
    BY <1>2
  <2> QED BY <1>1, <2>1, FFmpegQueue
<1>5. ~failed'[v] /\ ~Shared(v)' => video'[v] = "whole"
  BY <1>1, <1>2 DEF TypeOK, Shared
<1>6. Filmed(v)' /\ ~Starting(v)
  BY <1>1, <1>2, <1>4, <1>5 DEF Filming, Filmed, UpTo, TypeOK, Starting, Configuring, ZipNext
<1>7. \A w \in Visit \ {v} : Untouched(w)
  BY <1>1, <1>3, <1>4 DEF Untouched, TypeOK, Shared
<1>8. TypeOK'
  <2>1. mq' \in Seq(Visit \X {"RaptorEncodePhase", "FFmpegPhase", "finish"})
    <3>1. <<v, "finish">> \in Visit \X {"RaptorEncodePhase", "FFmpegPhase", "finish"}
      OBVIOUS
    <3> QED BY <1>1, <3>1, AppendProperties DEF TypeOK
  <2> QED BY <1>1, <1>4, <2>1 DEF TypeOK
<1>9. CrashesOnlyWhenShared'
  BY DEF CrashesOnlyWhenShared, Running
<1> QED BY <1>3, <1>6, <1>7, <1>8, <1>9, StepOfVisit DEF IInv, Stage


LEMMA FFmpegCrashesStep == ASSUME IInv, NEW v \in Visit, FFmpegCrashes(v) PROVE IInv'
<1> USE DEF FFmpegCrashes, queues, threads, data
<1>1. TypeOK /\ Stage(v)
  BY DEF IInv
<1>2. Filming(v)
  BY <1>1 DEF Stage, Unstarted, Configuring, ZipNext, Zipping, Encoding, Broken, Filming,
              Filmed, Ending
<1>3. Filming(v)' /\ ~Starting(v)
  BY <1>1, <1>2
     DEF Filming, TypeOK, Shared, Queued, UpTo, Announced, Starting, Configuring, ZipNext
<1>4. \A w \in Visit \ {v} : Untouched(w)
  BY <1>1 DEF Untouched, TypeOK, Shared, Announced
<1>5. TypeOK' /\ InOrder' /\ Ahead' /\ CrashesOnlyWhenShared'
  BY <1>1 DEF IInv, TypeOK, InOrder, Ahead, CrashesOnlyWhenShared
<1> QED BY <1>3, <1>4, <1>5, StepOfVisit DEF IInv, Stage

LEMMA FFmpegHangsStep == ASSUME IInv, NEW v \in Visit, FFmpegHangs(v) PROVE IInv'
<1> USE DEF FFmpegHangs, queues, data
<1>1. TypeOK /\ Stage(v)
  BY DEF IInv
<1>2. Filming(v)
  BY <1>1 DEF Stage, Unstarted, Configuring, ZipNext, Zipping, Encoding, Broken, Filming,
              Filmed, Ending
<1>3. Filming(v)' /\ ~Starting(v)
  BY <1>1, <1>2
     DEF Filming, TypeOK, Shared, Queued, UpTo, Announced, Starting, Configuring, ZipNext
<1>4. \A w \in Visit \ {v} : Untouched(w)
  BY <1>1 DEF Untouched, TypeOK, Shared, Announced
<1>5. TypeOK' /\ InOrder' /\ Ahead' /\ CrashesOnlyWhenShared'
  BY <1>1 DEF IInv, TypeOK, InOrder, Ahead, CrashesOnlyWhenShared, Running
<1> QED BY <1>3, <1>4, <1>5, StepOfVisit DEF IInv, Stage

LEMMA FFmpegFinishStep == ASSUME IInv, NEW v \in Visit, FFmpegFinish(v) PROVE IInv'
<1> USE DEF FFmpegFinish, data
<1>1. TypeOK /\ Stage(v)
  BY DEF IInv
<1>2. Ending(v) /\ rq[v] = <<>> /\ raptor[v] = "quit"
  <2>1. Head(<<"Init", "GenerateVideo">>) # "finish"
    BY ShortQueues
  <2> QED BY <1>1, <2>1, ShortQueues
             DEF Stage, Unstarted, Configuring, ZipNext, Zipping, Encoding, Broken, Filming,
                 Filmed, Ending, Queued, Waiting, Next1
<1>3. /\ fq'[v] = <<>> /\ \A w \in Visit \ {v} : fq'[w] = fq[w]
      /\ fq' \in [Visit -> Seq({"Init", "GenerateVideo", "finish"})]
  BY <1>1, FFmpegQueue
<1>4. Ending(v)' /\ ~Starting(v)
  BY <1>1, <1>2, <1>3 DEF Ending, TypeOK, Shared, Starting, Configuring, ZipNext
<1>5. \A w \in Visit \ {v} : Untouched(w)
  BY <1>1, <1>3 DEF Untouched, TypeOK, Shared, Announced
<1>6. TypeOK' /\ InOrder' /\ Ahead' /\ CrashesOnlyWhenShared'
  BY <1>1, <1>3 DEF IInv, TypeOK, InOrder, Ahead, CrashesOnlyWhenShared, Running
<1> QED BY <1>4, <1>5, <1>6, StepOfVisit DEF IInv, Stage

-----------------------------------------------------------------------------
(* The main thread.                                                        *)

LEMMA StartProgressStep ==
  ASSUME IInv, NEW v \in Visit, NEW f \in Files, StartProgress(v, f)
  PROVE  IInv'
<1> USE DEF StartProgress, queues, threads, data
<1>1. TypeOK /\ Stage(v) /\ f # NoFile
  BY SendAssumption DEF IInv
<1>2. Unstarted(v)
  BY <1>1 DEF Stage, Configuring, ZipNext, Zipping, Encoding, Broken, Filming, Filmed, Ending
<1>3. Configuring(v)'
  BY <1>1, <1>2, SendOrderSteps DEF Unstarted, Configuring, UpTo, Announced, TypeOK
<1>4. ASSUME NEW w \in Visit \ {v} PROVE Stage(w)'
  <2>1. file'[w] = file[w] /\ ~Starting(w)
    BY <1>1 DEF TypeOK, Starting, Configuring, ZipNext
  <2>2. Shared(w) => Shared(w)'
    BY <1>1 DEF Shared, TypeOK
  <2>3. Untouched(w)
    BY <2>1, <2>2 DEF Untouched, Announced
  <2> QED BY <2>3, UntouchedStays DEF IInv
<1>5. Sending' /\ \A w \in Visit : Stage(w)'
  BY <1>3, <1>4 DEF Sending, Starting, Stage
<1>6. TypeOK'
  <2>1. todo' \in Seq(Visit \X {"ffmpeg", "raptor", "zip"})
    <3> DEFINE S == Visit \X {"ffmpeg", "raptor", "zip"}
    <3>1. <<v, "ffmpeg">> \in S /\ <<v, "raptor">> \in S /\ <<v, "zip">> \in S
      OBVIOUS
    <3> HIDE DEF S
    <3>2. SendOrder(v) \in Seq(S)
      BY <3>1 DEF SendOrder
    <3> QED BY <3>2 DEF S
  <2> QED BY <1>1, <2>1 DEF TypeOK
<1>7. InOrder' /\ Ahead' /\ CrashesOnlyWhenShared'
  BY DEF IInv, InOrder, Ahead, CrashesOnlyWhenShared, Running
<1> QED BY <1>5, <1>6, <1>7 DEF IInv

LEMMA SendConfigsStep == ASSUME IInv, SendConfigs PROVE IInv'
<1>1. TypeOK /\ todo # <<>> /\ Running
  BY DEF IInv, SendConfigs
<1>2. PICK v \in Visit : Starting(v)
  BY <1>1 DEF IInv, Sending
<1>3. /\ UNCHANGED <<file, mq, threads, data, phase, failed, crashed>>
      /\ todo' = Tail(todo)
      /\ zq' = IF Head(todo)[2] = "zip" THEN Post(zq, Head(todo)[1], "ZipFile") ELSE zq
      /\ rq' = IF Head(todo)[2] = "raptor" THEN Post(rq, Head(todo)[1], "Init") ELSE rq
      /\ fq' = IF Head(todo)[2] = "ffmpeg" THEN Post(fq, Head(todo)[1], "Init") ELSE fq
  BY DEF SendConfigs
<1> USE DEF threads, data
<1>4. Head(todo)[1] = v
  BY <1>2, ShortQueues DEF Starting, Configuring, ZipNext
<1>5. /\ zq' \in [Visit -> Seq({"ZipFile", "finish"})]
      /\ rq' \in [Visit -> Seq({"Init", "Encode", "failed", "finish"})]
      /\ fq' \in [Visit -> Seq({"Init", "GenerateVideo", "finish"})]
      /\ \A w \in Visit \ {v} : zq'[w] = zq[w] /\ rq'[w] = rq[w] /\ fq'[w] = fq[w]
  <2>1. /\ zq' \in [Visit -> Seq({"ZipFile", "finish"})]
        /\ \A w \in Visit \ {v} : zq'[w] = zq[w]
    <3>1. zq' = zq \/ zq' = Post(zq, v, "ZipFile")
      BY <1>3, <1>4
    <3>2. CASE zq' = zq
      BY <1>1, <3>2 DEF TypeOK
    <3>3. CASE zq' = Post(zq, v, "ZipFile")
      BY <1>1, <3>3, ZipQueue
    <3> QED BY <3>1, <3>2, <3>3
  <2>2. /\ rq' \in [Visit -> Seq({"Init", "Encode", "failed", "finish"})]
        /\ \A w \in Visit \ {v} : rq'[w] = rq[w]
    <3>1. rq' = rq \/ rq' = Post(rq, v, "Init")
      BY <1>3, <1>4
    <3>2. CASE rq' = rq
      BY <1>1, <3>2 DEF TypeOK
    <3>3. CASE rq' = Post(rq, v, "Init")
      BY <1>1, <3>3, RaptorQueue
    <3> QED BY <3>1, <3>2, <3>3
  <2>3. /\ fq' \in [Visit -> Seq({"Init", "GenerateVideo", "finish"})]
        /\ \A w \in Visit \ {v} : fq'[w] = fq[w]
    <3>1. fq' = fq \/ fq' = Post(fq, v, "Init")
      BY <1>3, <1>4
    <3>2. CASE fq' = fq
      BY <1>1, <3>2 DEF TypeOK
    <3>3. CASE fq' = Post(fq, v, "Init")
      BY <1>1, <3>3, FFmpegQueue
    <3> QED BY <3>1, <3>2, <3>3
  <2> QED BY <2>1, <2>2, <2>3
<1>6. UpTo(v, 0)'
  BY <1>2, <1>3 DEF UpTo, Announced, Starting, Configuring, ZipNext
<1>7. Stage(v)' /\ (todo' # <<>> => Starting(v)')
  <2>1. CASE /\ todo = << <<v, "ffmpeg">>, <<v, "raptor">>, <<v, "zip">> >>
             /\ fq[v] = <<>> /\ rq[v] = <<>> /\ <<v, "ffmpeg">> \notin ready /\ Configuring(v)
    <3>1. Head(todo) = <<v, "ffmpeg">> /\ todo' = << <<v, "raptor">>, <<v, "zip">> >>
      BY <1>3, <2>1, SendOrderSteps DEF SendOrder
    <3>2. zq' = zq /\ rq' = rq /\ fq' = Post(fq, v, "Init")
      BY <1>3, <3>1
    <3>3. fq'[v] = <<"Init">>
      BY <1>1, <2>1, <3>2, FFmpegQueue, ShortQueues
    <3>4. Configuring(v)'
      BY <1>3, <1>6, <2>1, <3>1, <3>2, <3>3 DEF Configuring, Waiting
    <3> QED BY <3>4 DEF Stage, Starting
  <2>2. CASE /\ todo = << <<v, "raptor">>, <<v, "zip">> >> /\ Waiting(fq, v, "ffmpeg")
             /\ rq[v] = <<>> /\ Configuring(v)
    <3>1. Head(todo) = <<v, "raptor">> /\ todo' = << <<v, "zip">> >>
      BY <1>3, <2>2, ShortQueues
    <3>2. zq' = zq /\ fq' = fq /\ rq' = Post(rq, v, "Init")
      BY <1>3, <3>1
    <3>3. rq'[v] = <<"Init">>
      BY <1>1, <2>2, <3>2, RaptorQueue, ShortQueues
    <3>4. ZipNext(v)'
      BY <1>3, <1>6, <2>2, <3>1, <3>2, <3>3 DEF Configuring, ZipNext, Waiting
    <3> QED BY <3>4 DEF Stage, Starting
  <2>3. CASE ZipNext(v)
    <3>1. Head(todo) = <<v, "zip">> /\ todo' = <<>>
      BY <1>3, <2>3, ShortQueues DEF ZipNext
    <3>2. rq' = rq /\ fq' = fq /\ zq' = Post(zq, v, "ZipFile")
      BY <1>3, <3>1
    <3>3. zq'[v] = <<"ZipFile">>
      BY <1>1, <2>3, <3>2, ZipQueue, ShortQueues DEF ZipNext
    <3>4. Zipping(v)'
      BY <1>3, <1>6, <2>3, <3>2, <3>3 DEF ZipNext, Zipping, Waiting
    <3> QED BY <3>1, <3>4 DEF Stage
  <2> QED BY <1>2, <2>1, <2>2, <2>3 DEF Starting, Configuring
<1>8. ASSUME NEW w \in Visit \ {v} PROVE Stage(w)'
  <2>1. ~Starting(w)
    BY <1>4, ShortQueues DEF Starting, Configuring, ZipNext
  <2>2. Untouched(w)
    BY <1>3, <1>5, <2>1 DEF Untouched, Announced, Shared
  <2> QED BY <2>2, UntouchedStays DEF IInv
<1>9. TypeOK'
  <2>1. todo' \in Seq(Visit \X {"ffmpeg", "raptor", "zip"})
    BY <1>1, <1>3, HeadTailProperties DEF TypeOK
  <2> QED BY <1>1, <1>3, <1>5, <2>1 DEF TypeOK
<1>10. InOrder' /\ Ahead' /\ CrashesOnlyWhenShared'
  BY <1>1, <1>3 DEF IInv, InOrder, Ahead, CrashesOnlyWhenShared, Running
<1> QED BY <1>7, <1>8, <1>9, <1>10 DEF IInv, Sending


\* The page shows what a message announces, and takes the message from the queue.
LEMMA MessageShown ==
  ASSUME IInv, mq # <<>>, mq' = Tail(mq),
         phase' = [phase EXCEPT ![Head(mq)[1]] = Rank(Head(mq)[2])]
  PROVE  /\ Head(mq)[1] \in Visit /\ Head(mq)[2] \in Names
         /\ Announced(Head(mq)[1], Head(mq)[2]) /\ phase[Head(mq)[1]] < Rank(Head(mq)[2])
         /\ InOrder' /\ Ahead' /\ \A w \in Visit : \A n : Announced(w, n)' => Announced(w, n)
         /\ mq' \in Seq(Visit \X {"RaptorEncodePhase", "FFmpegPhase", "finish"})
         /\ phase' \in [Visit -> 0 .. 3]
<1>1. mq \in Seq(Visit \X Names) /\ phase \in [Visit -> 0 .. 3] /\ InOrder /\ Ahead
  BY DEF IInv, TypeOK, Names
<1>2. Rank(Head(mq)[2]) \in 0 .. 3
  BY DEF Rank
<1>3. mq' \in Seq(Visit \X Names)
  BY <1>1, HeadTailProperties
<1>4. phase' \in [Visit -> 0 .. 3]
  BY <1>1, <1>2
<1> QED BY <1>1, <1>3, <1>4, TakeMessage DEF Names

LEMMA ShowPhaseStep == ASSUME IInv, ShowPhase PROVE IInv'
<1>0. PICK v, m : v = Head(mq)[1] /\ m = Head(mq)[2]
  OBVIOUS
<1>1. TypeOK /\ mq # <<>> /\ mq' = Tail(mq) /\ m \in {"RaptorEncodePhase", "FFmpegPhase"}
      /\ UNCHANGED <<file, todo, zq, rq, fq, threads, data, failed, crashed>> /\ Running
  BY <1>0 DEF IInv, ShowPhase
<1>2. phase' = [phase EXCEPT ![v] = Rank(m)]
  BY <1>0, <1>1 DEF ShowPhase, Rank
<1>3. /\ v \in Visit /\ Announced(v, m) /\ phase[v] < Rank(m) /\ InOrder' /\ Ahead'
      /\ \A w \in Visit : \A n : Announced(w, n)' => Announced(w, n)
      /\ mq' \in Seq(Visit \X {"RaptorEncodePhase", "FFmpegPhase", "finish"})
      /\ phase' \in [Visit -> 0 .. 3]
  BY <1>0, <1>1, <1>2, MessageShown
<1>4. Stage(v) /\ Rank(m) <= 2 /\ phase'[v] = Rank(m)
  BY <1>1, <1>2, <1>3 DEF IInv, TypeOK, Rank
<1> USE DEF threads, data
<1>5. \A k \in 0 .. 2 : UpTo(v, k) => UpTo(v, k)'
  BY <1>1, <1>3, <1>4 DEF UpTo, Names
<1>6. /\ Waiting(rq, v, "raptor") => Waiting(rq, v, "raptor")'
      /\ Waiting(fq, v, "ffmpeg") => Waiting(fq, v, "ffmpeg")'
      /\ \A n : Queued(rq, v, "raptor", n) => Queued(rq, v, "raptor", n)'
      /\ \A n : Queued(fq, v, "ffmpeg", n) => Queued(fq, v, "ffmpeg", n)'
  BY <1>1 DEF Waiting, Queued
<1>7. Stage(v)' /\ (Starting(v) => Starting(v)')
  <2>1. ~Unstarted(v) /\ ~Starting(v) /\ ~Zipping(v)
    BY <1>1, <1>3 DEF Unstarted, Starting, Configuring, ZipNext, Zipping, UpTo, Rank, Names
  <2>2. Encoding(v) => Encoding(v)'
    BY <1>1, <1>5, <1>6 DEF Encoding, Shared
  <2>3. Broken(v) => Broken(v)'
    BY <1>1, <1>5, <1>6 DEF Broken
  <2>4. Filming(v) => Filming(v)'
    BY <1>1, <1>5, <1>6 DEF Filming, Shared
  <2>5. Filmed(v) => Filmed(v)'
    BY <1>1, <1>3, <1>4 DEF Filmed, Shared
  <2>6. ~Ending(v)
    BY <1>3, <1>4 DEF Ending
  <2> QED BY <1>4, <2>1, <2>2, <2>3, <2>4, <2>5, <2>6 DEF Stage, Starting
<1>8. \A w \in Visit \ {v} : Untouched(w)
  BY <1>1, <1>2, <1>3 DEF Untouched, TypeOK, Shared
<1>9. TypeOK' /\ CrashesOnlyWhenShared'
  BY <1>1, <1>3 DEF TypeOK, CrashesOnlyWhenShared, Running
<1> QED BY <1>1, <1>3, <1>7, <1>8, <1>9, StepOfVisit DEF IInv

LEMMA PlayVideoStep == ASSUME IInv, PlayVideo PROVE IInv'
<1>0. PICK v : v = Head(mq)[1]
  OBVIOUS
<1>1. TypeOK /\ mq # <<>> /\ mq' = Tail(mq) /\ Head(mq)[2] = "finish"
      /\ zq' = PostAtFront(zq, v, "finish")
      /\ UNCHANGED <<file, todo, rq, fq, threads, data, failed, crashed>> /\ Running
  BY <1>0 DEF IInv, PlayVideo
<1>2. phase' = [phase EXCEPT ![v] = 3] /\ Rank("finish") = 3
  BY <1>0 DEF PlayVideo, Rank
<1>3. /\ v \in Visit /\ Announced(v, "finish") /\ phase[v] < 3 /\ InOrder' /\ Ahead'
      /\ \A w \in Visit : \A n : Announced(w, n)' => Announced(w, n)
      /\ mq' \in Seq(Visit \X {"RaptorEncodePhase", "FFmpegPhase", "finish"})
      /\ phase' \in [Visit -> 0 .. 3]
  BY <1>0, <1>1, <1>2, MessageShown
<1>4. Stage(v) /\ phase'[v] = 3 /\ phase[v] # 3
  BY <1>1, <1>2, <1>3 DEF IInv, TypeOK
<1> USE DEF threads, data
<1>5. Filmed(v) /\ zq[v] = <<>> /\ ~Starting(v)
  <2>1. ~UpTo(v, 0) /\ ~UpTo(v, 1) /\ ~UpTo(v, 2)
    BY <1>2, <1>3 DEF UpTo, Names
  <2> QED BY <1>4, <2>1 DEF Stage, Unstarted, Configuring, ZipNext, Zipping, Encoding, Broken,
                            Filming, Filmed, Ending, Starting
<1>6. /\ zq'[v] = <<"finish">> /\ \A w \in Visit \ {v} : zq'[w] = zq[w]
      /\ zq' \in [Visit -> Seq({"ZipFile", "finish"})]
  <2>1. /\ zq'[v] = <<"finish">> \o zq[v] /\ \A w \in Visit \ {v} : zq'[w] = zq[w]
        /\ zq' \in [Visit -> Seq({"ZipFile", "finish"})]
    BY <1>1, <1>3, ZipQueue
  <2> QED BY <1>5, <2>1, ShortQueues
<1>7. Filmed(v)'
  BY <1>1, <1>4, <1>5, <1>6 DEF Filmed, Shared
<1>8. \A w \in Visit \ {v} : Untouched(w)
  BY <1>1, <1>2, <1>3, <1>6 DEF Untouched, TypeOK, Shared
<1>9. TypeOK' /\ CrashesOnlyWhenShared'
  BY <1>1, <1>3, <1>6 DEF TypeOK, CrashesOnlyWhenShared, Running
<1> QED BY <1>1, <1>3, <1>5, <1>7, <1>8, <1>9, StepOfVisit DEF IInv, Stage

-----------------------------------------------------------------------------
(* The theorems.                                                           *)

LEMMA InitIInv == Init => IInv
<1> SUFFICES ASSUME Init PROVE IInv
  OBVIOUS
<1> USE DEF Init
<1>1. TypeOK
  BY DEF TypeOK
<1>2. Sending /\ CrashesOnlyWhenShared
  BY DEF Sending, CrashesOnlyWhenShared
<1>3. DOMAIN mq = {}
  OBVIOUS
<1>4. InOrder /\ Ahead
  BY <1>3 DEF InOrder, Ahead
<1>5. \A v \in Visit : Unstarted(v)
  BY <1>3 DEF Unstarted, UpTo, Announced
<1> QED BY <1>1, <1>2, <1>4, <1>5 DEF IInv, Stage

LEMMA NextIInv == IInv /\ [Next]_vars => IInv'
<1> SUFFICES ASSUME IInv, [Next]_vars PROVE IInv'
  OBVIOUS
<1>1. CASE MainLooper
  BY <1>1, SendConfigsStep, ShowPhaseStep, PlayVideoStep DEF MainLooper
<1>2. ASSUME NEW v \in Visit, NEW f \in Files, StartProgress(v, f) PROVE IInv'
  BY <1>2, StartProgressStep
<1>3. ASSUME NEW v \in Visit, ZipThread(v) PROVE IInv'
  BY <1>3, OpenZipStep, WriteZipStep, ZipFailsStep, ZipFinishStep DEF ZipThread
<1>4. ASSUME NEW v \in Visit, RaptorThread(v) PROVE IInv'
  BY <1>4, InitEncodeStep, EncodeStep, EncodeCompleteStep, EncodeFailsStep, RaptorFailedStep,
     RaptorFinishStep DEF RaptorThread
<1>5. ASSUME NEW v \in Visit, FFmpegThread(v) PROVE IInv'
  BY <1>5, InitFFmpegStep, GenerateVideoStep, VideoMadeStep, FFmpegCrashesStep,
     FFmpegHangsStep, FFmpegFinishStep DEF FFmpegThread
<1>6. CASE UNCHANGED vars
  <2> USE <1>6 DEF vars, queues, threads, data
  <2>1. \A w \in Visit : Untouched(w)
    BY DEF Untouched, Announced, Shared
  <2>2. \A w \in Visit : Stage(w)' /\ (Starting(w) => Starting(w)')
    BY <2>1, UntouchedStays DEF IInv
  <2>3. Sending' /\ TypeOK' /\ InOrder' /\ Ahead' /\ CrashesOnlyWhenShared'
    BY <2>2 DEF IInv, Sending, TypeOK, InOrder, Ahead, CrashesOnlyWhenShared, Shared
  <2> QED BY <2>2, <2>3 DEF IInv
<1> QED BY <1>1, <1>2, <1>3, <1>4, <1>5, <1>6 DEF Next

\* The inductive invariant: each visit's work is in one place.
THEOREM OneStage == Spec => []IInv
BY InitIInv, NextIInv, PTL DEF Spec

\* The variables keep their types.
THEOREM TypesKept == Spec => []TypeOK
<1>1. IInv => TypeOK
  BY DEF IInv
<1> QED BY <1>1, OneStage, PTL

\* A thread never meets work without its configuration, and finish never overtakes work: an
\* exception takes two visits to the same file, or a path without a dot.
THEOREM ExceptionsNeedSharing == Spec => []CrashesOnlyWhenShared
<1>1. IInv => CrashesOnlyWhenShared
  BY DEF IInv
<1> QED BY <1>1, OneStage, PTL

\* What is played, if nothing failed and nobody else worked on the file, is the whole file.
THEOREM WholeFilePlayed == Spec => []PlaysWholeFile
<1>1. IInv => PlaysWholeFile
  <2> SUFFICES ASSUME IInv, NEW v \in Visit, phase[v] = 3, ~failed[v], ~Shared(v)
               PROVE  video[v] = "whole"
    BY DEF PlaysWholeFile
  <2>1. Stage(v)
    BY DEF IInv
  <2> QED BY <2>1 DEF Stage, Unstarted, Configuring, ZipNext, Zipping, Encoding, Broken,
                      Filming, Filmed, Ending, UpTo
<1> QED BY <1>1, OneStage, PTL

\* No thread ends before the video is played, unless the zip failed, and they end in the
\* order of the chain.
THEOREM FinishIsLast == Spec => []FinishAfterPlayed
<1>1. IInv => FinishAfterPlayed
  <2> SUFFICES ASSUME IInv, NEW v \in Visit
               PROVE  /\ zip[v] = "quit" => phase[v] = 3
                      /\ raptor[v] = "quit" => zip[v] = "quit" \/ failed[v]
                      /\ ffmpeg[v] = "quit" => raptor[v] = "quit" /\ zip[v] = "quit"
    BY DEF FinishAfterPlayed
  <2>1. Stage(v)
    BY DEF IInv
  <2> QED BY <2>1 DEF Stage, Unstarted, Configuring, ZipNext, Zipping, Encoding, Broken,
                      Filming, Filmed, Ending
<1> QED BY <1>1, OneStage, PTL

\* The messages of three threads reach the page in the order of the phases they announce.
THEOREM PhasesInOrder == Spec => PhaseMovesOn
<1>1. IInv /\ [Next]_vars => [\A v \in Visit : phase[v] <= phase'[v]]_vars
  <2> SUFFICES ASSUME IInv, [Next]_vars, NEW v \in Visit PROVE phase[v] <= phase'[v]
    OBVIOUS
  <2>1. phase \in [Visit -> 0 .. 3]
    BY DEF IInv, TypeOK
  <2>2. CASE phase' = phase
    BY <2>1, <2>2
  <2>3. CASE ShowPhase
    <3>1. phase' = [phase EXCEPT ![Head(mq)[1]] = Rank(Head(mq)[2])] /\ mq # <<>> /\ mq' = Tail(mq)
      BY <2>3 DEF ShowPhase, Rank
    <3>2. phase[Head(mq)[1]] < Rank(Head(mq)[2]) /\ Rank(Head(mq)[2]) \in 0 .. 3
      BY <3>1, MessageShown DEF Rank
    <3> QED BY <2>1, <3>1, <3>2
  <2>4. CASE PlayVideo
    BY <2>1, <2>4 DEF PlayVideo
  <2>5. ShowPhase \/ PlayVideo \/ phase' = phase
    BY DEF Next, vars, MainLooper, SendConfigs, StartProgress, ZipThread, RaptorThread,
           FFmpegThread, OpenZip, WriteZip, ZipFails, ZipFinish, InitEncode, Encode,
           EncodeComplete, EncodeFails, RaptorFailed, RaptorFinish, InitFFmpeg, GenerateVideo,
           VideoMade, FFmpegCrashes, FFmpegHangs, FFmpegFinish, Crash
  <2> QED BY <2>2, <2>3, <2>4, <2>5
<1> QED BY <1>1, OneStage, PTL DEF Spec, PhaseMovesOn
=============================================================================
