------------------------ MODULE ReceivePipelineProofs ------------------------
(***************************************************************************)
(* The safety properties of the receiving page's threads, for every size   *)
(* of a block, every family of singular sets, and any number of visits.    *)
(***************************************************************************)
EXTENDS ReceivePipeline, SymbolsStateProofs, SequenceTheorems

-----------------------------------------------------------------------------
(* The invariant of a page that is never left early.                       *)

Busy == {"running", "decoding"}    \* a RaptorQ thread that may write the log
Over == {"decoding", "quit"}       \* one whose block is decoded, or given up

Finishes(q) == {i \in DOMAIN q : q[i].what = "finish"}

\* Only the page of the last visit has work under way; without a handler it has none.
PageOK ==
  /\ ~front => handler = None
  /\ \A w \in Visit : w > visit => raptor[w] = "none" /\ ~started[w]
  /\ \A w \in Visit : w # visit => raptor[w] \notin Busy /\ zq[w] = <<>>

\* A file goes from the RaptorQ thread to the unzip thread and on to the activity, and while
\* it is with one of them the others have nothing of it, and the handler is there.
WorkOK ==
  /\ visit # None /\ raptor[visit] \in Busy =>
       handler # None /\ zq[visit] = <<>> /\ Finishes(mq) = {}
  /\ visit # None /\ zq[visit] # <<>> =>
       handler # None /\ zq[visit] = <<Signal("UnZipFile")>> /\ Finishes(mq) = {}
  /\ \A i, j \in Finishes(mq) : i = j /\ handler # None

\* The signals that stop a decoder and a RaptorQ thread are on their way only when the block
\* of their page is decoded or given up.
SignalsOK ==
  /\ \A i \in DOMAIN mq : mq[i].what = "RaptorDecodeFile" => raptor[mq[i].to] \in Over
  /\ \A v \in Visit : \A i \in DOMAIN dq[v] : dq[v][i].what = "finish" => raptor[v] \in Over
  /\ \A v \in Visit : \A i \in DOMAIN rq[v] : rq[v][i].what = "finish" => raptor[v] \in Over

\* What is on disk is the log of the page at work.
LogOK == saved # {} => visit # None /\ started[visit] /\ raptor[visit] \in Busy

Undisturbed == ~paused => ~crashed /\ PageOK /\ WorkOK /\ SignalsOK /\ LogOK

IInv == TypeOK /\ Undisturbed

-----------------------------------------------------------------------------
(* What a log is loaded as.  The fold over its packets is a recursive      *)
(* function; that there is one is shown for sets of at most n packets, n   *)
(* by n.                                                                   *)

\* One step of the fold, on what g says of the sets with a packet less.
Putting(g, s) ==
  IF s = {} THEN NewSymbols(SymbolOverhead)
  ELSE LET x == CHOOSE x \in s : TRUE IN Put(g[s \ {x}], {x})

Small(S, n) == {s \in SUBSET S : Cardinality(s) <= n}

Fold(S) == CHOOSE g : g = [s \in SUBSET S |-> Putting(g, s)]

\* A set of packets without one of them has one less.
LEMMA OneTakenOut ==
  ASSUME NEW S, IsFiniteSet(S), NEW s \in SUBSET S, NEW x \in s
  PROVE  /\ IsFiniteSet(s) /\ Cardinality(s) \in Nat
         /\ s \ {x} \in SUBSET S /\ Cardinality(s \ {x}) = Cardinality(s) - 1
         /\ Cardinality(s \ {x}) \in Nat
<1>1. IsFiniteSet(s)
  BY FS_Subset
<1>2. Cardinality(s) \in Nat /\ IsFiniteSet(s \ {x}) /\ Cardinality(s \ {x}) = Cardinality(s) - 1
  BY <1>1, FS_CardinalityType, FS_RemoveElement
<1>3. Cardinality(s \ {x}) \in Nat
  BY <1>2, FS_CardinalityType
<1> QED BY <1>1, <1>2, <1>3

\* There is a function of the small sets that is its own fold.
LEMMA SmallFold ==
  ASSUME NEW S, IsFiniteSet(S), NEW n \in Nat
  PROVE  \E g : g = [s \in Small(S, n) |-> Putting(g, s)]
<1> DEFINE Good(m) == \E g : g = [s \in Small(S, m) |-> Putting(g, s)]
           T == {m \in Nat : ~Good(m)}
<1> HIDE DEF Good
<1>1. Good(0)
  <2> DEFINE g == [s \in Small(S, 0) |-> NewSymbols(SymbolOverhead)]
  <2>1. ASSUME NEW s \in Small(S, 0) PROVE s = {}
    <3>1. s \in SUBSET S /\ Cardinality(s) <= 0
      BY DEF Small
    <3>2. ASSUME NEW x \in s PROVE Cardinality(s) - 1 \in Nat /\ Cardinality(s) \in Nat
      <4>1. Cardinality(s) \in Nat /\ Cardinality(s \ {x}) = Cardinality(s) - 1 /\ Cardinality(s \ {x}) \in Nat
        BY <3>1, OneTakenOut
      <4> QED BY <4>1
    <3> QED BY <3>1, <3>2
  <2>2. ASSUME NEW s \in Small(S, 0) PROVE Putting(g, s) = NewSymbols(SymbolOverhead)
    BY <2>1 DEF Putting
  <2>3. g = [s \in Small(S, 0) |-> Putting(g, s)]
    BY <2>2
  <2> QED BY <2>3 DEF Good
<1>2. ASSUME NEW m \in Nat, Good(m) PROVE Good(m + 1)
  <2>1. PICK g : g = [s \in Small(S, m) |-> Putting(g, s)]
    BY <1>2 DEF Good
  <2> DEFINE h == [s \in Small(S, m + 1) |-> Putting(g, s)]
  <2>2. ASSUME NEW s \in Small(S, m + 1) PROVE Putting(g, s) = Putting(h, s)
    <3>1. CASE s = {}
      BY <3>1 DEF Putting
    <3>2. CASE s # {}
      <4> DEFINE x == CHOOSE x \in s : TRUE
                 t == s \ {x}
      <4>1. x \in s /\ s \in SUBSET S /\ Cardinality(s) <= m + 1
        BY <3>2 DEF Small
      <4> HIDE DEF x
      <4>2. t \in SUBSET S /\ Cardinality(t) = Cardinality(s) - 1 /\ Cardinality(s) \in Nat
        BY <4>1, OneTakenOut
      <4>3. t \in Small(S, m) /\ t \in Small(S, m + 1)
        BY <4>1, <4>2 DEF Small
      <4>4. g[t] = Putting(g, t) /\ h[t] = Putting(g, t)
        BY <2>1, <4>3
      <4> HIDE DEF t, h
      <4>5. Putting(g, s) = Put(g[t], {x}) /\ Putting(h, s) = Put(h[t], {x})
        BY <3>2 DEF Putting, x, t
      <4> QED BY <4>4, <4>5
    <3> QED BY <3>1, <3>2
  <2>3. h = [s \in Small(S, m + 1) |-> Putting(h, s)]
    BY <2>2
  <2> QED BY <2>3 DEF Good
<1>3. T = {}
  <2> SUFFICES ASSUME T # {} PROVE FALSE
    OBVIOUS
  <2>1. PICK m \in T : \A k \in T : m <= k
    BY Least
  <2>2. m \in Nat /\ ~Good(m) /\ m # 0
    BY <1>1, <2>1
  <2>3. m - 1 \in Nat /\ m - 1 \notin T
    BY <2>1, <2>2
  <2>4. Good(m - 1) /\ (m - 1) + 1 = m
    BY <2>2, <2>3
  <2> QED BY <1>2, <2>2, <2>3, <2>4
<1> QED BY <1>3 DEF Good

\* The fold over a log is what its definition says.
LEMMA FoldFacts ==
  ASSUME NEW S, IsFiniteSet(S)
  PROVE  Fold(S) = [s \in SUBSET S |-> Putting(Fold(S), s)]
<1>1. Cardinality(S) \in Nat
  BY FS_CardinalityType
<1>2. \A s \in SUBSET S : Cardinality(s) <= Cardinality(S)
  BY FS_Subset
<1>3. Small(S, Cardinality(S)) = SUBSET S
  BY <1>2 DEF Small
<1>4. \E g : g = [s \in SUBSET S |-> Putting(g, s)]
  <2>1. PICK g : g = [s \in Small(S, Cardinality(S)) |-> Putting(g, s)]
    BY <1>1, SmallFold
  <2>2. g = [s \in SUBSET S |-> Putting(g, s)]
    BY <1>3, <2>1, Zenon
  <2> QED BY <2>2
<1> QED BY <1>4 DEF Fold

\* A log of packets is loaded as symbols; an empty one as those of a new decoder.
LEMMA LoadedFacts ==
  ASSUME saved \subseteq ESI
  PROVE  /\ Loaded \in Symbols
         /\ saved = {} => Loaded = NewSymbols(SymbolOverhead)
<1>1. IsFiniteSet(saved)
  <2>1. K - 1 \in Int /\ K + NumRepairSymbols - 1 \in Int /\ K \in Int
    BY BlockAssumption
  <2>2. IsFiniteSet(Source) /\ IsFiniteSet(Repair)
    BY <2>1, FS_Interval DEF Source, Repair
  <2>3. IsFiniteSet(ESI)
    BY <2>2, FS_Union DEF ESI
  <2> QED BY <2>3, FS_Subset
<1>2. Loaded = Fold(saved)[saved]
  BY DEF Loaded, FoldSet, MapThenFoldSet, Fold, Putting
<1> DEFINE g == Fold(saved)
<1>3. \A s \in SUBSET saved : g[s] = Putting(g, s)
  BY <1>1, FoldFacts
<1> HIDE DEF g
<1>4. NewSymbols(SymbolOverhead) \in Symbols
  BY DEF NewSymbols, SymbolOverhead, Symbols, SourceBlockState, INCOMPLETE
<1> DEFINE T == {n \in Nat : \E s \in SUBSET saved : Cardinality(s) = n /\ g[s] \notin Symbols}
<1>5. T = {}
  <2> SUFFICES ASSUME T # {} PROVE FALSE
    OBVIOUS
  <2>1. PICK n \in T : \A k \in T : n <= k
    BY Least
  <2>2. PICK s \in SUBSET saved : Cardinality(s) = n /\ g[s] \notin Symbols
    BY <2>1
  <2>3. s # {}
    BY <1>3, <1>4, <2>2 DEF Putting
  <2> DEFINE x == CHOOSE x \in s : TRUE
             t == s \ {x}
  <2>4. x \in s
    BY <2>3
  <2> HIDE DEF x
  <2>5. t \in SUBSET saved /\ Cardinality(t) = n - 1 /\ Cardinality(t) \in Nat /\ n \in Nat
    BY <1>1, <2>2, <2>4, OneTakenOut
  <2> HIDE DEF T
  <2>6. Cardinality(t) \notin T
    BY <2>1, <2>5
  <2>7. g[t] \in Symbols
    BY <2>5, <2>6 DEF T
  <2>8. {x} \subseteq Source \/ {x} \subseteq Repair
    BY <2>4 DEF ESI
  <2>9. Putting(g, s) = Put(g[t], {x})
    BY <2>3 DEF Putting, x
  <2> QED BY <1>3, <2>2, <2>7, <2>8, <2>9, PutType
<1>6. g[saved] \in Symbols
  <2>1. Cardinality(saved) \in Nat
    BY <1>1, FS_CardinalityType
  <2>2. Cardinality(saved) \notin T
    BY <1>5
  <2> QED BY <2>1, <2>2
<1>7. saved = {} => g[saved] = NewSymbols(SymbolOverhead)
  BY <1>3 DEF Putting
<1> QED BY <1>2, <1>6, <1>7 DEF g

-----------------------------------------------------------------------------
(* Queues.                                                                 *)

\* Taking the first message leaves the others in order.
LEMMA Taken ==
  ASSUME NEW M, NEW q \in Seq(M), q # <<>>
  PROVE  /\ Head(q) \in M /\ Tail(q) \in Seq(M) /\ 1 \in DOMAIN q /\ Head(q) = q[1]
         /\ \A i \in DOMAIN Tail(q) : i + 1 \in DOMAIN q /\ Tail(q)[i] = q[i + 1] /\ i + 1 # 1
OBVIOUS

\* A message added at the end comes after those that were there.
LEMMA Appended ==
  ASSUME NEW M, NEW q \in Seq(M), NEW m \in M
  PROVE  /\ Append(q, m) \in Seq(M)
         /\ \A i \in DOMAIN Append(q, m) : \/ i \in DOMAIN q /\ Append(q, m)[i] = q[i]
                                           \/ i = Len(q) + 1 /\ Append(q, m)[i] = m
OBVIOUS

\* A message put in front of a queue is followed by the messages that were there.
LEMMA PutInFront ==
  ASSUME NEW M, NEW q \in Seq(M), NEW m \in M
  PROVE  /\ <<m>> \o q \in Seq(M)
         /\ \A i \in DOMAIN (<<m>> \o q) : \/ i = 1 /\ (<<m>> \o q)[i] = m
                                           \/ i - 1 \in DOMAIN q /\ (<<m>> \o q)[i] = q[i - 1]
OBVIOUS

\* What posting message m to visit v leaves in queues p, made from queues q: nothing is
\* added but that message, and to no other visit's queue.
PostedTo(q, p, v, m) ==
  /\ \A w \in Visit : w # v => p[w] = q[w]
  /\ \A i \in DOMAIN p[v] : p[v][i] = m \/ \E j \in DOMAIN q[v] : p[v][i] = q[v][j]

\* A message posted to a looper of a visit reaches its queue, or is dropped.
LEMMA Posted ==
  ASSUME NEW M, NEW q \in [Visit -> Seq(M)], NEW v \in Visit, NEW m \in M, NEW running \in BOOLEAN,
         NEW p, p \in {Post(q, v, running, m), PostAtFront(q, v, running, m)}
  PROVE  /\ p \in [Visit -> Seq(M)]
         /\ PostedTo(q, p, v, m)
<1>1. CASE ~running
  BY <1>1 DEF Post, PostAtFront, PostedTo
<1>2. CASE running
  <2>1. CASE p = Post(q, v, running, m)
    <3> DEFINE a == Append(q[v], m)
    <3>1. /\ a \in Seq(M)
          /\ \A i \in DOMAIN a : \/ i \in DOMAIN q[v] /\ a[i] = q[v][i]
                                 \/ i = Len(q[v]) + 1 /\ a[i] = m
      BY Appended
    <3> HIDE DEF a
    <3>2. p = [q EXCEPT ![v] = a]
      BY <1>2, <2>1 DEF Post, a
    <3>3. p \in [Visit -> Seq(M)] /\ p[v] = a /\ \A w \in Visit : w # v => p[w] = q[w]
      BY <3>1, <3>2
    <3> QED BY <1>2, <3>1, <3>3 DEF PostedTo
  <2>2. CASE p = PostAtFront(q, v, running, m)
    <3> DEFINE a == <<m>> \o q[v]
    <3>1. /\ a \in Seq(M)
          /\ \A i \in DOMAIN a : a[i] = m \/ (i - 1 \in DOMAIN q[v] /\ a[i] = q[v][i - 1])
      BY PutInFront
    <3> HIDE DEF a
    <3>2. p = [q EXCEPT ![v] = a]
      BY <1>2, <2>2 DEF PostAtFront, a
    <3>3. p \in [Visit -> Seq(M)] /\ p[v] = a /\ \A w \in Visit : w # v => p[w] = q[w]
      BY <3>1, <3>2
    <3> QED BY <1>2, <3>1, <3>3 DEF PostedTo
  <2> QED BY <2>1, <2>2
<1> QED BY <1>1, <1>2

-----------------------------------------------------------------------------
(* Types.                                                                  *)

MainMessages    == [to : Visit, what : {"RaptorDecodeFile", "finish"}]
DecoderMessages == [what : {"decode", "finish", "stop"}, esi : ESI \cup {0}]
RaptorMessages  == [what : {"decode", "finish"}, esi : ESI \cup {0}]
ZipMessages     == [what : {"UnZipFile", "finish"}, esi : {0}]
Codes           == [what : {"decode"}, esi : ESI]

\* There is an ESI 0; visits and handlers are visits.
LEMMA Constants ==
  /\ 0 \in ESI /\ ESI \cup {0} = ESI
  /\ MaxVisits \in Nat /\ Visit = 1 .. MaxVisits /\ None \notin Visit
  /\ NewSymbols(SymbolOverhead) \in Symbols
<1>1. 0 \in Source
  BY BlockAssumption DEF Source
<1>2. NewSymbols(SymbolOverhead) \in Symbols
  BY DEF NewSymbols, SymbolOverhead, Symbols, SourceBlockState, INCOMPLETE
<1> QED BY <1>1, <1>2, PipelineAssumption DEF ESI, Visit, None

\* The messages are what the queues carry.
LEMMA Messages ==
  /\ \A w \in {"finish", "stop"} : Signal(w) \in DecoderMessages
  /\ Signal("finish") \in RaptorMessages
  /\ Codes \subseteq RaptorMessages
  /\ \A w \in {"UnZipFile", "finish"} : Signal(w) \in ZipMessages
  /\ \A e \in ESI : CodeRead(e) \in DecoderMessages
  /\ \A v \in Visit, w \in {"RaptorDecodeFile", "finish"} : ToHandler(v, w) \in MainMessages
  /\ \A m \in DecoderMessages : m.what = "decode" => m \in Codes
BY Constants DEF Signal, CodeRead, ToHandler, MainMessages, DecoderMessages, RaptorMessages, ZipMessages, Codes

\* The types in these terms.
LEMMA Typed ==
  TypeOK <=>
  /\ front \in BOOLEAN /\ paused \in BOOLEAN /\ crashed \in BOOLEAN
  /\ visit \in 0 .. MaxVisits /\ handler \in {None, visit} /\ preview \in {None, visit}
  /\ mq \in Seq(MainMessages)
  /\ dq \in [Visit -> Seq(DecoderMessages)]
  /\ rq \in [Visit -> Seq(RaptorMessages)]
  /\ zq \in [Visit -> Seq(ZipMessages)]
  /\ reading \in [Visit -> SUBSET Codes]
  /\ decoder \in [Visit -> {"none", "running", "quit"}]
  /\ raptor \in [Visit -> {"none", "running", "decoding", "quit"}]
  /\ started \in [Visit -> BOOLEAN] /\ sbd \in [Visit -> Symbols]
  /\ saved \subseteq ESI /\ delivered \in Nat /\ failed \in BOOLEAN
BY DEF TypeOK, MainMessages, DecoderMessages, RaptorMessages, ZipMessages, Codes

\* What a step has to show for them.
LEMMA TypedAfter ==
  ASSUME /\ front' \in BOOLEAN /\ paused' \in BOOLEAN /\ crashed' \in BOOLEAN
         /\ visit' \in 0 .. MaxVisits /\ handler' \in {None, visit'} /\ preview' \in {None, visit'}
         /\ mq' \in Seq(MainMessages)
         /\ dq' \in [Visit -> Seq(DecoderMessages)]
         /\ rq' \in [Visit -> Seq(RaptorMessages)]
         /\ zq' \in [Visit -> Seq(ZipMessages)]
         /\ reading' \in [Visit -> SUBSET Codes]
         /\ decoder' \in [Visit -> {"none", "running", "quit"}]
         /\ raptor' \in [Visit -> {"none", "running", "decoding", "quit"}]
         /\ started' \in [Visit -> BOOLEAN] /\ sbd' \in [Visit -> Symbols]
         /\ saved' \subseteq ESI /\ delivered' \in Nat /\ failed' \in BOOLEAN
  PROVE  TypeOK'
BY DEF TypeOK, MainMessages, DecoderMessages, RaptorMessages, ZipMessages, Codes

\* A function of the visits with another value for one of them.
LEMMA OneVisit ==
  ASSUME NEW S, NEW F \in [Visit -> S], NEW v \in Visit, NEW x \in S
  PROVE  /\ [F EXCEPT ![v] = x] \in [Visit -> S] /\ [F EXCEPT ![v] = x][v] = x
         /\ \A w \in Visit : w # v => [F EXCEPT ![v] = x][w] = F[w]
OBVIOUS

\* The empty queue, the queue without its first message, and the queue with one more.
LEMMA Queue ==
  ASSUME NEW M, NEW q \in [Visit -> Seq(M)], NEW v \in Visit
  PROVE  /\ [q EXCEPT ![v] = <<>>] \in [Visit -> Seq(M)]
         /\ q[v] # <<>> => Head(q[v]) \in M /\ [q EXCEPT ![v] = Tail(@)] \in [Visit -> Seq(M)]
         /\ \A m \in M : /\ [q EXCEPT ![v] = Append(@, m)] \in [Visit -> Seq(M)]
                         /\ [q EXCEPT ![v] = <<m>> \o @] \in [Visit -> Seq(M)]
<1>1. <<>> \in Seq(M) /\ q[v] \in Seq(M)
  OBVIOUS
<1>2. q[v] # <<>> => Head(q[v]) \in M /\ Tail(q[v]) \in Seq(M)
  BY <1>1, Taken
<1>3. \A m \in M : Append(q[v], m) \in Seq(M) /\ <<m>> \o q[v] \in Seq(M)
  BY <1>1, Appended, PutInFront
<1> QED BY <1>1, <1>2, <1>3

\* The types hold before the page is opened,
LEMMA TypesInit == Init => TypeOK
<1> SUFFICES ASSUME Init PROVE TypeOK
  OBVIOUS
<1>1. /\ <<>> \in Seq(MainMessages) /\ <<>> \in Seq(DecoderMessages)
      /\ <<>> \in Seq(RaptorMessages) /\ <<>> \in Seq(ZipMessages)
  OBVIOUS
<1>2. /\ mq \in Seq(MainMessages) /\ dq \in [Visit -> Seq(DecoderMessages)]
      /\ rq \in [Visit -> Seq(RaptorMessages)] /\ zq \in [Visit -> Seq(ZipMessages)]
  BY <1>1 DEF Init
<1>3. /\ reading \in [Visit -> SUBSET Codes] /\ decoder \in [Visit -> {"none", "running", "quit"}]
      /\ raptor \in [Visit -> {"none", "running", "decoding", "quit"}]
      /\ started \in [Visit -> BOOLEAN] /\ sbd \in [Visit -> Symbols]
  BY Constants DEF Init
<1>4. /\ front \in BOOLEAN /\ paused \in BOOLEAN /\ crashed \in BOOLEAN /\ failed \in BOOLEAN
      /\ visit \in 0 .. MaxVisits /\ handler \in {None, visit} /\ preview \in {None, visit}
      /\ saved \subseteq ESI /\ delivered \in Nat
  <2>1. /\ front = FALSE /\ paused = FALSE /\ crashed = FALSE /\ failed = FALSE
        /\ visit = 0 /\ handler = None
        /\ preview = None /\ saved = {} /\ delivered = 0
    BY DEF Init
  <2>2. MaxVisits \in Nat
    BY Constants
  <2>3. front \in BOOLEAN /\ paused \in BOOLEAN /\ crashed \in BOOLEAN /\ failed \in BOOLEAN
    BY <2>1, Zenon
  <2>4. visit \in 0 .. MaxVisits /\ saved \subseteq ESI /\ delivered \in Nat
    BY <2>1, <2>2
  <2> QED BY <2>1, <2>3, <2>4, Zenon
<1> QED BY <1>2, <1>3, <1>4, Typed

\* the main thread keeps them,
LEMMA TypesMain ==
  ASSUME TypeOK, Open \/ Pause \/ MainLooper \/ \E e \in ESI : Frame(e)
  PROVE  TypeOK'
<1>0. /\ dq \in [Visit -> Seq(DecoderMessages)] /\ mq \in Seq(MainMessages)
      /\ handler \in {None, visit} /\ preview \in {None, visit} /\ visit \in 0 .. MaxVisits
  BY Typed
<1>a. \A h \in {handler, preview} : h # None => h \in Visit
  BY <1>0, Constants DEF None
<1>1. CASE Open
  <2>1. visit + 1 \in Visit /\ visit + 1 \in 0 .. MaxVisits
    BY <1>0, <1>1, Constants DEF Open
  <2>2. /\ decoder' \in [Visit -> {"none", "running", "quit"}]
        /\ raptor' \in [Visit -> {"none", "running", "decoding", "quit"}]
    BY <1>1, <2>1, Typed DEF Open
  <2> QED BY <1>1, <2>1, <2>2, Typed, TypedAfter DEF Open, outcome
<1>2. CASE Pause
  <2>1. dq' \in [Visit -> Seq(DecoderMessages)]
    <3>1. CASE handler = None
      BY <1>0, <1>2, <3>1 DEF Pause
    <3>2. CASE handler # None
      <4>1. handler \in Visit /\ (decoder[handler] = "running") \in BOOLEAN /\ Signal("stop") \in DecoderMessages
        BY <1>a, <3>2, Messages
      <4>2. dq' = Post(dq, handler, decoder[handler] = "running", Signal("stop"))
        BY <1>2, <3>2 DEF Pause
      <4> QED BY <1>0, <4>1, <4>2, Posted
    <3> QED BY <3>1, <3>2
  <2>2. paused' \in BOOLEAN
    BY <1>2, Typed DEF Pause
  <2> QED BY <1>2, <2>1, <2>2, Typed, TypedAfter DEF Pause, rthread, outcome
<1>3. CASE RaptorDecodeFile
  <2>1. Head(mq) \in MainMessages /\ mq' \in Seq(MainMessages)
    BY <1>0, <1>3, Taken DEF RaptorDecodeFile
  <2>2. Head(mq).to \in Visit
    BY <2>1 DEF MainMessages
  <2>3. dq' \in [Visit -> Seq(DecoderMessages)]
    <3>1. /\ (decoder[Head(mq).to] = "running") \in BOOLEAN /\ Signal("finish") \in DecoderMessages
          /\ dq' = PostAtFront(dq, Head(mq).to, decoder[Head(mq).to] = "running", Signal("finish"))
      BY <1>3, Messages DEF RaptorDecodeFile
    <3> QED BY <1>0, <2>2, <3>1, Posted
  <2> QED BY <1>3, <2>1, <2>3, Typed, TypedAfter DEF RaptorDecodeFile, rthread, outcome
<1>4. CASE TransmissionComplete
  <2>1. mq' \in Seq(MainMessages)
    BY <1>0, <1>4, Taken DEF TransmissionComplete
  <2> QED BY <1>4, <2>1, Typed, TypedAfter DEF TransmissionComplete, dthread, rthread, outcome
<1>5. ASSUME NEW e \in ESI, Frame(e) PROVE TypeOK'
  <2>1. /\ preview \in Visit /\ (decoder[preview] = "running") \in BOOLEAN /\ CodeRead(e) \in DecoderMessages
        /\ dq' = Post(dq, preview, decoder[preview] = "running", CodeRead(e))
    BY <1>a, <1>5, Messages DEF Frame
  <2>2. dq' \in [Visit -> Seq(DecoderMessages)]
    BY <1>0, <2>1, Posted
  <2> QED BY <1>5, <2>2, Typed, TypedAfter DEF Frame, main, rthread, outcome
<1> QED BY <1>1, <1>2, <1>3, <1>4, <1>5 DEF MainLooper

\* so do the decoder threads,
LEMMA TypesDecoder ==
  ASSUME TypeOK, NEW v \in Visit, DecoderThread(v)
  PROVE  TypeOK'
<1>0. /\ dq \in [Visit -> Seq(DecoderMessages)] /\ rq \in [Visit -> Seq(RaptorMessages)]
      /\ reading \in [Visit -> SUBSET Codes] /\ decoder \in [Visit -> {"none", "running", "quit"}]
  BY Typed
<1>1. CASE DecodeFrame(v)
  <2>1. Head(dq[v]) \in DecoderMessages /\ dq' \in [Visit -> Seq(DecoderMessages)] /\ Head(dq[v]).what = "decode"
    BY <1>0, <1>1, Queue DEF DecodeFrame
  <2>2. Head(dq[v]) \in Codes
    BY <2>1, Messages
  <2>3. reading' \in [Visit -> SUBSET Codes]
    BY <1>0, <1>1, <2>2 DEF DecodeFrame
  <2> QED BY <1>1, <2>1, <2>3, Typed, TypedAfter DEF DecodeFrame, main, rthread, outcome
<1>2. CASE SendToRaptorDecoder(v)
  <2>1. PICK m \in reading[v] : rq' = Post(rq, v, raptor[v] # "quit", m)
    BY <1>2 DEF SendToRaptorDecoder
  <2>2. m \in RaptorMessages /\ (raptor[v] # "quit") \in BOOLEAN
    BY <1>0, Messages
  <2>3. rq' \in [Visit -> Seq(RaptorMessages)]
    BY <1>0, <2>1, <2>2, Posted
  <2>4. reading' \in [Visit -> SUBSET Codes]
    BY <1>0, <1>2 DEF SendToRaptorDecoder
  <2> QED BY <1>2, <2>3, <2>4, Typed, TypedAfter DEF SendToRaptorDecoder, main, outcome
<1>3. CASE DecoderFinish(v)
  <2>1. rq' \in [Visit -> Seq(RaptorMessages)]
    <3>1. /\ Signal("finish") \in RaptorMessages /\ (raptor[v] # "quit") \in BOOLEAN
          /\ rq' = PostAtFront(rq, v, raptor[v] # "quit", Signal("finish"))
      BY <1>3, Messages DEF DecoderFinish
    <3> QED BY <1>0, <3>1, Posted
  <2>2. dq' \in [Visit -> Seq(DecoderMessages)] /\ decoder' \in [Visit -> {"none", "running", "quit"}]
    BY <1>0, <1>3, Queue DEF DecoderFinish
  <2> QED BY <1>3, <2>1, <2>2, Typed, TypedAfter DEF DecoderFinish, main, outcome
<1>4. CASE DecoderStop(v)
  <2>1. dq' \in [Visit -> Seq(DecoderMessages)] /\ decoder' \in [Visit -> {"none", "running", "quit"}]
    BY <1>0, <1>4, Queue DEF DecoderStop
  <2> QED BY <1>4, <2>1, Typed, TypedAfter DEF DecoderStop, main, rthread, outcome
<1> QED BY <1>1, <1>2, <1>3, <1>4 DEF DecoderThread

\* A crash changes nothing else.
LEMMA TypesCrash ==
  ASSUME TypeOK, Crash
  PROVE  TypeOK'
BY Typed, TypedAfter DEF Crash, main, dthread, rthread, outcome

\* so do the RaptorQ threads,
LEMMA TypesRaptor ==
  ASSUME TypeOK, NEW v \in Visit, RaptorThread(v)
  PROVE  TypeOK'
<1>0. /\ rq \in [Visit -> Seq(RaptorMessages)] /\ zq \in [Visit -> Seq(ZipMessages)]
      /\ mq \in Seq(MainMessages) /\ saved \subseteq ESI /\ started \in [Visit -> BOOLEAN]
      /\ raptor \in [Visit -> {"none", "running", "decoding", "quit"}] /\ sbd \in [Visit -> Symbols]
  BY Typed
<1>a. handler # None => handler \in Visit
  BY Constants, Typed DEF None
<1>b. \A m \in RaptorMessages : m.esi \in ESI
  BY Constants DEF RaptorMessages
<1>c. Loaded \in Symbols
  BY <1>0, LoadedFacts
<1>d. \A s \in Symbols, e \in ESI : Put(s, {e}) \in Symbols
  BY PutType DEF ESI
<1>e. handler # None => Append(mq, ToHandler(handler, "RaptorDecodeFile")) \in Seq(MainMessages)
  BY <1>0, <1>a, Messages, Appended
<1>f. /\ [zq EXCEPT ![v] = Append(@, Signal("UnZipFile"))] \in [Visit -> Seq(ZipMessages)]
      /\ [zq EXCEPT ![v] = <<Signal("finish")>> \o @] \in [Visit -> Seq(ZipMessages)]
  BY <1>0, Messages, Queue
<1>g. /\ rq[v] # <<>> => Head(rq[v]) \in RaptorMessages /\ [rq EXCEPT ![v] = Tail(@)] \in [Visit -> Seq(RaptorMessages)]
      /\ [rq EXCEPT ![v] = <<>>] \in [Visit -> Seq(RaptorMessages)]
  BY <1>0, Queue
<1>1. CASE Resume(v)
  <2> DEFINE e == Head(rq[v]).esi
  <2>0. e \in ESI
    BY <1>1, <1>b, <1>g DEF Resume
  <2> HIDE DEF e
  <2>1. PICK fresh \in {TRUE, FALSE}, announced \in {TRUE, FALSE} :
          /\ announced => handler # None
          /\ saved' = IF fresh THEN saved \cup {e} ELSE saved
          /\ IF handler = None
               THEN rq' = [rq EXCEPT ![v] = Tail(@)] /\ UNCHANGED <<started, sbd, raptor, zq>>
               ELSE /\ started' = [started EXCEPT ![v] = TRUE]
                    /\ sbd' = [sbd EXCEPT ![v] =
                                 IF fresh THEN Put(NewSymbols(SymbolOverhead), {e}) ELSE Loaded]
                    /\ \/ /\ raptor' = [raptor EXCEPT ![v] = "decoding"]
                          /\ zq' = [zq EXCEPT ![v] = Append(@, Signal("UnZipFile"))]
                       \/ UNCHANGED <<raptor, zq>>
                    /\ UNCHANGED rq
          /\ mq' = IF announced THEN Append(mq, ToHandler(handler, "RaptorDecodeFile")) ELSE mq
    BY <1>1 DEF Resume, e
  <2>2. UNCHANGED <<front, visit, handler, preview, paused, dthread, outcome, crashed>> /\ rq[v] # <<>>
    BY <1>1 DEF Resume
  <2>3. saved' \subseteq ESI /\ mq' \in Seq(MainMessages)
    BY <1>0, <1>e, <2>0, <2>1
  <2>4. /\ rq' \in [Visit -> Seq(RaptorMessages)] /\ zq' \in [Visit -> Seq(ZipMessages)]
        /\ raptor' \in [Visit -> {"none", "running", "decoding", "quit"}] /\ started' \in [Visit -> BOOLEAN]
    BY <1>0, <1>f, <1>g, <2>1, <2>2
  <2>5. Put(NewSymbols(SymbolOverhead), {e}) \in Symbols
    BY <1>d, <2>0, Constants
  <2>6. sbd' \in [Visit -> Symbols]
    BY <1>0, <1>c, <2>1, <2>5
  <2> QED BY <2>2, <2>3, <2>4, <2>6, Typed, TypedAfter DEF dthread, outcome
<1>2. CASE HandlePacket(v)
  <2> DEFINE e == Head(rq[v]).esi
             after == Put(sbd[v], {e})
             starts == StartsDecoding(sbd[v], {e})
             counts == after.state = INCOMPLETE /\ e \notin Held(sbd[v])
  <2>0. e \in ESI /\ after \in Symbols
    BY <1>0, <1>2, <1>b, <1>d, <1>g DEF HandlePacket
  <2>1. \/ Crash
        \/ /\ ~(handler = None /\ starts)
           /\ rq' = [rq EXCEPT ![v] = Tail(@)]
           /\ sbd' = [sbd EXCEPT ![v] = after]
           /\ raptor' = [raptor EXCEPT ![v] = IF after.state = INCOMPLETE THEN "running" ELSE "decoding"]
           /\ saved' = IF counts THEN saved \cup {e} ELSE saved
           /\ mq' = IF starts THEN Append(mq, ToHandler(handler, "RaptorDecodeFile")) ELSE mq
           /\ crashed' = (handler = None /\ counts)
           /\ UNCHANGED <<front, visit, handler, preview, paused, dthread, started, zq, outcome>>
    BY <1>2 DEF HandlePacket
  <2>2. rq[v] # <<>>
    BY <1>2 DEF HandlePacket
  <2> HIDE DEF e, after, starts, counts
  <2>3. CASE ~Crash
    <3>1. saved' \subseteq ESI /\ mq' \in Seq(MainMessages)
      BY <1>0, <1>e, <2>0, <2>1, <2>3
    <3>2. rq' \in [Visit -> Seq(RaptorMessages)] /\ sbd' \in [Visit -> Symbols]
      BY <1>0, <1>g, <2>0, <2>1, <2>2, <2>3
    <3>3. raptor' \in [Visit -> {"none", "running", "decoding", "quit"}]
      BY <1>0, <2>1, <2>3
    <3>4. crashed' \in BOOLEAN
      BY <2>1, <2>3, Zenon
    <3> QED BY <2>1, <2>3, <3>1, <3>2, <3>3, <3>4, Typed, TypedAfter DEF dthread, outcome
  <2> QED BY <2>3, TypesCrash
<1>3. CASE EndDecoding(v)
  <2>1. zq' \in [Visit -> Seq(ZipMessages)] /\ rq' \in [Visit -> Seq(RaptorMessages)] /\ saved' = {}
    BY <1>0, <1>3, <1>f, <1>g DEF EndDecoding
  <2>2. raptor' \in [Visit -> {"none", "running", "decoding", "quit"}]
    BY <1>0, <1>3 DEF EndDecoding
  <2>3. failed' \in BOOLEAN
    BY <1>3, Typed, Zenon DEF EndDecoding
  <2> QED BY <1>3, <2>1, <2>2, <2>3, Typed, TypedAfter DEF EndDecoding, main, dthread
<1>4. CASE RaptorFinish(v)
  <2>1. zq' \in [Visit -> Seq(ZipMessages)] /\ rq' \in [Visit -> Seq(RaptorMessages)]
    BY <1>0, <1>4, <1>f, <1>g DEF RaptorFinish
  <2>2. raptor' \in [Visit -> {"none", "running", "decoding", "quit"}]
    BY <1>0, <1>4 DEF RaptorFinish
  <2> QED BY <1>4, <2>1, <2>2, Typed, TypedAfter DEF RaptorFinish, main, dthread, outcome
<1> QED BY <1>1, <1>2, <1>3, <1>4 DEF RaptorThread

\* and so do the unzip threads.
LEMMA TypesZip ==
  ASSUME TypeOK, NEW v \in Visit, ZipThread(v)
  PROVE  TypeOK'
<1>1. CASE Crash
  BY <1>1, TypesCrash
<1>2. CASE ~Crash
  <2>0. /\ zq[v] # <<>> /\ zq' = [zq EXCEPT ![v] = Tail(@)]
        /\ UNCHANGED <<front, visit, handler, preview, paused, dthread, rthread, crashed>>
        /\ \/ handler # None /\ mq' = Append(mq, ToHandler(handler, "finish")) /\ delivered' = delivered + 1
           \/ UNCHANGED <<mq, delivered>>
        /\ failed' = failed \/ failed' = TRUE
    BY <1>2 DEF ZipThread, UnZipFile, ZipFinish, main
  <2>1. handler # None => handler \in Visit
    BY Constants, Typed DEF None
  <2>2. zq \in [Visit -> Seq(ZipMessages)] /\ mq \in Seq(MainMessages) /\ delivered \in Nat
    BY Typed
  <2>3. zq' \in [Visit -> Seq(ZipMessages)]
    BY <2>0, <2>2, Queue
  <2>4. mq' \in Seq(MainMessages) /\ delivered' \in Nat
    <3>1. handler # None => Append(mq, ToHandler(handler, "finish")) \in Seq(MainMessages)
      BY <2>1, <2>2, Messages, Appended
    <3>2. CASE UNCHANGED <<mq, delivered>>
      BY <2>2, <3>2
    <3>3. CASE handler # None /\ mq' = Append(mq, ToHandler(handler, "finish")) /\ delivered' = delivered + 1
      BY <2>2, <3>1, <3>3
    <3> QED BY <2>0, <3>2, <3>3
  <2> QED BY <2>0, <2>3, <2>4, Typed, TypedAfter DEF dthread, rthread, outcome
<1> QED BY <1>1, <1>2

\* Every step keeps the types.
LEMMA TypesNext == TypeOK /\ [Next]_vars => TypeOK'
<1> SUFFICES ASSUME TypeOK, [Next]_vars PROVE TypeOK'
  OBVIOUS
<1>1. CASE UNCHANGED vars
  BY <1>1, Typed, TypedAfter DEF vars, main, dthread, rthread, outcome
<1> QED BY <1>1, TypesMain, TypesDecoder, TypesRaptor, TypesZip DEF Next

\* The queues carry what their threads understand, and the decoders of the RaptorQ threads are
\* decoders, whatever log they were loaded from.
THEOREM TypesKept == Spec => []TypeOK
BY TypesInit, TypesNext, PTL DEF Spec

-----------------------------------------------------------------------------
(* A page that is never left early.                                        *)

\* What holds of such a page.
Orderly == ~crashed /\ PageOK /\ WorkOK /\ SignalsOK /\ LogOK

\* A decoding that is announced ends decoded or in a failure.
LEMMA StartsEnds ==
  ASSUME NEW s \in Symbols, NEW p, p \subseteq Source \/ p \subseteq Repair, StartsDecoding(s, p)
  PROVE  Put(s, p).state # INCOMPLETE
<1> DEFINE added == IF p \subseteq Source THEN AddSource(s, p) ELSE AddRepair(s, p)
<1>1. added \in Symbols
  BY AddSourceFacts, AddRepairFacts
<1>2. Put(s, p) = Decode(added)
  BY DEF StartsDecoding, Put
<1> HIDE DEF added
<1>3. Decoded(Decode(added)) \/ Decode(added).state = DECODING_FAILURE
  BY <1>1, DecodeFacts
<1> QED BY <1>2, <1>3 DEF Decoded, DECODED, DECODING_FAILURE, INCOMPLETE

\* The announcements that are left when the first message is taken.
LEMMA FinishesTaken ==
  ASSUME NEW M, NEW q \in Seq(M), q # <<>>
  PROVE  /\ \A i \in DOMAIN Tail(q) : i + 1 \in DOMAIN q /\ Tail(q)[i] = q[i + 1]
         /\ \A i \in Finishes(Tail(q)) : i + 1 \in Finishes(q) /\ i + 1 # 1 /\ i \in Nat
         /\ Head(q).what = "finish" => 1 \in Finishes(q)
         /\ 1 \in DOMAIN q /\ Head(q) = q[1]
<1>1. /\ 1 \in DOMAIN q /\ Head(q) = q[1]
      /\ \A i \in DOMAIN Tail(q) : i + 1 \in DOMAIN q /\ Tail(q)[i] = q[i + 1] /\ i + 1 # 1
  BY Taken
<1>2. \A i \in DOMAIN Tail(q) : i \in Nat
  OBVIOUS
<1> QED BY <1>1, <1>2 DEF Finishes

\* No work is under way at the start,
LEMMA OrderlyInit == Init => Orderly
<1> SUFFICES ASSUME Init PROVE Orderly
  OBVIOUS
<1>1. /\ visit = None /\ handler = None /\ ~crashed /\ mq = <<>> /\ saved = {}
      /\ \A v \in Visit : /\ dq[v] = <<>> /\ rq[v] = <<>> /\ zq[v] = <<>>
                          /\ raptor[v] = "none" /\ ~started[v]
  BY DEF Init, None
<1>2. DOMAIN <<>> = {}
  OBVIOUS
<1>3. PageOK
  BY <1>1 DEF PageOK, Busy
<1>4. WorkOK
  BY <1>1, <1>2 DEF WorkOK, Finishes
<1>5. SignalsOK
  BY <1>1, <1>2 DEF SignalsOK
<1> QED BY <1>1, <1>3, <1>4, <1>5 DEF Orderly, LogOK

\* a page that is opened is alone with its work,
LEMMA OrderlyOpen ==
  ASSUME TypeOK, Orderly, Open
  PROVE  Orderly'
<1> DEFINE n == visit + 1
<1>1. /\ ~crashed /\ ~front /\ visit < MaxVisits /\ front' = TRUE /\ visit' = n /\ handler' = n
      /\ raptor' = [raptor EXCEPT ![n] = "running"]
      /\ UNCHANGED <<mq, dq, rq, started, saved, zq, crashed>>
  BY DEF Open
<1>2. /\ visit \in 0 .. MaxVisits /\ raptor \in [Visit -> {"none", "running", "decoding", "quit"}]
      /\ mq \in Seq(MainMessages)
  BY Typed
<1>3. n \in Visit /\ n # None /\ n # visit /\ n > visit /\ (visit # None => visit \in Visit)
  BY <1>1, <1>2, Constants DEF None
<1>4. \A w \in Visit : w > n => w > visit
  BY <1>2, Constants
<1> HIDE DEF n
<1>5. raptor'[n] = "running" /\ \A w \in Visit : w # n => raptor'[w] = raptor[w]
  BY <1>1, <1>2, <1>3
<1>6. handler = None
  BY <1>1 DEF Orderly, PageOK
<1>7. Finishes(mq) = {} /\ saved = {}
  BY <1>6 DEF Orderly, WorkOK, LogOK
<1>8. \A w \in Visit : w # n => raptor[w] \notin Busy /\ zq[w] = <<>>
  <2>1. \A w \in Visit : w # visit => raptor[w] \notin Busy /\ zq[w] = <<>>
    BY DEF Orderly, PageOK
  <2>2. visit # None => raptor[visit] \notin Busy /\ zq[visit] = <<>>
    BY <1>6 DEF Orderly, WorkOK
  <2>3. \A w \in Visit : w # None
    BY Constants
  <2> QED BY <2>1, <2>2, <2>3
<1>9. raptor[n] = "none" /\ zq[n] = <<>>
  BY <1>3 DEF Orderly, PageOK
<1>10. PageOK'
  BY <1>1, <1>3, <1>4, <1>5, <1>8 DEF Orderly, PageOK
<1>11. WorkOK'
  BY <1>1, <1>3, <1>7, <1>9 DEF WorkOK
<1>12. SignalsOK'
  <2>1. ASSUME NEW v \in Visit, raptor[v] \in Over PROVE raptor'[v] \in Over
    BY <1>5, <1>9, <2>1 DEF Over
  <2>2. \A i \in DOMAIN mq : mq[i].to \in Visit
    <3>1. \A i \in DOMAIN mq : mq[i] \in MainMessages
      BY <1>2
    <3> QED BY <3>1 DEF MainMessages
  <2> QED BY <1>1, <2>1, <2>2 DEF Orderly, SignalsOK
<1> QED BY <1>1, <1>7, <1>10, <1>11, <1>12 DEF Orderly, LogOK

\* and left without a handler only when its file was announced,
LEMMA OrderlyMain ==
  ASSUME TypeOK, Orderly, Pause \/ MainLooper \/ \E e \in ESI : Frame(e), ~paused'
  PROVE  Orderly'
<1>0. /\ dq \in [Visit -> Seq(DecoderMessages)] /\ mq \in Seq(MainMessages)
      /\ handler \in {None, visit} /\ preview \in {None, visit} /\ visit \in 0 .. MaxVisits
  BY Typed
<1>1. CASE Pause
  <2>1. /\ handler = None /\ handler' = None /\ dq' = dq
        /\ UNCHANGED <<visit, mq, raptor, started, rq, zq, saved, crashed>>
    BY <1>1 DEF Pause, rthread
  <2> QED BY <2>1 DEF Orderly, PageOK, WorkOK, SignalsOK, LogOK
<1>2. CASE RaptorDecodeFile
  <2> DEFINE v == Head(mq).to
  <2>1. /\ mq # <<>> /\ Head(mq).what = "RaptorDecodeFile" /\ mq' = Tail(mq)
        /\ dq' = PostAtFront(dq, v, decoder[v] = "running", Signal("finish"))
        /\ UNCHANGED <<front, visit, handler, raptor, started, rq, zq, saved, crashed>>
    BY <1>2 DEF RaptorDecodeFile, rthread
  <2>2. /\ \A i \in DOMAIN mq' : i + 1 \in DOMAIN mq /\ mq'[i] = mq[i + 1]
        /\ \A i \in Finishes(mq') : i + 1 \in Finishes(mq) /\ i \in Nat
        /\ 1 \in DOMAIN mq /\ Head(mq) = mq[1]
    BY <1>0, <2>1, FinishesTaken
  <2>3. v \in Visit /\ raptor[v] \in Over
    <3>1. Head(mq) \in MainMessages
      BY <1>0, <2>1, Taken
    <3>2. raptor[v] \in Over
      BY <2>1, <2>2 DEF Orderly, SignalsOK
    <3> QED BY <3>1, <3>2 DEF MainMessages
  <2>4. (decoder[v] = "running") \in BOOLEAN /\ Signal("finish") \in DecoderMessages
    BY Messages
  <2> HIDE DEF v
  <2>5. /\ \A w \in Visit : w # v => dq'[w] = dq[w]
        /\ \A i \in DOMAIN dq'[v] : \/ dq'[v][i] = Signal("finish")
                                    \/ \E j \in DOMAIN dq[v] : dq'[v][i] = dq[v][j]
    <3> DEFINE running == decoder[v] = "running"
    <3>1. dq' \in {Post(dq, v, running, Signal("finish")), PostAtFront(dq, v, running, Signal("finish"))}
      BY <2>1
    <3>2. running \in BOOLEAN
      OBVIOUS
    <3> HIDE DEF running
    <3> QED BY <1>0, <2>3, <2>4, <3>1, <3>2, Posted DEF PostedTo
  <2>6. SignalsOK'
    <3>1. \A i \in DOMAIN mq' : mq'[i].what = "RaptorDecodeFile" => raptor'[mq'[i].to] \in Over
      BY <2>1, <2>2 DEF Orderly, SignalsOK
    <3>2. ASSUME NEW w \in Visit, NEW i \in DOMAIN dq'[w], dq'[w][i].what = "finish"
          PROVE  raptor'[w] \in Over
      <4>1. CASE w = v
        BY <2>1, <2>3, <4>1
      <4>2. CASE w # v
        BY <2>1, <2>5, <3>2, <4>2 DEF Orderly, SignalsOK
      <4> QED BY <4>1, <4>2
    <3> QED BY <2>1, <3>1, <3>2 DEF Orderly, SignalsOK
  <2>7. WorkOK'
    <3>1. \A i, j \in Finishes(mq') : i = j /\ handler' # None
      <4>1. ASSUME NEW i \in Finishes(mq'), NEW j \in Finishes(mq') PROVE i = j /\ handler # None
        <5>1. i + 1 = j + 1 /\ handler # None
          BY <2>2 DEF Orderly, WorkOK
        <5>2. i \in Nat /\ j \in Nat
          BY <2>2
        <5> QED BY <5>1, <5>2
      <4> QED BY <2>1, <4>1
    <3>2. Finishes(mq) = {} => Finishes(mq') = {}
      BY <2>2
    <3> QED BY <2>1, <3>1, <3>2 DEF Orderly, WorkOK
  <2> QED BY <2>1, <2>6, <2>7 DEF Orderly, PageOK, LogOK
<1>3. CASE TransmissionComplete
  <2>1. /\ mq # <<>> /\ Head(mq).what = "finish" /\ mq' = Tail(mq) /\ handler' = None
        /\ UNCHANGED <<front, visit, dq, raptor, started, rq, zq, saved, crashed>>
    BY <1>3 DEF TransmissionComplete, dthread, rthread
  <2>2. /\ \A i \in DOMAIN mq' : i + 1 \in DOMAIN mq /\ mq'[i] = mq[i + 1]
        /\ \A i \in Finishes(mq') : i + 1 \in Finishes(mq) /\ i + 1 # 1
        /\ 1 \in Finishes(mq)
    BY <1>0, <2>1, FinishesTaken
  <2>3. Finishes(mq') = {}
    BY <2>2 DEF Orderly, WorkOK
  <2>4. WorkOK'
    BY <2>1, <2>2, <2>3 DEF Orderly, WorkOK
  <2>5. SignalsOK'
    BY <2>1, <2>2 DEF Orderly, SignalsOK
  <2> QED BY <2>1, <2>4, <2>5 DEF Orderly, PageOK, LogOK
<1>4. ASSUME NEW e \in ESI, Frame(e) PROVE Orderly'
  <2>1. /\ preview # None /\ dq' = Post(dq, preview, decoder[preview] = "running", CodeRead(e))
        /\ UNCHANGED <<front, visit, handler, mq, raptor, started, rq, zq, saved, crashed>>
    BY <1>4 DEF Frame, main, rthread
  <2>2. preview \in Visit /\ (decoder[preview] = "running") \in BOOLEAN /\ CodeRead(e) \in DecoderMessages
    BY <1>0, <2>1, Messages, Constants DEF None
  <2>3. /\ \A w \in Visit : w # preview => dq'[w] = dq[w]
        /\ \A i \in DOMAIN dq'[preview] : \/ dq'[preview][i] = CodeRead(e)
                                          \/ \E j \in DOMAIN dq[preview] : dq'[preview][i] = dq[preview][j]
    <3> DEFINE running == decoder[preview] = "running"
               m == CodeRead(e)
    <3>1. dq' = Post(dq, preview, running, m)
      BY <2>1
    <3>2. running \in BOOLEAN
      OBVIOUS
    <3>3. m \in DecoderMessages
      BY <2>2
    <3> HIDE DEF running, m
    <3>4. PostedTo(dq, dq', preview, m)
      BY <1>0, <2>2, <3>1, <3>2, <3>3, Posted
    <3> QED BY <3>4 DEF PostedTo, m
  <2>4. CodeRead(e).what # "finish"
    BY DEF CodeRead
  <2>5. ASSUME NEW w \in Visit, NEW i \in DOMAIN dq'[w], dq'[w][i].what = "finish"
        PROVE  raptor'[w] \in Over
    <3>1. \E j \in DOMAIN dq[w] : dq'[w][i] = dq[w][j]
      BY <2>3, <2>4, <2>5
    <3> QED BY <2>1, <2>5, <3>1 DEF Orderly, SignalsOK
  <2>6. SignalsOK'
    BY <2>1, <2>5 DEF Orderly, SignalsOK
  <2> QED BY <2>1, <2>6 DEF Orderly, PageOK, WorkOK, LogOK
<1> QED BY <1>1, <1>2, <1>3, <1>4 DEF MainLooper

\* The decoder threads pass on codes, and the finish of a page whose block is decoded.
LEMMA OrderlyDecoder ==
  ASSUME TypeOK, Orderly, NEW v \in Visit, DecoderThread(v)
  PROVE  Orderly'
<1>0. /\ dq \in [Visit -> Seq(DecoderMessages)] /\ rq \in [Visit -> Seq(RaptorMessages)]
      /\ reading \in [Visit -> SUBSET Codes]
  BY Typed
<1>1. UNCHANGED <<main, raptor, started, saved, zq, crashed>>
  BY DEF DecoderThread, DecodeFrame, SendToRaptorDecoder, DecoderFinish, DecoderStop, rthread
<1>2. ASSUME \A w \in Visit : \A i \in DOMAIN dq'[w] : \E j \in DOMAIN dq[w] : dq'[w][i] = dq[w][j],
             \A w \in Visit : \A i \in DOMAIN rq'[w] :
               rq'[w][i].what = "finish" => raptor[w] \in Over \/ \E j \in DOMAIN rq[w] : rq'[w][i] = rq[w][j]
      PROVE  Orderly'
  <2>1. SignalsOK'
    <3>1. \A w \in Visit : \A i \in DOMAIN dq'[w] : dq'[w][i].what = "finish" => raptor[w] \in Over
      BY <1>2 DEF Orderly, SignalsOK
    <3>2. \A w \in Visit : \A i \in DOMAIN rq'[w] : rq'[w][i].what = "finish" => raptor[w] \in Over
      BY <1>2 DEF Orderly, SignalsOK
    <3> QED BY <1>1, <3>1, <3>2 DEF Orderly, SignalsOK, main
  <2> QED BY <1>1, <2>1 DEF Orderly, PageOK, WorkOK, LogOK, main
<1>3. /\ dq[v] # <<>> => \A i \in DOMAIN Tail(dq[v]) : i + 1 \in DOMAIN dq[v] /\ Tail(dq[v])[i] = dq[v][i + 1]
      /\ dq[v] # <<>> => 1 \in DOMAIN dq[v] /\ Head(dq[v]) = dq[v][1]
      /\ DOMAIN <<>> = {}
  <2>1. dq[v] \in Seq(DecoderMessages) /\ DOMAIN <<>> = {}
    BY <1>0
  <2> QED BY <2>1, Taken
<1>4. CASE DecodeFrame(v)
  <2>1. rq' = rq /\ dq[v] # <<>> /\ dq' = [dq EXCEPT ![v] = Tail(@)]
    BY <1>4 DEF DecodeFrame, rthread
  <2>2. \A w \in Visit : \A i \in DOMAIN dq'[w] : \E j \in DOMAIN dq[w] : dq'[w][i] = dq[w][j]
    <3>1. dq'[v] = Tail(dq[v]) /\ \A w \in Visit : w # v => dq'[w] = dq[w]
      BY <1>0, <2>1
    <3> QED BY <1>3, <2>1, <3>1
  <2> QED BY <1>2, <2>1, <2>2
<1>5. CASE SendToRaptorDecoder(v)
  <2>1. PICK m \in reading[v] : rq' = Post(rq, v, raptor[v] # "quit", m)
    BY <1>5 DEF SendToRaptorDecoder
  <2>2. m \in Codes /\ m \in RaptorMessages /\ m.what # "finish"
    <3>1. m \in Codes
      BY <1>0
    <3> QED BY <3>1, Messages DEF Codes
  <2>3. /\ \A w \in Visit : w # v => rq'[w] = rq[w]
        /\ \A i \in DOMAIN rq'[v] : rq'[v][i] = m \/ \E j \in DOMAIN rq[v] : rq'[v][i] = rq[v][j]
    <3> DEFINE running == raptor[v] # "quit"
    <3>1. rq' = Post(rq, v, running, m)
      BY <2>1
    <3>2. running \in BOOLEAN
      OBVIOUS
    <3> HIDE DEF running
    <3>3. PostedTo(rq, rq', v, m)
      BY <1>0, <2>2, <3>1, <3>2, Posted
    <3> QED BY <3>3 DEF PostedTo
  <2>4. dq' = dq
    BY <1>5 DEF SendToRaptorDecoder
  <2> QED BY <1>2, <2>2, <2>3, <2>4
<1>6. CASE DecoderFinish(v)
  <2>1. /\ dq[v] # <<>> /\ Head(dq[v]).what = "finish" /\ dq' = [dq EXCEPT ![v] = <<>>]
        /\ rq' = PostAtFront(rq, v, raptor[v] # "quit", Signal("finish"))
    BY <1>6 DEF DecoderFinish
  <2>2. raptor[v] \in Over
    BY <1>3, <2>1 DEF Orderly, SignalsOK
  <2>3. /\ \A w \in Visit : w # v => rq'[w] = rq[w]
        /\ \A i \in DOMAIN rq'[v] : rq'[v][i] = Signal("finish") \/ \E j \in DOMAIN rq[v] : rq'[v][i] = rq[v][j]
    <3> DEFINE running == raptor[v] # "quit"
               m == Signal("finish")
    <3>1. rq' = PostAtFront(rq, v, running, m)
      BY <2>1
    <3>2. running \in BOOLEAN
      OBVIOUS
    <3>3. m \in RaptorMessages
      BY Messages
    <3> HIDE DEF running, m
    <3>4. PostedTo(rq, rq', v, m)
      BY <1>0, <3>1, <3>2, <3>3, Posted
    <3> QED BY <3>4 DEF PostedTo, m
  <2>4. \A w \in Visit : \A i \in DOMAIN dq'[w] : \E j \in DOMAIN dq[w] : dq'[w][i] = dq[w][j]
    <3>1. dq'[v] = <<>> /\ \A w \in Visit : w # v => dq'[w] = dq[w]
      BY <1>0, <2>1
    <3> QED BY <1>3, <3>1
  <2> QED BY <1>2, <2>2, <2>3, <2>4
<1>7. CASE DecoderStop(v)
  <2>1. rq' = rq /\ dq' = [dq EXCEPT ![v] = <<>>]
    BY <1>7 DEF DecoderStop, rthread
  <2>2. \A w \in Visit : \A i \in DOMAIN dq'[w] : \E j \in DOMAIN dq[w] : dq'[w][i] = dq[w][j]
    <3>1. dq'[v] = <<>> /\ \A w \in Visit : w # v => dq'[w] = dq[w]
      BY <1>0, <2>1
    <3> QED BY <1>3, <3>1
  <2> QED BY <1>2, <2>1, <2>2
<1> QED BY <1>4, <1>5, <1>6, <1>7 DEF DecoderThread

\* The page at work: its RaptorQ thread is the only one that has messages to act on.
LEMMA AtWork ==
  ASSUME TypeOK, Orderly, NEW v \in Visit, raptor[v] \in Busy
  PROVE  /\ v = visit /\ visit # None /\ handler = visit /\ zq[v] = <<>> /\ Finishes(mq) = {}
         /\ raptor[v] = "running" =>
              /\ \A i \in DOMAIN mq : mq[i].what = "RaptorDecodeFile" => mq[i].to # v
              /\ \A i \in DOMAIN dq[v] : dq[v][i].what # "finish"
              /\ \A i \in DOMAIN rq[v] : rq[v][i].what # "finish"
<1>1. v = visit /\ visit # None
  BY Constants DEF Orderly, PageOK
<1>2. handler # None /\ zq[v] = <<>> /\ Finishes(mq) = {}
  BY <1>1 DEF Orderly, WorkOK
<1>3. handler = visit
  BY <1>2, Typed
<1>4. "running" \notin Over
  BY DEF Over
<1> QED BY <1>1, <1>2, <1>3, <1>4 DEF Orderly, SignalsOK

\* The RaptorQ thread starts from an empty disk, decodes once, and hands its file over once.
LEMMA OrderlyRaptor ==
  ASSUME TypeOK, Orderly, NEW v \in Visit, RaptorThread(v)
  PROVE  Orderly'
<1>0. /\ rq \in [Visit -> Seq(RaptorMessages)] /\ zq \in [Visit -> Seq(ZipMessages)]
      /\ mq \in Seq(MainMessages) /\ saved \subseteq ESI /\ started \in [Visit -> BOOLEAN]
      /\ raptor \in [Visit -> {"none", "running", "decoding", "quit"}] /\ sbd \in [Visit -> Symbols]
  BY Typed
<1>a. raptor[v] \in Busy
  BY DEF RaptorThread, Resume, HandlePacket, EndDecoding, RaptorFinish, Busy
<1>b. v = visit /\ visit # None /\ handler = visit /\ handler # None /\ zq[v] = <<>> /\ Finishes(mq) = {}
  BY <1>a, AtWork
<1>c. rq[v] # <<>> =>
        /\ Head(rq[v]) \in RaptorMessages /\ 1 \in DOMAIN rq[v] /\ Head(rq[v]) = rq[v][1]
        /\ \A i \in DOMAIN Tail(rq[v]) : i + 1 \in DOMAIN rq[v] /\ Tail(rq[v])[i] = rq[v][i + 1]
  <2>1. rq[v] \in Seq(RaptorMessages)
    BY <1>0
  <2> QED BY <2>1, Taken
<1>1. CASE Resume(v)
  <2>1. raptor[v] = "running" /\ ~started[v]
    BY <1>1 DEF Resume
  <2>2. saved = {}
    BY <1>b, <2>1 DEF Orderly, LogOK
  <2>3. Loaded = NewSymbols(SymbolOverhead) /\ ~Decoded(Loaded)
    BY <2>2, <1>0, LoadedFacts DEF Decoded, NewSymbols, DECODED, INCOMPLETE
  <2>4. ~(Cardinality(saved) >= K + SymbolOverhead)
    <3>1. Cardinality(saved) = 0
      BY <2>2, FS_EmptySet
    <3> QED BY <3>1, BlockAssumption DEF SymbolOverhead
  <2>5. /\ mq' = mq /\ started' = [started EXCEPT ![v] = TRUE] /\ UNCHANGED <<raptor, zq, rq>>
        /\ UNCHANGED <<front, visit, handler, dq, crashed>>
    BY <1>1, <1>b, <2>3, <2>4 DEF Resume, dthread
  <2>6. started'[v] /\ \A w \in Visit : w # v => started'[w] = started[w]
    BY <1>0, <2>5
  <2>7. PageOK'
    <3>1. ~(v > visit)
      BY <1>b, Typed
    <3> QED BY <2>5, <2>6, <3>1 DEF Orderly, PageOK
  <2>8. WorkOK' /\ SignalsOK'
    BY <2>5 DEF Orderly, WorkOK, SignalsOK
  <2>9. LogOK'
    BY <1>a, <1>b, <2>5, <2>6 DEF LogOK
  <2> QED BY <2>5, <2>7, <2>8, <2>9 DEF Orderly
<1>2. CASE HandlePacket(v)
  <2> DEFINE e == Head(rq[v]).esi
             after == Put(sbd[v], {e})
             starts == StartsDecoding(sbd[v], {e})
             counts == after.state = INCOMPLETE /\ e \notin Held(sbd[v])
  <2>1. /\ rq' = [rq EXCEPT ![v] = Tail(@)]
        /\ raptor' = [raptor EXCEPT ![v] = IF after.state = INCOMPLETE THEN "running" ELSE "decoding"]
        /\ mq' = IF starts THEN Append(mq, ToHandler(handler, "RaptorDecodeFile")) ELSE mq
        /\ crashed' = (handler = None /\ counts)
        /\ UNCHANGED <<front, visit, handler, dq, started, zq>>
        /\ raptor[v] = "running" /\ started[v] /\ rq[v] # <<>>
    BY <1>2, <1>b DEF HandlePacket, dthread
  <2>2. starts => after.state # INCOMPLETE
    <3>1. e \in ESI
      BY <1>c, <2>1, Constants DEF RaptorMessages
    <3>2. {e} \subseteq Source \/ {e} \subseteq Repair
      BY <3>1 DEF ESI
    <3>3. sbd[v] \in Symbols
      BY <1>0
    <3> HIDE DEF e
    <3> QED BY <3>2, <3>3, StartsEnds
  <2> HIDE DEF e, after, starts, counts
  <2>3. ~crashed'
    BY <1>b, <2>1
  <2>4. /\ raptor'[v] \in Busy /\ (starts => raptor'[v] \in Over)
        /\ \A w \in Visit : w # v => raptor'[w] = raptor[w]
    BY <1>0, <2>1, <2>2 DEF Busy, Over
  <2>5. /\ \A i \in DOMAIN mq : mq[i].what = "RaptorDecodeFile" => mq[i].to # v
        /\ \A i \in DOMAIN dq[v] : dq[v][i].what # "finish"
        /\ \A i \in DOMAIN rq[v] : rq[v][i].what # "finish"
    BY <1>a, <2>1, AtWork
  <2>6. PageOK'
    <3>1. ~(v > visit)
      BY <1>b, Typed
    <3> QED BY <1>b, <2>1, <2>4, <3>1 DEF Orderly, PageOK
  <2>7. ASSUME NEW i \in DOMAIN mq'
        PROVE  \/ i \in DOMAIN mq /\ mq'[i] = mq[i]
               \/ starts /\ mq'[i].what = "RaptorDecodeFile" /\ mq'[i].to = v
    <3>1. CASE starts
      <4>1. ToHandler(handler, "RaptorDecodeFile") \in MainMessages
        BY <1>b, Messages
      <4>2. \/ i \in DOMAIN mq /\ mq'[i] = mq[i]
            \/ mq'[i] = ToHandler(handler, "RaptorDecodeFile")
        BY <1>0, <2>1, <3>1, <4>1, Appended
      <4> QED BY <1>b, <3>1, <4>2 DEF ToHandler
    <3>2. CASE ~starts
      BY <2>1, <3>2
    <3> QED BY <3>1, <3>2
  <2>8. Finishes(mq') = {}
    BY <1>b, <2>7 DEF Finishes
  <2>9. WorkOK'
    BY <1>b, <2>1, <2>8 DEF WorkOK
  <2>10. SignalsOK'
    <3>1. ASSUME NEW i \in DOMAIN mq', mq'[i].what = "RaptorDecodeFile" PROVE raptor'[mq'[i].to] \in Over
      <4>1. CASE i \in DOMAIN mq /\ mq'[i] = mq[i]
        <5>1. mq[i] \in MainMessages
          BY <1>0, <4>1
        <5>2. mq[i].to \in Visit
          BY <5>1 DEF MainMessages
        <5> QED BY <2>4, <2>5, <3>1, <4>1, <5>2 DEF Orderly, SignalsOK
      <4>2. CASE starts /\ mq'[i].to = v
        BY <2>4, <4>2
      <4> QED BY <2>7, <4>1, <4>2
    <3>2. \A w \in Visit : \A i \in DOMAIN dq'[w] : dq'[w][i].what = "finish" => raptor'[w] \in Over
      BY <2>1, <2>4, <2>5 DEF Orderly, SignalsOK
    <3>3. \A w \in Visit : \A i \in DOMAIN rq'[w] : rq'[w][i].what = "finish" => raptor'[w] \in Over
      <4>1. rq'[v] = Tail(rq[v]) /\ \A w \in Visit : w # v => rq'[w] = rq[w]
        BY <1>0, <2>1
      <4> QED BY <1>c, <2>1, <2>4, <2>5, <4>1 DEF Orderly, SignalsOK
    <3> QED BY <3>1, <3>2, <3>3 DEF SignalsOK
  <2>11. LogOK'
    BY <1>b, <2>1, <2>4 DEF LogOK
  <2> QED BY <2>3, <2>6, <2>9, <2>10, <2>11 DEF Orderly
<1>3. CASE EndDecoding(v)
  <2>1. /\ raptor' = [raptor EXCEPT ![v] = "quit"] /\ rq' = [rq EXCEPT ![v] = <<>>] /\ saved' = {}
        /\ zq' = zq \/ zq' = [zq EXCEPT ![v] = Append(@, Signal("UnZipFile"))]
        /\ UNCHANGED <<front, visit, handler, mq, dq, started, crashed>>
    BY <1>3 DEF EndDecoding, main, dthread
  <2>2. raptor'[v] = "quit" /\ \A w \in Visit : w # v => raptor'[w] = raptor[w]
    BY <1>0, <2>1
  <2>3. zq'[v] \in {<<>>, <<Signal("UnZipFile")>>} /\ \A w \in Visit : w # v => zq'[w] = zq[w]
    <3>1. Append(<<>>, Signal("UnZipFile")) = <<Signal("UnZipFile")>>
      OBVIOUS
    <3>2. CASE zq' = zq
      BY <1>b, <3>2
    <3>3. CASE zq' = [zq EXCEPT ![v] = Append(@, Signal("UnZipFile"))]
      <4>1. zq'[v] = Append(<<>>, Signal("UnZipFile")) /\ \A w \in Visit : w # v => zq'[w] = zq[w]
        BY <1>0, <1>b, <3>3
      <4> QED BY <3>1, <4>1
    <3> QED BY <2>1, <3>2, <3>3
  <2>4. rq'[v] = <<>> /\ \A w \in Visit : w # v => rq'[w] = rq[w]
    BY <1>0, <2>1
  <2>5. "quit" \in Over /\ "quit" \notin Busy /\ DOMAIN <<>> = {}
    BY DEF Over, Busy
  <2>6. PageOK'
    <3>1. ~(v > visit)
      BY <1>b, Typed
    <3> QED BY <1>b, <2>1, <2>2, <2>3, <2>5, <3>1 DEF Orderly, PageOK
  <2>7. WorkOK'
    BY <1>b, <2>1, <2>2, <2>3, <2>5 DEF WorkOK
  <2>8. SignalsOK'
    <3>1. \A w \in Visit : raptor[w] \in Over => raptor'[w] \in Over
      BY <2>2, <2>5
    <3>2. \A i \in DOMAIN mq : mq[i].to \in Visit
      <4>1. \A i \in DOMAIN mq : mq[i] \in MainMessages
        BY <1>0
      <4> QED BY <4>1 DEF MainMessages
    <3> QED BY <2>1, <2>4, <2>5, <3>1, <3>2 DEF Orderly, SignalsOK
  <2> QED BY <2>1, <2>6, <2>7, <2>8 DEF Orderly, LogOK
<1>4. CASE RaptorFinish(v)
  <2>1. raptor[v] = "running" /\ rq[v] # <<>> /\ Head(rq[v]).what = "finish"
    BY <1>4 DEF RaptorFinish
  <2>2. \A i \in DOMAIN rq[v] : rq[v][i].what # "finish"
    BY <1>a, <2>1, AtWork
  <2> QED BY <1>c, <2>1, <2>2
<1> QED BY <1>1, <1>2, <1>3, <1>4 DEF RaptorThread

\* The unzip thread has one file, which it announces to the handler that is there.
LEMMA OrderlyZip ==
  ASSUME TypeOK, Orderly, NEW v \in Visit, ZipThread(v)
  PROVE  Orderly'
<1>0. zq \in [Visit -> Seq(ZipMessages)] /\ mq \in Seq(MainMessages)
  BY Typed
<1>1. zq[v] # <<>>
  BY DEF ZipThread, UnZipFile, ZipFinish
<1>2. v = visit /\ visit # None
  BY <1>1, Constants DEF Orderly, PageOK
<1>3. handler # None /\ zq[v] = <<Signal("UnZipFile")>> /\ Finishes(mq) = {} /\ raptor[v] \notin Busy
  BY <1>1, <1>2 DEF Orderly, WorkOK
<1>4. handler \in Visit
  BY <1>2, <1>3, Typed
<1>5. Head(zq[v]) = Signal("UnZipFile") /\ Tail(zq[v]) = <<>>
  <2>1. \A x : Head(<<x>>) = x /\ Tail(<<x>>) = <<>>
    OBVIOUS
  <2> QED BY <1>3, <2>1
<1>6. ~ZipFinish(v)
  BY <1>5 DEF ZipFinish, Signal
<1>7. /\ zq' = [zq EXCEPT ![v] = Tail(@)]
      /\ UNCHANGED <<front, visit, handler, paused, dthread, rthread, crashed>>
      /\ mq' = Append(mq, ToHandler(handler, "finish")) \/ mq' = mq
  BY <1>3, <1>6 DEF ZipThread, UnZipFile, main
<1>8. zq'[v] = <<>> /\ \A w \in Visit : w # v => zq'[w] = zq[w]
  BY <1>0, <1>5, <1>7
<1>9. ASSUME NEW i \in DOMAIN mq'
      PROVE  \/ i \in DOMAIN mq /\ mq'[i] = mq[i]
             \/ i = Len(mq) + 1 /\ mq'[i].what = "finish"
  <2>1. CASE mq' = mq
    BY <2>1
  <2>2. CASE mq' = Append(mq, ToHandler(handler, "finish"))
    <3>1. ToHandler(handler, "finish") \in MainMessages
      BY <1>4, Messages
    <3>2. \/ i \in DOMAIN mq /\ mq'[i] = mq[i]
          \/ i = Len(mq) + 1 /\ mq'[i] = ToHandler(handler, "finish")
      BY <1>0, <2>2, <3>1, Appended
    <3> QED BY <3>2 DEF ToHandler
  <2> QED BY <1>7, <2>1, <2>2
<1>10. \A i \in Finishes(mq') : i = Len(mq) + 1
  BY <1>3, <1>9 DEF Finishes
<1>11. PageOK'
  BY <1>2, <1>7, <1>8 DEF Orderly, PageOK, rthread
<1>12. WorkOK'
  BY <1>2, <1>3, <1>7, <1>8, <1>10 DEF WorkOK, rthread
<1>13. SignalsOK'
  <2>1. \A i \in DOMAIN mq' : mq'[i].what = "RaptorDecodeFile" => raptor'[mq'[i].to] \in Over
    BY <1>7, <1>9 DEF Orderly, SignalsOK, rthread
  <2> QED BY <1>7, <2>1 DEF Orderly, SignalsOK, dthread, rthread
<1> QED BY <1>7, <1>11, <1>12, <1>13 DEF Orderly, LogOK, rthread

\* Every step keeps the order of a page that is never left early.
LEMMA UndisturbedNext == TypeOK /\ Undisturbed /\ [Next]_vars => Undisturbed'
<1> SUFFICES ASSUME TypeOK, Undisturbed, [Next]_vars, ~paused' PROVE Orderly'
  BY DEF Undisturbed, Orderly
<1>1. ~paused
  <2>1. CASE Pause
    BY <2>1 DEF Pause
  <2>2. CASE ~Pause
    BY <2>2 DEF Next, vars, main, Open, MainLooper, RaptorDecodeFile, TransmissionComplete, Frame,
                DecoderThread, DecodeFrame, SendToRaptorDecoder, DecoderFinish, DecoderStop,
                RaptorThread, Resume, HandlePacket, EndDecoding, RaptorFinish, ZipThread, UnZipFile,
                ZipFinish, Crash
  <2> QED BY <2>1, <2>2
<1>2. Orderly
  BY <1>1 DEF Undisturbed, Orderly
<1>3. CASE UNCHANGED vars
  BY <1>2, <1>3 DEF Orderly, PageOK, WorkOK, SignalsOK, LogOK, Finishes, vars, main, dthread, rthread
<1> QED BY <1>2, <1>3, OrderlyOpen, OrderlyMain, OrderlyDecoder, OrderlyRaptor, OrderlyZip DEF Next

\* The inductive invariant: until a page is left early, handler, threads and queues of the
\* last page are in step with its reception, and no earlier page has anything left to do.
THEOREM PagesInOrder == Spec => []IInv
<1>1. Init => IInv
  BY TypesInit, OrderlyInit DEF IInv, Undisturbed, Orderly
<1>2. IInv /\ [Next]_vars => IInv'
  BY TypesNext, UndisturbedNext DEF IInv
<1> QED BY <1>1, <1>2, PTL DEF Spec

\* A page that is never left early does not bring the process down: a signal to finish never
\* reaches a thread that would act on it, and no reply finds the activity without a handler.
THEOREM NoCrashHolds == Spec => []NoCrashOnUndisturbedPage
<1>1. IInv => NoCrashOnUndisturbedPage
  BY DEF IInv, Undisturbed, NoCrashOnUndisturbedPage
<1> QED BY PagesInOrder, <1>1, PTL

\* On such a page there is one RaptorQ thread at work at most, and one writer of a log.
THEOREM OneReceiverHolds == Spec => []OneReceiver
<1>1. IInv => OneReceiver
  BY DEF IInv, Undisturbed, PageOK, OneReceiver, Busy
<1> QED BY PagesInOrder, <1>1, PTL
=============================================================================
