-------------------------- MODULE PictureVideoProofs --------------------------
(***************************************************************************)
(* From the file to the frames, for every length, symbol size, K_max and   *)
(* number of failures: how a file is cut up; that a run of FFmpeg is only  *)
(* failed for errors of its own; the types, with the range of numbers that *)
(* FFmpeg finds; that each picture is in its place; and that nothing is    *)
(* lost when nothing fails.                                                *)
(***************************************************************************)
EXTENDS PictureVideo, WellFoundedInduction, TLAPS

-----------------------------------------------------------------------------
(* How a file is cut up.                                                   *)

\* The quotient q of a by b is known from q * b <= a < (q + 1) * b.
LEMMA DivFacts ==
  ASSUME NEW a \in Nat, NEW b \in Nat \ {0}
  PROVE  a \div b \in Nat /\ b * (a \div b) <= a /\ a < b * (a \div b) + b
OBVIOUS

\* ... which bounds determine it.
LEMMA DivUnique ==
  ASSUME NEW a \in Nat, NEW b \in Nat \ {0}, NEW q \in Nat, b * q <= a, a < b * q + b
  PROVE  a \div b = q
OBVIOUS

\* A multiple of b below another one and b is no greater than it.
LEMMA LessTimes ==
  ASSUME NEW b \in Nat \ {0}, NEW x \in Nat, NEW y \in Nat, b * x < b * y + b
  PROVE  x <= y
OBVIOUS

\* ceilDiv rounds up.
LEMMA CeilDivFacts ==
  ASSUME NEW a \in Nat, NEW b \in Nat \ {0}
  PROVE  CeilDiv(a, b) \in Nat /\ a <= b * CeilDiv(a, b) /\ b * CeilDiv(a, b) < a + b
<1>1. a + (b - 1) \in Nat
  OBVIOUS
<1> QED BY <1>1, DivFacts DEF CeilDiv

\* ... to a number that is as small as it can be.
LEMMA CeilDivLeast ==
  ASSUME NEW a \in Nat, NEW b \in Nat \ {0}, NEW c \in Nat, a <= b * c
  PROVE  CeilDiv(a, b) <= c
<1> DEFINE d == CeilDiv(a, b)
<1>1. d \in Nat /\ b * d < a + b
  BY CeilDivFacts
<1> HIDE DEF d
<1>2. b * d \in Int /\ b * c \in Int
  BY <1>1
<1>3. b * d < b * c + b
  BY <1>1, <1>2
<1>4. d <= c
  BY <1>1, <1>3, LessTimes
<1> QED BY <1>4 DEF d

\* The parts of a partition add up to the whole, and differ by one at most (Partition).
THEOREM PartitionIsComplete ==
  ASSUME NEW I \in Nat, NEW J \in Nat \ {0}
  PROVE  LET p == Partition(I, J)
         IN /\ p.JL \in 0 .. J - 1 /\ p.JL + p.JS = J
            /\ p.JL * p.IL + p.JS * p.IS = I
            /\ p.IS <= p.IL /\ p.IL <= p.IS + 1
<1> DEFINE q == I \div J
           r == I - q * J
<1>1. q \in Nat /\ r \in 0 .. J - 1 /\ I = q * J + r
  BY DivFacts
<1>2. CASE r = 0
  <2>1. CeilDiv(I, J) = q
    <3>1. /\ I + (J - 1) \in Nat /\ J * q <= I + (J - 1) /\ I + (J - 1) < J * q + J
      BY <1>1, <1>2
    <3> QED BY <1>1, <3>1, DivUnique DEF CeilDiv
  <2>2. 0 * q + J * q = I
    BY <1>1, <1>2
  <2> QED BY <1>1, <1>2, <2>1, <2>2 DEF Partition
<1>3. CASE r # 0
  <2>1. CeilDiv(I, J) = q + 1
    <3>1. /\ I + (J - 1) \in Nat /\ q + 1 \in Nat
          /\ J * (q + 1) <= I + (J - 1) /\ I + (J - 1) < J * (q + 1) + J
      BY <1>1, <1>3
    <3>2. (I + (J - 1)) \div J = q + 1
      BY <3>1, DivUnique
    <3> QED BY <3>2 DEF CeilDiv
  <2>2. r * (q + 1) + (J - r) * q = I
    BY <1>1
  <2> QED BY <1>1, <2>1, <2>2 DEF Partition
<1> QED BY <1>2, <1>3

\* Every block has a symbol, and none has more than K_max (here M): with the fewest blocks that
\* minAllowedNumSourceBlocks allows, getK is the size of a block that can be encoded.
THEOREM BlocksFit ==
  ASSUME NEW F \in Nat \ {0}, NEW S \in Nat \ {0}, NEW M \in Nat \ {0},
         NEW sbn \in 0 .. MinAllowedNumSourceBlocks(F, S, M) - 1
  PROVE  GetK(F, S, MinAllowedNumSourceBlocks(F, S, M), sbn) \in 1 .. M
<1> DEFINE N == TotalSymbols(F, S)
           Z == MinAllowedNumSourceBlocks(F, S, M)
           p == Partition(N, Z)
<1>1. N \in Nat \ {0}
  <2>1. N \in Nat /\ F <= S * N
    BY CeilDivFacts DEF TotalSymbols
  <2> QED BY <2>1
<1> HIDE DEF N
<1>2. Z \in Nat \ {0} /\ N <= M * Z /\ Z <= N
  <2>1. CeilDiv(N, M) \in Nat /\ N <= M * CeilDiv(N, M)
    BY <1>1, CeilDivFacts
  <2>2. CeilDiv(N, M) <= N
    <3>1. N <= M * N
      BY <1>1
    <3> QED BY <1>1, <3>1, CeilDivLeast
  <2>3. Z = CeilDiv(N, M) /\ Z >= 1
    <3>1. CeilDiv(N, M) >= 1
      BY <1>1, <2>1
    <3> QED BY <2>1, <3>1 DEF MinAllowedNumSourceBlocks, N
  <2> QED BY <2>1, <2>2, <2>3
<1> HIDE DEF Z
<1>3. p.IS \in Nat /\ p.IS >= 1
  <2>1. N \div Z \in Nat /\ N < Z * (N \div Z) + Z
    BY <1>1, <1>2, DivFacts
  <2>2. Z * 1 < Z * (N \div Z) + Z
    <3>1. Z * 1 <= N /\ Z * (N \div Z) \in Int
      BY <1>1, <1>2, <2>1
    <3> QED BY <1>1, <1>2, <2>1, <3>1
  <2>3. 1 <= N \div Z
    BY <1>2, <2>1, <2>2, LessTimes
  <2> QED BY <2>1, <2>3 DEF Partition
<1>4. p.IL \in Nat /\ p.IL <= M /\ p.IS <= p.IL
  <2>1. CeilDiv(N, Z) \in Nat /\ CeilDiv(N, Z) <= M
    <3>1. N <= Z * M
      BY <1>2
    <3> QED BY <1>1, <1>2, <3>1, CeilDivFacts, CeilDivLeast
  <2>2. p.IS <= p.IL
    BY <1>1, <1>2, PartitionIsComplete
  <2> QED BY <2>1, <2>2 DEF Partition
<1>5. GetK(F, S, Z, sbn) \in {p.IS, p.IL}
  BY DEF GetK, N
<1>6. GetK(F, S, Z, sbn) \in 1 .. M
  BY <1>3, <1>4, <1>5
<1> QED BY <1>6 DEF Z

-----------------------------------------------------------------------------
(* The rate of errors.                                                     *)

\* Not more than two thirds of e could not be decoded.
Acceptable(e) == e.bad <= 2 * e.good

\* What was counted before this run.
Before == [good |-> errors.good - own.good, bad |-> errors.bad - own.bad]

\* The counts, and the earlier runs', are natural numbers.
CountsOK == errors \in Counts /\ own \in Counts /\ Before \in Counts

\* Every run before this one ended with an acceptable rate over all runs up to then.
BeforeOK == stage # "crashed" => Acceptable(Before)

\* Between two runs the whole count is acceptable, and before the first picture is read this
\* run has counted nothing.
StageOK ==
  /\ stage \in {"resetting", "played"} => Acceptable(errors)
  /\ stage \in {"idle", "drawing", "notDrawn", "opening"} => own = [good |-> 0, bad |-> 0]
  /\ stage = "exiting" => (IF globals = "freed" THEN ~Acceptable(own) ELSE Acceptable(errors))

\* While pictures are made into frames, and after it, the files are open: exit_program will
\* free them.
OpenOK == stage \in {"reading", "flushing", "rating"} => globals = "open"

IInv == CountsOK /\ BeforeOK /\ StageOK /\ OpenOK

-----------------------------------------------------------------------------
\* The test of jxRun in whole numbers.
LEMMA TooManyErrorsMeans ==
  ASSUME NEW e \in Counts
  PROVE  TooManyErrors(e) <=> ~Acceptable(e)
BY DEF TooManyErrors, Acceptable, Counts

\* If what came before is acceptable and the whole is not, then this run's part is not:
\* a ratio above the bound needs a summand above it.
LEMMA BlameIsOwn ==
  ASSUME CountsOK, Acceptable(Before), ~Acceptable(errors)
  PROVE  ~Acceptable(own)
BY DEF CountsOK, Acceptable, Before, Counts

\* Before the first video nothing is counted,
LEMMA InitIInv == Init => IInv
BY DEF Init, IInv, CountsOK, BeforeOK, StageOK, OpenOK, Acceptable, Before, Counts

\* A step that leaves the counts alone.
LEMMA CountsStay ==
  ASSUME IInv, UNCHANGED <<errors, own>>
  PROVE  CountsOK' /\ Before' = Before /\ Acceptable(errors)' = Acceptable(errors)
         /\ Acceptable(own)' = Acceptable(own)
BY DEF IInv, CountsOK, Before, Acceptable

\* Most steps go on to a stage that asks nothing.
LEMMA PlainStep ==
  ASSUME IInv, UNCHANGED <<errors, own>>, stage # "crashed",
         stage' \in {"crashed", "reading", "flushing", "rating"},
         stage' # "crashed" => globals' = "open"
  PROVE  IInv'
BY CountsStay DEF IInv, BeforeOK, StageOK, OpenOK, Acceptable

\* drawing counts nothing,
LEMMA DrawKeepsIInv ==
  ASSUME IInv, Draw
  PROVE  IInv'
<1>1. CASE StartVideo
  <2>1. /\ errors' = errors /\ own' = [good |-> 0, bad |-> 0] /\ stage' = "drawing"
        /\ stage \in {"idle", "played", "notDrawn"}
    BY <1>1 DEF StartVideo
  <2>2. Acceptable(errors)
    BY <2>1 DEF IInv, CountsOK, BeforeOK, StageOK, Before, Acceptable, Counts
  <2>3. CountsOK' /\ Acceptable(Before)'
    BY <2>1, <2>2 DEF IInv, CountsOK, Before, Acceptable, Counts
  <2> QED BY <2>1, <2>3 DEF IInv, BeforeOK, StageOK, OpenOK
<1>2. ASSUME DrawPicture \/ DrawNothing PROVE IInv'
  <2>1. UNCHANGED <<errors, own>> /\ stage = "drawing"
        /\ stage' \in {"drawing", "notDrawn", "opening"}
    BY <1>2 DEF DrawPicture, DrawNothing, NextPicture
  <2> QED BY <2>1, CountsStay DEF IInv, BeforeOK, StageOK, OpenOK, Acceptable
<1> QED BY <1>1, <1>2 DEF Draw

\* a picture is counted for this run and for the process alike,
LEMMA TranscodeKeepsIInv ==
  ASSUME IInv, Transcode
  PROVE  IInv'
<1>1. CASE Open
  <2>1. UNCHANGED <<errors, own>> /\ stage = "opening" /\ stage' \in {"crashed", "reading"}
        /\ (stage' # "crashed" => globals' = "open")
    BY <1>1 DEF Open, Crash
  <2> QED BY <2>1, PlainStep
<1>2. CASE ReadPicture
  <2>1. /\ stage = "reading" /\ stage' = "reading" /\ globals' = globals
        /\ \/ /\ errors' = [errors EXCEPT !.good = @ + 1]
              /\ own' = [own EXCEPT !.good = @ + 1]
           \/ /\ errors' = [errors EXCEPT !.bad = @ + 1]
              /\ own' = [own EXCEPT !.bad = @ + 1]
    BY <1>2 DEF ReadPicture
  <2>2. Before' = Before /\ CountsOK'
    BY <2>1 DEF IInv, CountsOK, Before, Counts
  <2> QED BY <2>1, <2>2 DEF IInv, BeforeOK, StageOK, OpenOK, Acceptable
<1>3. ASSUME EndOfPictures \/ StopReading \/ FlushEncoders PROVE IInv'
  <2>1. UNCHANGED <<errors, own>> /\ stage \in {"reading", "flushing"}
        /\ stage' \in {"flushing", "rating"} /\ globals' = "open"
    BY <1>3 DEF EndOfPictures, StopReading, FlushEncoders, IInv, OpenOK
  <2> QED BY <2>1, PlainStep
<1> QED BY <1>1, <1>2, <1>3 DEF Transcode

\* exit_program frees what is open, and ends the process when it is run a second time.
LEMMA ExitProgramMeans ==
  ASSUME NEW to, ExitProgram(to)
  PROVE  /\ UNCHANGED <<errors, own>>
         /\ \/ globals = "freed" /\ stage' = "crashed"
            \/ globals = "open" /\ globals' = "freed" /\ stage' = to
            \/ globals \notin {"open", "freed"} /\ globals' = globals /\ stage' = to
BY DEF ExitProgram, Crash

\* a run with too many errors does not survive its two clean-ups,
LEMMA LeaveKeepsIInv ==
  ASSUME IInv, Leave
  PROVE  IInv'
<1>1. CASE RateErrors
  <2>1. /\ stage = "rating" /\ globals = "open" /\ errors \in Counts
        /\ CountsOK /\ Acceptable(Before)
    BY <1>1 DEF RateErrors, IInv, CountsOK, BeforeOK, OpenOK
  <2>2. CASE TooManyErrors(errors)
    <3>1. ExitProgram("exiting") /\ ~Acceptable(own)
      BY <1>1, <2>1, <2>2, TooManyErrorsMeans, BlameIsOwn DEF RateErrors
    <3>2. UNCHANGED <<errors, own>> /\ globals' = "freed" /\ stage' = "exiting"
      BY <2>1, <3>1, ExitProgramMeans
    <3> QED BY <2>1, <3>1, <3>2, CountsStay DEF IInv, BeforeOK, StageOK, OpenOK, Acceptable
  <2>3. CASE ~TooManyErrors(errors)
    <3>1. /\ Acceptable(errors) /\ stage' = "exiting" /\ UNCHANGED <<errors, own>>
          /\ globals' # "freed"
      BY <1>1, <2>1, <2>3, TooManyErrorsMeans DEF RateErrors
    <3> QED BY <2>1, <3>1, CountsStay DEF IInv, BeforeOK, StageOK, OpenOK, Acceptable
  <2> QED BY <2>2, <2>3
<1>2. CASE Exit
  <2>1. stage = "exiting" /\ ExitProgram("resetting")
    BY <1>2 DEF Exit
  <2>2. CASE globals = "freed"
    BY <2>1, <2>2, ExitProgramMeans, PlainStep
  <2>3. CASE globals # "freed"
    <3>1. UNCHANGED <<errors, own>> /\ stage' = "resetting"
      BY <2>1, <2>3, ExitProgramMeans
    <3> QED BY <2>1, <2>3, <3>1, CountsStay DEF IInv, BeforeOK, StageOK, OpenOK, Acceptable
  <2> QED BY <2>2, <2>3
<1>3. CASE Reset
  <2>1. stage = "resetting" /\ stage' = "played" /\ UNCHANGED <<errors, own>>
    BY <1>3 DEF Reset
  <2> QED BY <2>1, CountsStay DEF IInv, BeforeOK, StageOK, OpenOK, Acceptable
<1> QED BY <1>1, <1>2, <1>3 DEF Leave

\* and so every step keeps the invariant.
LEMMA NextKeepsIInv == IInv /\ [Next]_vars => IInv'
<1> SUFFICES ASSUME IInv, [Next]_vars PROVE IInv'
  OBVIOUS
<1>1. CASE Next
  BY <1>1, DrawKeepsIInv, TranscodeKeepsIInv, LeaveKeepsIInv DEF Next
<1>2. CASE UNCHANGED vars
  BY <1>2, CountsStay DEF vars, IInv, BeforeOK, StageOK, OpenOK, Acceptable
<1> QED BY <1>1, <1>2

-----------------------------------------------------------------------------
\* A run that is failed for its rate of errors has such a rate of its own, in every process
\* and for every length, symbol size and number of failures (decode_error_stat is static and
\* is never set back).
THEOREM BlamedForOwnErrors == Spec => []BlamesOwnErrors
<1>1. IInv => BlamesOwnErrors
  BY DEF IInv, CountsOK, StageOK, Acceptable, BlamesOwnErrors, Counts
<1> QED BY InitIInv, NextKeepsIInv, <1>1, PTL DEF Spec

-----------------------------------------------------------------------------
(* Numbers and sequences.                                                  *)

\* A set of natural numbers that is not empty has a least element,
LEMMA LeastNumber ==
  ASSUME NEW S \in SUBSET Nat, S # {}
  PROVE  \E x \in S : \A y \in S : x <= y
<1>1. IsWellFoundedOn(OpToRel(<, Nat), Nat)
  BY NatLessThanWellFounded
<1>2. PICK x \in S : \A y \in S : ~ (<<y, x>> \in OpToRel(<, Nat))
  BY <1>1, WFMin
<1>3. ASSUME NEW y \in S PROVE x <= y
  <2>1. ~ (<<y, x>> \in OpToRel(<, Nat))
    BY <1>2
  <2>2. ~ (y < x)
    BY <2>1 DEF OpToRel
  <2> QED BY <2>2
<1> QED BY <1>3

\* and one without numbers above m has a greatest one.
LEMMA GreatestNumber ==
  ASSUME NEW m \in Nat, NEW S \in SUBSET (1 .. m), S # {}
  PROVE  Greatest(S) \in S /\ \A y \in S : Greatest(S) >= y
<1> DEFINE R == {k \in Nat : m - k \in S}
<1>1. \A y \in S : m - y \in R /\ m - (m - y) = y
  OBVIOUS
<1>2. R # {} /\ R \in SUBSET Nat
  BY <1>1
<1>3. PICK x \in R : \A k \in R : x <= k
  BY <1>2, LeastNumber
<1>4. m - x \in S /\ \A y \in S : m - x >= y
  BY <1>1, <1>3
<1> QED BY <1>4 DEF Greatest

\* The least number of a set of natural numbers is in it.
LEMMA LeastIs ==
  ASSUME NEW S \in SUBSET Nat, S # {}
  PROVE  Least(S) \in S /\ \A y \in S : Least(S) <= y
<1>1. \E x \in S : \A y \in S : x <= y
  BY LeastNumber
<1> QED BY <1>1 DEF Least

\* The elements of a sequence that was put together.
LEMMA Joined ==
  ASSUME NEW S, NEW s \in Seq(S), NEW t \in Seq(S)
  PROVE  /\ s \o t \in Seq(S) /\ Len(s \o t) = Len(s) + Len(t)
         /\ \A i \in DOMAIN s : i \in DOMAIN (s \o t) /\ (s \o t)[i] = s[i]
         /\ \A i \in DOMAIN t : Len(s) + i \in DOMAIN (s \o t) /\ (s \o t)[Len(s) + i] = t[i]
         /\ \A i \in DOMAIN (s \o t) : i \in DOMAIN s \/ i - Len(s) \in DOMAIN t
OBVIOUS

-----------------------------------------------------------------------------
(* Types.                                                                  *)

\* What the encoder, the stages, the reading side and the output keep.
Frame == [slot : Nat, shows : Pictures]
Faults == [clean : BOOLEAN, count : 0 .. MaxFaults]

EncoderTypes ==
  /\ video \in 0 .. MaxVideos
  /\ length \in Nat \ {0} /\ symbols \in {"fit", "tooLarge", "tooLargeForColour"}
  /\ block \in 0 .. Blocks - 1 /\ next \in 1 .. PicturesOf(block)
  /\ DOMAIN disk \subseteq 1 .. 2 * KMax + 1 /\ \A n \in DOMAIN disk : disk[n] \in Pictures

StageTypes ==
  /\ stage \in {"idle", "drawing", "notDrawn", "opening", "reading", "flushing", "rating",
               "exiting", "resetting", "played", "crashed"}
  /\ globals \in {"closed", "open", "freed"}

InputTypes ==
  /\ img \in 0 .. 2 * KMax + 2 /\ last \in 0 .. 2 * KMax + 1 /\ pts \in Nat
  /\ errors \in Counts /\ own \in Counts

OutputTypes ==
  /\ sync \in Nat /\ frames \in Seq(Frame) /\ lastFrame \in Pictures \cup {NoPicture}
  /\ nb0 \in Nat \X Nat \X Nat
  /\ written \in 0 .. Len(frames) /\ muxing \in BOOLEAN /\ faults \in Faults

Typed == EncoderTypes /\ StageTypes /\ InputTypes /\ OutputTypes

\* These are the types of the specification.
LEMMA TypedIsTypeOK == Typed => TypeOK
<1> SUFFICES ASSUME Typed PROVE TypeOK
  OBVIOUS
<1>1. \A i \in DOMAIN frames : frames[i].slot \in Nat /\ frames[i].shows \in Pictures
  <2>1. frames \in Seq(Frame)
    BY DEF Typed, OutputTypes
  <2>2. \A i \in DOMAIN frames : frames[i] \in Frame
    BY <2>1
  <2> QED BY <2>2 DEF Frame
<1>2. \A i \in 1 .. 3 : nb0[i] \in Nat
  BY DEF Typed, OutputTypes
<1> QED BY <1>1, <1>2 DEF Typed, TypeOK, EncoderTypes, StageTypes, InputTypes, OutputTypes, Faults

-----------------------------------------------------------------------------
(* The range of numbers.                                                   *)

\* No number is greater: a block has at most KMax source packets.
Most == 2 * KMax + 1

\* A file of n bytes has a block, and each block a packet and not too many.
LEMMA CutUp ==
  ASSUME NEW n \in Nat \ {0}
  PROVE  /\ MinAllowedNumSourceBlocks(n, T, KMax) \in Nat \ {0}
         /\ \A b \in 0 .. MinAllowedNumSourceBlocks(n, T, KMax) - 1 :
              GetK(n, T, MinAllowedNumSourceBlocks(n, T, KMax), b) \in 1 .. KMax
<1>1. T \in Nat \ {0} /\ KMax \in Nat \ {0}
  BY VideoAssumption
<1>2. TotalSymbols(n, T) \in Nat
  BY <1>1, CeilDivFacts DEF TotalSymbols
<1>3. CeilDiv(TotalSymbols(n, T), KMax) \in Nat
  BY <1>1, <1>2, CeilDivFacts
<1> QED BY <1>1, <1>3, BlocksFit DEF MinAllowedNumSourceBlocks

\* So each block has three pictures at least and not too many,
LEMMA Sizes ==
  ASSUME length \in Nat \ {0}
  PROVE  /\ Blocks \in Nat \ {0} /\ Most \in Nat
         /\ \A b \in 0 .. Blocks - 1 :
              K(b) \in Nat /\ PicturesOf(b) \in 3 .. Most /\ K(b) + 1 <= PicturesOf(b)
<1>1. Blocks \in Nat \ {0} /\ \A b \in 0 .. Blocks - 1 : K(b) \in 1 .. KMax
  BY CutUp DEF Blocks, K
<1> QED BY <1>1, VideoAssumption DEF PicturesOf, Most

\* also of the next file.
LEMMA SizesAfter ==
  ASSUME length' \in Nat \ {0}, block' = 0
  PROVE  Blocks' \in Nat \ {0} /\ PicturesOf(block)' \in 3 .. Most
<1>1. Blocks' \in Nat \ {0} /\ K(block)' \in 1 .. KMax
  BY CutUp DEF Blocks, K
<1>2. PicturesOf(block)' = K(block)' + (K(block)' + 1)
  BY DEF PicturesOf
<1> QED BY <1>1, <1>2, VideoAssumption DEF Most

\* Doubling the distance ends at a picture, and only where the next one is missing does it
\* not get away.
LEMMA JumpFacts ==
  ASSUME DOMAIN disk \subseteq 1 .. Most, NEW n \in Nat
  PROVE  /\ Jump(n) \in Nat
         /\ Jump(n) # 0 => n + Jump(n) \in DOMAIN disk
         /\ Jump(n) = 0 => n + 1 \notin DOMAIN disk
<1> DEFINE S == {d \in Powers : \A e \in Powers : e <= d => Exists(n + e)}
<1>1. Powers \subseteq 1 .. Most /\ Most \in Nat /\ KMax \in Nat /\ Most >= 1
  BY VideoAssumption DEF Powers, Most
<1>2. 1 \in Powers
  <2>1. 1 = 2 ^ 0 /\ 0 \in 0 .. KMax + 1 /\ 1 \in 1 .. 2 * KMax + 1
    BY <1>1 DEF Most
  <2> QED BY <2>1 DEF Powers
<1>3. Jump(n) = IF S = {} THEN 0 ELSE Greatest(S)
  BY DEF Jump
<1>4. CASE S = {}
  <2>1. \A e \in Powers : e <= 1 => e = 1
    BY <1>1
  <2>2. ~Exists(n + 1)
    BY <1>2, <1>4, <2>1
  <2> QED BY <1>3, <1>4, <2>2 DEF Exists
<1>5. CASE S # {}
  <2>1. S \in SUBSET (1 .. Most)
    BY <1>1
  <2> DEFINE g == Greatest(S)
  <2>2. g \in S
    BY <1>1, <1>5, <2>1, GreatestNumber
  <2> HIDE DEF g
  <2>3. g \in 1 .. Most /\ g <= g
    BY <1>1, <2>1, <2>2
  <2>4. Exists(n + g)
    BY <2>2, <2>3
  <2> QED BY <1>3, <1>5, <2>3, <2>4 DEF Exists, g
<1> QED BY <1>4, <1>5

\* LastIndex is a recursive function; that there is one is shown from the last number down.
Onward(g, n) == IF Jump(n) = 0 THEN n ELSE g[n + Jump(n)]

LastFrom == CHOOSE g : g = [n \in Nat |-> Onward(g, n)]

\* There is a function of the numbers that ranges as it should from Most - k on.
LEMMA RangesFrom ==
  ASSUME DOMAIN disk \subseteq 1 .. Most, NEW k \in Nat
  PROVE  \E g : g = [n \in {n \in Nat : n >= Most - k} |-> Onward(g, n)]
<1> DEFINE Upper(j) == {n \in Nat : n >= Most - j}
           Good(j) == \E g : g = [n \in Upper(j) |-> Onward(g, n)]
           Bad == {j \in Nat : ~Good(j)}
<1> HIDE DEF Good
<1>0. Most \in Nat
  BY VideoAssumption DEF Most
<1>1. \A n \in Nat : Jump(n) \in Nat /\ (Jump(n) # 0 => n + Jump(n) <= Most)
  BY JumpFacts, <1>0
<1>2. Good(0)
  <2> DEFINE g == [n \in Upper(0) |-> n]
  <2>1. \A n \in Upper(0) : Jump(n) = 0
    BY <1>0, <1>1
  <2>2. \A n \in Upper(0) : Onward(g, n) = n
    BY <2>1 DEF Onward
  <2>3. g = [n \in Upper(0) |-> Onward(g, n)]
    BY <2>2
  <2> QED BY <2>3 DEF Good
<1>3. ASSUME NEW j \in Nat, Good(j) PROVE Good(j + 1)
  <2>1. PICK g : g = [n \in Upper(j) |-> Onward(g, n)]
    BY <1>3 DEF Good
  <2> DEFINE h == [n \in Upper(j + 1) |-> Onward(g, n)]
  <2>2. ASSUME NEW n \in Upper(j + 1) PROVE Onward(g, n) = Onward(h, n)
    <3>1. CASE Jump(n) = 0
      BY <3>1 DEF Onward
    <3>2. CASE Jump(n) # 0
      <4> DEFINE m == n + Jump(n)
      <4>1. m \in Upper(j) /\ m \in Upper(j + 1)
        BY <1>0, <1>1, <3>2
      <4> HIDE DEF m
      <4>2. g[m] = Onward(g, m) /\ h[m] = Onward(g, m)
        BY <2>1, <4>1
      <4> HIDE DEF h
      <4>3. Onward(g, n) = g[m] /\ Onward(h, n) = h[m]
        BY <3>2 DEF Onward, m
      <4> QED BY <4>2, <4>3
    <3> QED BY <3>1, <3>2
  <2>3. h = [n \in Upper(j + 1) |-> Onward(h, n)]
    BY <2>2
  <2> QED BY <2>3 DEF Good
<1>4. Bad = {}
  <2> SUFFICES ASSUME Bad # {} PROVE FALSE
    OBVIOUS
  <2>1. PICK j \in Bad : \A i \in Bad : j <= i
    BY LeastNumber
  <2>2. j \in Nat /\ ~Good(j) /\ j # 0
    BY <1>2, <2>1
  <2>3. j - 1 \in Nat /\ j - 1 \notin Bad
    BY <2>1, <2>2
  <2>4. Good(j - 1) /\ (j - 1) + 1 = j
    BY <2>2, <2>3
  <2> QED BY <1>3, <2>2, <2>3, <2>4
<1> QED BY <1>4 DEF Good

\* The recursion is what its definition says.
LEMMA RangeFacts ==
  ASSUME DOMAIN disk \subseteq 1 .. Most, NEW n \in Nat
  PROVE  LastFrom[n] = Onward(LastFrom, n)
<1>0. Most \in Nat
  BY VideoAssumption DEF Most
<1>1. {i \in Nat : i >= Most - Most} = Nat
  BY <1>0
<1>2. PICK g : g = [i \in {i \in Nat : i >= Most - Most} |-> Onward(g, i)]
  BY <1>0, RangesFrom
<1>3. g = [i \in Nat |-> Onward(g, i)]
  BY <1>1, <1>2, Zenon
<1>4. LastFrom = [i \in Nat |-> Onward(LastFrom, i)]
  BY <1>3 DEF LastFrom
<1> QED BY <1>4

\* The range that starts at a picture ends at a picture behind which the next one is missing.
LEMMA LastIndexFacts ==
  ASSUME DOMAIN disk \subseteq 1 .. Most, NEW first \in DOMAIN disk
  PROVE  LastIndex(first) \in DOMAIN disk /\ LastIndex(first) + 1 \notin DOMAIN disk
<1> DEFINE Ends(n) == LastFrom[n] \in DOMAIN disk /\ LastFrom[n] + 1 \notin DOMAIN disk
           Bad == {k \in Nat : Most - k \in DOMAIN disk /\ ~Ends(Most - k)}
<1>0. Most \in Nat /\ DOMAIN disk \subseteq Nat
  BY VideoAssumption DEF Most
<1>1. Bad = {}
  <2> SUFFICES ASSUME Bad # {} PROVE FALSE
    OBVIOUS
  <2>1. PICK k \in Bad : \A i \in Bad : k <= i
    BY LeastNumber
  <2> DEFINE n == Most - k
  <2>2. n \in DOMAIN disk /\ n \in Nat /\ ~Ends(n) /\ k \in Nat
    BY <1>0, <2>1
  <2>3. LastFrom[n] = IF Jump(n) = 0 THEN n ELSE LastFrom[n + Jump(n)]
    BY <2>2, RangeFacts DEF Onward
  <2>4. CASE Jump(n) = 0
    BY <2>2, <2>3, <2>4, JumpFacts
  <2>5. CASE Jump(n) # 0
    <3> DEFINE m == n + Jump(n)
    <3>1. Jump(n) \in Nat /\ m \in DOMAIN disk
      BY <2>2, <2>5, JumpFacts
    <3>2. Most - m \in Nat /\ Most - m < k /\ Most - (Most - m) = m
      BY <1>0, <2>2, <2>5, <3>1
    <3>3. Most - m \notin Bad
      BY <2>1, <2>2, <3>2
    <3>4. Ends(m)
      BY <3>1, <3>2, <3>3
    <3> QED BY <2>2, <2>3, <2>5, <3>4
  <2> QED BY <2>4, <2>5
<1>2. Most - first \in Nat /\ Most - (Most - first) = first
  BY <1>0
<1>3. Ends(first)
  BY <1>1, <1>2
<1>4. LastIndex(first) = LastFrom[first]
  BY DEF LastIndex, LastFrom, Onward
<1> QED BY <1>3, <1>4

-----------------------------------------------------------------------------
(* Frames.                                                                 *)

\* A picture that begins d slots behind gets d + 1 frames, the last of which shows it.
LEMMA FramesForFacts ==
  ASSUME NEW d \in Int
  PROVE  /\ FramesFor(d, d + 1).nb \in Nat /\ FramesFor(d, d + 1).prev \in Nat
         /\ d \in Nat => FramesFor(d, d + 1).nb = d + 1 /\ FramesFor(d, d + 1).prev <= d
<1> DEFINE nb == IF 10 * (d + 1) < -11 THEN 0 ELSE IF 10 * (d + 1) > 11 THEN d + 1 ELSE 1
           prev == IF 10 * (d + 1) > 11 /\ 10 * d > 11 THEN Round(10 * d - 6) ELSE 0
<1>1. FramesFor(d, d + 1) = [nb |-> nb, prev |-> SmallerOf(prev, nb)]
  BY DEF FramesFor
<1>2. nb \in Nat /\ (d \in Nat => nb = d + 1)
  OBVIOUS
<1>3. prev \in Nat /\ (d \in Nat => prev <= d)
  <2>1. CASE d >= 2
    <3>1. (10 * d - 6 + 5) \div 10 \in Nat /\ (10 * d - 6 + 5) \div 10 <= d
      BY <2>1
    <3> QED BY <2>1, <3>1 DEF Round
  <2>2. CASE d < 2
    BY <2>2
  <2> QED BY <2>1, <2>2
<1> HIDE DEF nb, prev
<1> QED BY <1>1, <1>2, <1>3 DEF SmallerOf

\* Repeated frames take consecutive slots, and show the new picture but for the first prev.
LEMMA RepeatFacts ==
  ASSUME NEW slot \in Nat, NEW nb \in Nat, NEW prev \in Nat, NEW x \in Pictures,
         lastFrame \in Pictures \cup {NoPicture}
  PROVE  /\ Repeat(slot, nb, prev, x) \in Seq(Frame) /\ Len(Repeat(slot, nb, prev, x)) = nb
         /\ DOMAIN Repeat(slot, nb, prev, x) = 1 .. nb
         /\ \A i \in 1 .. nb : Repeat(slot, nb, prev, x)[i].slot = slot + i - 1
         /\ \A i \in 1 .. nb : i > prev => Repeat(slot, nb, prev, x)[i].shows = x
<1> DEFINE f(i) == [slot |-> slot + i - 1,
                    shows |-> IF i <= prev /\ lastFrame # NoPicture THEN lastFrame ELSE x]
           r == [i \in 1 .. nb |-> f(i)]
<1>1. Repeat(slot, nb, prev, x) = r
  BY DEF Repeat
<1>2. ASSUME NEW i \in 1 .. nb PROVE f(i) \in Frame
  BY <1>2 DEF Frame
<1>3. /\ \A i \in 1 .. nb : f(i).slot = slot + i - 1
      /\ \A i \in 1 .. nb : i > prev => f(i).shows = x
  OBVIOUS
<1> HIDE DEF f
<1>4. r \in Seq(Frame) /\ Len(r) = nb /\ DOMAIN r = 1 .. nb /\ \A i \in 1 .. nb : r[i] = f(i)
  BY <1>2
<1> QED BY <1>1, <1>3, <1>4

\* What is written are frames of the video; a write that fails is a failure.
LEMMA WriteFacts ==
  ASSUME OutputTypes, NEW ready \in Int, WriteFrames(ready),
         Len(frames') \in Nat, Len(frames) <= Len(frames'), ready <= Len(frames')
  PROVE  /\ written' \in 0 .. Len(frames') /\ muxing' \in BOOLEAN /\ faults' \in Faults
         /\ faults'.clean => faults.clean
         /\ faults'.clean /\ muxing => muxing' /\ written' = IF ready > written THEN ready ELSE written
<1>1. /\ written \in 0 .. Len(frames) /\ muxing \in BOOLEAN /\ faults \in Faults /\ Len(frames) \in Nat
  BY DEF OutputTypes
<1>2. CASE muxing /\ written' = (IF ready > written THEN ready ELSE written) /\ UNCHANGED <<muxing, faults>>
  <2>1. written' \in 0 .. Len(frames')
    BY <1>1, <1>2
  <2> QED BY <1>1, <1>2, <2>1, Zenon
<1>3. CASE /\ muxing /\ ready > written /\ faults.count < MaxFaults
           /\ written' \in written .. ready - 1 /\ muxing' = FALSE /\ faults' = Fault
  <2>1. faults' \in Faults /\ faults'.clean = FALSE
    BY <1>1, <1>3, VideoAssumption DEF Faults, Fault
  <2>2. written' \in 0 .. Len(frames')
    BY <1>1, <1>3
  <2> QED BY <1>3, <2>1, <2>2, Zenon
<1>4. CASE ~muxing /\ UNCHANGED <<written, muxing, faults>>
  BY <1>1, <1>4
<1> QED BY <1>2, <1>3, <1>4 DEF WriteFrames

\* The number between three others is one of them.
LEMMA MidPredIs ==
  ASSUME NEW t \in Nat \X Nat \X Nat
  PROVE  /\ MidPred(t) \in Nat
         /\ t = <<0, 0, 0>> => MidPred(t) = 0
<1>1. t[1] \in Nat /\ t[2] \in Nat /\ t[3] \in Nat
  OBVIOUS
<1>2. \A i, j, k \in 1 .. 3 : i # j /\ j # k /\ i # k => {i, j, k} = 1 .. 3
  OBVIOUS
<1>3. \E x \in {t[1], t[2], t[3]} :
        \E i, j, k \in 1 .. 3 : {i, j, k} = 1 .. 3 /\ t[i] <= x /\ x = t[j] /\ x <= t[k]
  BY <1>1, <1>2
<1>4. MidPred(t) \in {t[1], t[2], t[3]}
  BY <1>3 DEF MidPred
<1> QED BY <1>1, <1>4

\* Frames r are added to the video, from slot b on.
Added(b, r) ==
  /\ r \in Seq(Frame) /\ b \in Nat /\ frames' = frames \o r /\ sync' = b + Len(r)
  /\ \A i \in DOMAIN r : r[i].slot = b + i - 1
  /\ frames # <<>> => b = sync

\* The write of some frames spoils nothing that it does not announce.
Written ==
  /\ faults'.clean => faults.clean
  /\ faults'.clean /\ muxing => muxing'

\* do_video_out adds frames; when the video is not ahead, the last one is in the slot of the
\* picture and shows it, and when it is not behind either there is only this one.
LEMMA VideoOutFacts ==
  ASSUME OutputTypes, pts \in Nat, NEW x \in Pictures, DoVideoOut(x, pts)
  PROVE  /\ OutputTypes' /\ Written /\ lastFrame' = x
         /\ \E b \in Nat, r \in Seq(Frame) :
              /\ Added(b, r)
              /\ sync <= pts => b + Len(r) = pts + 1 /\ Len(r) \in DOMAIN r /\ r[Len(r)].shows = x
              /\ sync = pts => Len(r) = 1
         /\ sync = pts => nb0' = <<0, nb0[1], nb0[2]>>
<1> DEFINE b == IF frames = <<>> /\ 10 * (pts - sync) >= 5 THEN pts ELSE sync
           f == FramesFor(pts - b, pts - b + 1)
           r == Repeat(b, f.nb, f.prev, x)
<1>1. /\ sync \in Nat /\ frames \in Seq(Frame) /\ lastFrame \in Pictures \cup {NoPicture}
      /\ nb0 \in Nat \X Nat \X Nat
  BY DEF OutputTypes
<1>2. /\ frames' = frames \o r /\ sync' = b + f.nb /\ lastFrame' = x
      /\ nb0' = <<f.prev, nb0[1], nb0[2]>> /\ WriteFrames(Len(frames') - Delay)
  BY DEF DoVideoOut
<1>3. b \in Nat /\ (frames # <<>> => b = sync) /\ (sync <= pts => b <= pts) /\ (sync = pts => b = pts)
  BY <1>1
<1> HIDE DEF b
<1>4. /\ f.nb \in Nat /\ f.prev \in Nat
      /\ pts - b \in Nat => f.nb = pts - b + 1 /\ f.prev <= pts - b
  <2>1. pts - b \in Int
    BY <1>3
  <2> QED BY <2>1, FramesForFacts
<1> DEFINE nb == f.nb
           prev == f.prev
<1>5. /\ r = Repeat(b, nb, prev, x) /\ nb \in Nat /\ prev \in Nat /\ sync' = b + nb
      /\ nb0' = <<prev, nb0[1], nb0[2]>>
      /\ sync <= pts => nb = pts - b + 1 /\ prev <= pts - b
  BY <1>2, <1>3, <1>4
<1> HIDE DEF f, nb, prev
<1>6. /\ r \in Seq(Frame) /\ Len(r) = nb /\ DOMAIN r = 1 .. nb
      /\ \A i \in 1 .. nb : r[i].slot = b + i - 1 /\ (i > prev => r[i].shows = x)
  <2> HIDE DEF r
  <2>1. b \in Nat /\ nb \in Nat /\ prev \in Nat /\ lastFrame \in Pictures \cup {NoPicture}
    BY <1>1, <1>3, <1>5
  <2>2. /\ Repeat(b, nb, prev, x) \in Seq(Frame) /\ Len(Repeat(b, nb, prev, x)) = nb
        /\ DOMAIN Repeat(b, nb, prev, x) = 1 .. nb
        /\ \A i \in 1 .. nb : Repeat(b, nb, prev, x)[i].slot = b + i - 1
        /\ \A i \in 1 .. nb : i > prev => Repeat(b, nb, prev, x)[i].shows = x
    BY <2>1, RepeatFacts, Zenon
  <2> QED BY <1>5, <2>2
<1> HIDE DEF r
<1>7. frames' \in Seq(Frame) /\ Len(frames') = Len(frames) + nb /\ Len(frames) \in Nat
  <2>1. frames \o r \in Seq(Frame) /\ Len(frames \o r) = Len(frames) + Len(r)
    BY <1>1, <1>6, Joined
  <2> QED BY <1>1, <1>2, <1>6, <2>1
<1>8. Added(b, r)
  BY <1>2, <1>3, <1>5, <1>6 DEF Added
<1>9. /\ sync <= pts => b + Len(r) = pts + 1 /\ Len(r) \in DOMAIN r /\ r[Len(r)].shows = x
      /\ sync = pts => Len(r) = 1 /\ prev = 0
  BY <1>1, <1>3, <1>5, <1>6
<1>10. /\ written' \in 0 .. Len(frames') /\ muxing' \in BOOLEAN /\ faults' \in Faults
       /\ faults'.clean => faults.clean
       /\ faults'.clean /\ muxing => muxing'
  <2>1. /\ Len(frames') - Delay \in Int /\ Len(frames') - Delay <= Len(frames')
        /\ Len(frames') \in Nat /\ Len(frames) <= Len(frames')
    BY <1>5, <1>7, VideoAssumption
  <2> QED BY <1>2, <2>1, WriteFacts
<1>11. sync' \in Nat /\ nb0' \in Nat \X Nat \X Nat
  BY <1>1, <1>3, <1>5
<1>12. OutputTypes'
  BY <1>2, <1>7, <1>10, <1>11 DEF OutputTypes
<1> QED BY <1>2, <1>3, <1>5, <1>6, <1>8, <1>9, <1>10, <1>12 DEF Written

\* At the end the last picture may be repeated once more; not when each had one frame.
LEMMA FlushFacts ==
  ASSUME OutputTypes, FlushVideoOut
  PROVE  /\ OutputTypes' /\ Written
         /\ \/ frames' = frames /\ lastFrame = NoPicture
            \/ \E r \in Seq(Frame) : Added(sync, r) /\ (nb0 = <<0, 0, 0>> => Len(r) = 0)
<1> DEFINE nb == MidPred(nb0)
           r == Repeat(sync, nb, nb, lastFrame)
<1>1. /\ sync \in Nat /\ frames \in Seq(Frame) /\ lastFrame \in Pictures \cup {NoPicture}
      /\ nb0 \in Nat \X Nat \X Nat
  BY DEF OutputTypes
<1>2. /\ frames' = (IF lastFrame = NoPicture THEN frames ELSE frames \o r)
      /\ sync' = sync + nb /\ lastFrame' = NoPicture
      /\ nb0' = <<nb, nb0[1], nb0[2]>> /\ WriteFrames(Len(frames') - Delay)
  BY DEF FlushVideoOut
<1>3. nb \in Nat /\ (nb0 = <<0, 0, 0>> => nb = 0)
  BY <1>1, MidPredIs
<1> HIDE DEF nb
<1>4. lastFrame # NoPicture =>
        /\ r \in Seq(Frame) /\ Len(r) = nb /\ DOMAIN r = 1 .. nb
        /\ \A i \in 1 .. nb : r[i].slot = sync + i - 1
  <2> SUFFICES ASSUME lastFrame # NoPicture
               PROVE  /\ r \in Seq(Frame) /\ Len(r) = nb /\ DOMAIN r = 1 .. nb
                      /\ \A i \in 1 .. nb : r[i].slot = sync + i - 1
    OBVIOUS
  <2>1. sync \in Nat /\ nb \in Nat /\ lastFrame \in Pictures \cup {NoPicture}
    BY <1>1, <1>3
  <2>2. lastFrame \in Pictures
    BY <2>1
  <2> DEFINE x == lastFrame
  <2>3. x \in Pictures
    BY <2>2
  <2> HIDE DEF x
  <2>4. /\ Repeat(sync, nb, nb, x) \in Seq(Frame) /\ Len(Repeat(sync, nb, nb, x)) = nb
        /\ DOMAIN Repeat(sync, nb, nb, x) = 1 .. nb
        /\ \A i \in 1 .. nb : Repeat(sync, nb, nb, x)[i].slot = sync + i - 1
        /\ \A i \in 1 .. nb : i > nb => Repeat(sync, nb, nb, x)[i].shows = x
    BY <2>1, <2>3, RepeatFacts, Zenon
  <2> QED BY <2>4 DEF x
<1> HIDE DEF r
<1>5. frames' \in Seq(Frame) /\ Len(frames') \in Nat /\ Len(frames) <= Len(frames')
  <2>1. CASE lastFrame = NoPicture
    BY <1>1, <1>2, <2>1
  <2>2. CASE lastFrame # NoPicture
    BY <1>1, <1>2, <1>3, <1>4, <2>2, Joined
  <2> QED BY <2>1, <2>2
<1>6. /\ written' \in 0 .. Len(frames') /\ muxing' \in BOOLEAN /\ faults' \in Faults
      /\ faults'.clean => faults.clean
      /\ faults'.clean /\ muxing => muxing'
  <2>1. Len(frames') - Delay \in Int /\ Len(frames') - Delay <= Len(frames')
    BY <1>5, VideoAssumption
  <2> QED BY <1>2, <1>5, <2>1, WriteFacts
<1>7. sync' \in Nat /\ nb0' \in Nat \X Nat \X Nat
  BY <1>1, <1>2, <1>3
<1>8. OutputTypes'
  BY <1>2, <1>5, <1>6, <1>7 DEF OutputTypes
<1>9. \/ frames' = frames /\ lastFrame = NoPicture
      \/ r \in Seq(Frame) /\ Added(sync, r) /\ (nb0 = <<0, 0, 0>> => Len(r) = 0)
  BY <1>1, <1>2, <1>3, <1>4 DEF Added
<1> QED BY <1>6, <1>8, <1>9 DEF Written

-----------------------------------------------------------------------------
(* The types are kept.                                                     *)

\* What is not touched keeps its types.
LEMMA Untouched ==
  ASSUME Typed
  PROVE  /\ UNCHANGED <<video, encoder>> => EncoderTypes'
         /\ UNCHANGED <<demuxer, errors, own>> => InputTypes'
         /\ UNCHANGED <<output, muxer, faults>> => OutputTypes'
<1>1. ASSUME UNCHANGED <<video, encoder>> PROVE EncoderTypes'
  <2>1. UNCHANGED <<video, length, symbols, block, next, disk>>
    BY <1>1 DEF encoder
  <2> QED BY <2>1 DEF Typed, EncoderTypes, Blocks, PicturesOf, K
<1>2. ASSUME UNCHANGED <<demuxer, errors, own>> PROVE InputTypes'
  BY <1>2 DEF Typed, InputTypes, demuxer
<1>3. ASSUME UNCHANGED <<output, muxer, faults>> PROVE OutputTypes'
  BY <1>3 DEF Typed, OutputTypes, output, muxer
<1> QED BY <1>1, <1>2, <1>3

\* The types hold when the process has made no video,
LEMMA TypesInit == Init => Typed
<1> SUFFICES ASSUME Init PROVE Typed
  OBVIOUS
<1>1. EncoderTypes
  <2>1. length \in Nat \ {0} /\ block = 0 /\ next = 1 /\ disk = <<>> /\ video = 0 /\ symbols = "fit"
    BY DEF Init
  <2>2. Blocks \in Nat \ {0} /\ \A b \in 0 .. Blocks - 1 : PicturesOf(b) \in 3 .. Most /\ Most \in Nat
    BY <2>1, Sizes
  <2>3. block \in 0 .. Blocks - 1 /\ next \in 1 .. PicturesOf(block)
    BY <2>1, <2>2
  <2>4. DOMAIN disk = {} /\ video \in 0 .. MaxVideos
    BY <2>1, VideoAssumption
  <2> QED BY <2>1, <2>3, <2>4 DEF EncoderTypes
<1>2. StageTypes
  BY DEF Init, StageTypes
<1>3. InputTypes
  BY VideoAssumption DEF Init, InputTypes, Counts
<1>4. OutputTypes
  <2>1. frames \in Seq(Frame) /\ Len(frames) = 0
    BY DEF Init
  <2>2. faults \in Faults
    BY VideoAssumption DEF Init, Faults
  <2>3. /\ sync \in Nat /\ lastFrame \in Pictures \cup {NoPicture} /\ nb0 \in Nat \X Nat \X Nat
        /\ muxing \in BOOLEAN
    BY DEF Init
  <2>4. written \in 0 .. Len(frames)
    BY <2>1 DEF Init
  <2> QED BY <2>1, <2>2, <2>3, <2>4, Zenon DEF OutputTypes
<1> QED BY <1>1, <1>2, <1>3, <1>4 DEF Typed

\* a new video keeps them,
LEMMA TypesStart ==
  ASSUME Typed, StartVideo
  PROVE  Typed'
<1>1. EncoderTypes'
  <2>1. /\ length' \in Nat \ {0} /\ block' = 0 /\ next' = 1 /\ disk' = <<>>
        /\ video' \in 0 .. MaxVideos /\ symbols' \in {"fit", "tooLarge", "tooLargeForColour"}
    BY VideoAssumption DEF StartVideo, Typed, EncoderTypes
  <2>2. Blocks' \in Nat \ {0} /\ PicturesOf(block)' \in 3 .. Most
    BY <2>1, SizesAfter
  <2>3. block' \in 0 .. Blocks' - 1
    <3> DEFINE z == Blocks'
    <3>1. z \in Nat \ {0}
      BY <2>2
    <3> HIDE DEF z
    <3>2. block' \in 0 .. z - 1
      BY <2>1, <3>1
    <3> QED BY <3>2 DEF z
  <2>4. next' \in 1 .. PicturesOf(block)'
    <3> DEFINE n == PicturesOf(block)'
    <3>1. n \in 3 .. Most /\ Most \in Nat
      BY <2>2, VideoAssumption DEF Most
    <3> HIDE DEF n
    <3>2. next' \in 1 .. n
      BY <2>1, <3>1
    <3> QED BY <3>2 DEF n
  <2>5. DOMAIN disk' = {}
    BY <2>1
  <2> QED BY <2>1, <2>3, <2>4, <2>5 DEF EncoderTypes
<1>2. StageTypes'
  BY DEF StartVideo, Typed, StageTypes
<1>3. InputTypes'
  BY DEF StartVideo, Typed, InputTypes, demuxer, Counts
<1>4. OutputTypes'
  <2>1. frames' \in Seq(Frame) /\ Len(frames') = 0 /\ written' = 0 /\ muxing' = FALSE
    BY DEF StartVideo
  <2>2. faults' \in Faults
    BY DEF StartVideo, Typed, OutputTypes, Faults
  <2>3. UNCHANGED <<sync, lastFrame, nb0>>
    BY DEF StartVideo
  <2>4. written' \in 0 .. Len(frames')
    BY <2>1
  <2>5. muxing' \in BOOLEAN
    BY <2>1, Zenon
  <2> QED BY <2>1, <2>2, <2>3, <2>4, <2>5, Zenon DEF Typed, OutputTypes
<1> QED BY <1>1, <1>2, <1>3, <1>4 DEF Typed

\* the encoder goes on to a number and a block that exist,
LEMMA NextPictureFacts ==
  ASSUME Typed, NextPicture, UNCHANGED length, stage = "drawing"
  PROVE  /\ block' \in 0 .. Blocks' - 1 /\ next' \in 1 .. PicturesOf(block)'
         /\ stage' \in {"drawing", "opening"} /\ Blocks' = Blocks
<1>1. length \in Nat \ {0} /\ block \in 0 .. Blocks - 1 /\ next \in 1 .. PicturesOf(block)
  BY DEF Typed, EncoderTypes
<1>2. Blocks \in Nat \ {0} /\ \A b \in 0 .. Blocks - 1 : PicturesOf(b) \in 3 .. Most /\ Most \in Nat
  BY <1>1, Sizes
<1>3. Blocks' = Blocks /\ PicturesOf(block)' = PicturesOf(block')
  BY DEF Blocks, PicturesOf, K
<1>4. CASE next < PicturesOf(block)
  BY <1>1, <1>2, <1>3, <1>4 DEF NextPicture
<1>5. CASE ~(next < PicturesOf(block)) /\ block + 1 < Blocks
  <2>1. next' = 1 /\ block' = block + 1 /\ stage' = stage
    BY <1>5 DEF NextPicture
  <2>2. block' \in 0 .. Blocks - 1
    BY <1>1, <1>2, <1>5, <2>1
  <2> QED BY <1>2, <1>3, <2>1, <2>2
<1>6. CASE ~(next < PicturesOf(block)) /\ ~(block + 1 < Blocks)
  BY <1>1, <1>3, <1>6 DEF NextPicture
<1> QED BY <1>4, <1>5, <1>6

\* and its pictures are pictures,
LEMMA TypesDraw ==
  ASSUME Typed, DrawPicture \/ DrawNothing
  PROVE  Typed'
<1>1. /\ length \in Nat \ {0} /\ block \in 0 .. Blocks - 1 /\ next \in 1 .. PicturesOf(block)
      /\ DOMAIN disk \subseteq 1 .. Most /\ \A n \in DOMAIN disk : disk[n] \in Pictures
  BY DEF Typed, EncoderTypes, Most
<1>2. /\ Blocks \in Nat \ {0} /\ Most \in Nat
      /\ \A b \in 0 .. Blocks - 1 :
           K(b) \in Nat /\ PicturesOf(b) \in 3 .. Most /\ K(b) + 1 <= PicturesOf(b)
  BY <1>1, Sizes
<1>3. CASE DrawPicture
  <2>1. /\ stage = "drawing" /\ NextPicture
        /\ UNCHANGED <<video, length, symbols, globals, demuxer, output, muxer, errors, own>>
        /\ \/ disk' = disk \/ \E kind \in {"whole", "cut", "empty"} : disk' = Put(next, Picture(kind))
        /\ \/ faults' = faults \/ (faults.count < MaxFaults /\ faults' = Fault)
    BY <1>3 DEF DrawPicture
  <2>2. /\ block' \in 0 .. Blocks' - 1 /\ next' \in 1 .. PicturesOf(block)'
        /\ stage' \in {"drawing", "opening"}
    BY <2>1, NextPictureFacts
  <2>3. DOMAIN disk' \subseteq 1 .. Most /\ \A n \in DOMAIN disk' : disk'[n] \in Pictures
    <3>1. CASE disk' = disk
      BY <1>1, <3>1
    <3>2. ASSUME NEW kind \in {"whole", "cut", "empty"}, disk' = Put(next, Picture(kind))
          PROVE  DOMAIN disk' \subseteq 1 .. Most /\ \A n \in DOMAIN disk' : disk'[n] \in Pictures
      <4>1. next \in 1 .. Most
        BY <1>1, <1>2
      <4>2. Picture(kind) \in Pictures
        <5>1. block \in Nat /\ next - 1 \in Nat
          BY <1>1, <1>2, <4>1
        <5> QED BY <5>1 DEF Picture, Pictures, PacketAt, Packets
      <4> DEFINE x == Picture(kind)
      <4> HIDE DEF x
      <4>3. disk' = [m \in DOMAIN disk \cup {next} |-> IF m = next THEN x ELSE disk[m]]
        BY <3>2 DEF Put, x
      <4>4. x \in Pictures
        BY <4>2 DEF x
      <4> QED BY <1>1, <4>1, <4>3, <4>4
    <3> QED BY <2>1, <3>1, <3>2
  <2>4. EncoderTypes'
    BY <2>1, <2>2, <2>3 DEF Typed, EncoderTypes, Most
  <2>5. faults' \in Faults
    <3>1. faults \in Faults
      BY DEF Typed, OutputTypes
    <3>2. CASE faults' = faults
      BY <3>1, <3>2
    <3>3. CASE faults.count < MaxFaults /\ faults' = Fault
      BY <3>1, <3>3, VideoAssumption DEF Faults, Fault
    <3> QED BY <2>1, <3>2, <3>3
  <2>6. OutputTypes'
    BY <2>1, <2>5 DEF Typed, OutputTypes, output, muxer
  <2>7. InputTypes' /\ StageTypes'
    BY <2>1, <2>2, Untouched DEF Typed, StageTypes
  <2> QED BY <2>4, <2>6, <2>7 DEF Typed
<1>4. CASE DrawNothing
  <2>1. /\ UNCHANGED <<video, length, symbols, block, disk, globals, demuxer, output, muxer, errors,
                       own, faults>>
        /\ \/ next <= K(block) /\ next' = next + 1 /\ stage' = stage
           \/ next' = next /\ stage' = "notDrawn"
    BY <1>4 DEF DrawNothing
  <2>2. Blocks' = Blocks /\ PicturesOf(block)' = PicturesOf(block)
    BY <2>1 DEF Blocks, PicturesOf, K
  <2>3. next' \in 1 .. PicturesOf(block)
    BY <1>1, <1>2, <2>1
  <2>4. EncoderTypes'
    BY <2>1, <2>2, <2>3 DEF Typed, EncoderTypes
  <2>5. InputTypes' /\ StageTypes' /\ OutputTypes'
    BY <2>1, Untouched DEF Typed, StageTypes
  <2> QED BY <2>4, <2>5 DEF Typed
<1> QED BY <1>3, <1>4

\* the range that is found is one of pictures,
LEMMA OpenFacts ==
  ASSUME Typed, Open, stage' # "crashed"
  PROVE  /\ FirstIndices # {} /\ img' = Least(FirstIndices) /\ img' \in FirstIndices
         /\ \A n \in FirstIndices : img' <= n
         /\ img' \in DOMAIN disk /\ last' \in DOMAIN disk /\ last' + 1 \notin DOMAIN disk
         /\ last' = LastIndex(img') /\ pts' = 0 /\ sync' = 0 /\ frames' = <<>> /\ lastFrame' = NoPicture
         /\ nb0' = <<0, 0, 0>> /\ written' = 0 /\ muxing' = TRUE
         /\ globals' = "open" /\ stage' = "reading" /\ stage = "opening"
         /\ UNCHANGED <<video, encoder, errors, own, faults>>
<1>1. DOMAIN disk \subseteq 1 .. Most /\ Most \in Nat
  BY VideoAssumption DEF Typed, EncoderTypes, Most
<1>2. /\ FirstIndices # {}
      /\ img' = Least(FirstIndices) /\ last' = LastIndex(Least(FirstIndices)) /\ pts' = 0
      /\ sync' = 0 /\ frames' = <<>> /\ lastFrame' = NoPicture /\ nb0' = <<0, 0, 0>>
      /\ written' = 0 /\ muxing' = TRUE
      /\ globals' = "open" /\ stage' = "reading" /\ stage = "opening"
      /\ UNCHANGED <<video, encoder, errors, own, faults>>
  BY DEF Open, Crash
<1>3. FirstIndices \in SUBSET Nat /\ \A n \in FirstIndices : n \in DOMAIN disk
  BY VideoAssumption DEF FirstIndices, Exists
<1>4. Least(FirstIndices) \in FirstIndices /\ \A n \in FirstIndices : Least(FirstIndices) <= n
  BY <1>2, <1>3, LeastIs
<1>5. /\ LastIndex(Least(FirstIndices)) \in DOMAIN disk
      /\ LastIndex(Least(FirstIndices)) + 1 \notin DOMAIN disk
  BY <1>1, <1>3, <1>4, LastIndexFacts
<1> QED BY <1>2, <1>3, <1>4, <1>5

\* so FFmpeg opens the files of the types, or ends the process,
LEMMA TypesOpen ==
  ASSUME Typed, Open
  PROVE  Typed'
<1>1. CASE stage' = "crashed"
  <2>1. UNCHANGED <<video, encoder, demuxer, output, muxer, errors, own, faults>>
        /\ globals' \in {"closed", "open", "freed"}
    BY <1>1 DEF Open, Crash, Typed, StageTypes
  <2>2. EncoderTypes' /\ InputTypes' /\ OutputTypes'
    BY <2>1, Untouched
  <2> QED BY <1>1, <2>1, <2>2 DEF Typed, StageTypes
<1>2. CASE stage' # "crashed"
  <2>1. /\ img' \in DOMAIN disk /\ last' \in DOMAIN disk /\ pts' = 0
        /\ sync' = 0 /\ frames' = <<>> /\ lastFrame' = NoPicture /\ nb0' = <<0, 0, 0>>
        /\ written' = 0 /\ muxing' = TRUE /\ globals' = "open" /\ stage' = "reading"
        /\ UNCHANGED <<video, encoder, errors, own, faults>>
    BY <1>2, OpenFacts
  <2>2. EncoderTypes'
    BY <2>1, Untouched
  <2>3. StageTypes'
    BY <2>1 DEF StageTypes
  <2>4. InputTypes'
    <3>1. img' \in 1 .. 2 * KMax + 1 /\ last' \in 1 .. 2 * KMax + 1
      BY <2>1 DEF Typed, EncoderTypes
    <3>2. img' \in 0 .. 2 * KMax + 2 /\ last' \in 0 .. 2 * KMax + 1 /\ pts' \in Nat
      BY <2>1, <3>1, VideoAssumption
    <3>3. errors' \in Counts /\ own' \in Counts
      BY <2>1 DEF Typed, InputTypes
    <3> QED BY <3>2, <3>3 DEF InputTypes
  <2>5. OutputTypes'
    <3>1. frames' \in Seq(Frame) /\ Len(frames') = 0
      BY <2>1
    <3>2. sync' \in Nat /\ nb0' \in Nat \X Nat \X Nat /\ written' \in 0 .. Len(frames')
      BY <2>1, <3>1
    <3>3. faults' \in Faults
      BY <2>1 DEF Typed, OutputTypes
    <3> QED BY <2>1, <3>1, <3>2, <3>3, Zenon DEF OutputTypes
  <2> QED BY <2>2, <2>3, <2>4, <2>5 DEF Typed
<1> QED BY <1>1, <1>2

\* a picture that is read is on the disk and not behind the last one,
LEMMA ReadFacts ==
  ASSUME Typed, ReadPicture
  PROVE  /\ img \in DOMAIN disk /\ disk[img] \in Pictures /\ img <= last
         /\ img' = img + 1 /\ pts' = pts + 1 /\ stage = "reading" /\ muxing
         /\ UNCHANGED <<video, stage, encoder, globals, last>>
         /\ \/ /\ errors' = [errors EXCEPT !.good = @ + 1] /\ own' = [own EXCEPT !.good = @ + 1]
               /\ DoVideoOut(disk[img], pts)
            \/ /\ disk[img].kind = "cut"
               /\ errors' = [errors EXCEPT !.bad = @ + 1] /\ own' = [own EXCEPT !.bad = @ + 1]
               /\ UNCHANGED <<output, muxer, faults>>
<1>1. img <= last /\ Readable(img)
  BY DEF ReadPicture, AtEnd, Typed, InputTypes
<1>2. img \in DOMAIN disk
  BY <1>1 DEF Readable, Exists
<1>3. disk[img] \in Pictures
  BY <1>2 DEF Typed, EncoderTypes
<1> QED BY <1>1, <1>2, <1>3 DEF ReadPicture

\* and what comes out of it are frames,
LEMMA TypesRead ==
  ASSUME Typed, ReadPicture
  PROVE  Typed'
<1>1. EncoderTypes' /\ StageTypes'
  <2>1. UNCHANGED <<video, stage, encoder, globals>>
    BY ReadFacts
  <2> QED BY <2>1, Untouched DEF Typed, StageTypes
<1>2. InputTypes'
  <2>1. /\ img' = img + 1 /\ pts' = pts + 1 /\ last' = last /\ img <= last
        /\ \/ errors' = [errors EXCEPT !.good = @ + 1] /\ own' = [own EXCEPT !.good = @ + 1]
           \/ errors' = [errors EXCEPT !.bad = @ + 1] /\ own' = [own EXCEPT !.bad = @ + 1]
    BY ReadFacts
  <2>2. errors' \in Counts /\ own' \in Counts
    BY <2>1 DEF Typed, InputTypes, Counts
  <2>3. img' \in 0 .. 2 * KMax + 2 /\ last' \in 0 .. 2 * KMax + 1 /\ pts' \in Nat
    BY <2>1, VideoAssumption DEF Typed, InputTypes
  <2> QED BY <2>2, <2>3 DEF InputTypes
<1>3. OutputTypes'
  <2>1. OutputTypes /\ pts \in Nat
    BY DEF Typed, InputTypes
  <2>2. CASE DoVideoOut(disk[img], pts)
    <3>1. disk[img] \in Pictures
      BY ReadFacts
    <3> QED BY <2>1, <2>2, <3>1, VideoOutFacts
  <2>3. CASE UNCHANGED <<output, muxer, faults>>
    BY <2>3, Untouched
  <2> QED BY <2>2, <2>3, ReadFacts
<1> QED BY <1>1, <1>2, <1>3 DEF Typed

\* at the end and when the encoders are flushed too,
LEMMA TypesEnd ==
  ASSUME Typed, EndOfPictures \/ StopReading \/ FlushEncoders
  PROVE  Typed'
<1>1. EncoderTypes' /\ StageTypes' /\ InputTypes'
  <2>1. UNCHANGED <<video, encoder, globals, demuxer, errors, own>> /\ stage' \in {"flushing", "rating"}
    BY DEF EndOfPictures, StopReading, FlushEncoders
  <2> QED BY <2>1, Untouched DEF Typed, StageTypes
<1>2. OutputTypes'
  <2>0. OutputTypes
    BY DEF Typed
  <2>1. CASE EndOfPictures
    <3>1. FlushVideoOut
      BY <2>1 DEF EndOfPictures
    <3> QED BY <2>0, <3>1, FlushFacts
  <2>2. CASE StopReading
    <3>1. UNCHANGED <<output, muxer, faults>>
      BY <2>2 DEF StopReading
    <3> QED BY <3>1, Untouched
  <2>3. CASE FlushEncoders
    <3>1. WriteFrames(Len(frames)) /\ UNCHANGED <<sync, frames, lastFrame, nb0>>
      BY <2>3 DEF FlushEncoders, output
    <3>2. Len(frames) \in Int /\ Len(frames') \in Nat /\ Len(frames) <= Len(frames')
      BY <2>0, <3>1 DEF OutputTypes
    <3>3. written' \in 0 .. Len(frames') /\ muxing' \in BOOLEAN /\ faults' \in Faults
      BY <2>0, <3>1, <3>2, WriteFacts
    <3> QED BY <2>0, <3>1, <3>3 DEF OutputTypes
  <2> QED BY <2>1, <2>2, <2>3
<1> QED BY <1>1, <1>2 DEF Typed

\* and on the way out.
LEMMA TypesLeave ==
  ASSUME Typed, Leave
  PROVE  Typed'
<1>1. UNCHANGED <<video, encoder, demuxer, output, muxer, errors, own, faults>> /\ StageTypes'
  <2>1. CASE RateErrors
    BY <2>1 DEF RateErrors, ExitProgram, Crash, Typed, StageTypes
  <2>2. CASE Exit
    BY <2>2 DEF Exit, ExitProgram, Crash, Typed, StageTypes
  <2>3. CASE Reset
    BY <2>3 DEF Reset, StageTypes
  <2> QED BY <2>1, <2>2, <2>3 DEF Leave
<1> QED BY <1>1, Untouched DEF Typed

\* Every step keeps the types.
LEMMA TypesNext == Typed /\ [Next]_vars => Typed'
<1> SUFFICES ASSUME Typed, [Next]_vars PROVE Typed'
  OBVIOUS
<1>1. CASE UNCHANGED vars
  BY <1>1, Untouched DEF vars, Typed, StageTypes
<1> QED BY <1>1, TypesStart, TypesDraw, TypesOpen, TypesRead, TypesEnd, TypesLeave
        DEF Next, Draw, Transcode

\* What a process draws, reads and shows keeps its types: no picture has a number beyond
\* those of a block of KMax packets, and no range reaches further.
THEOREM TypesKept == Spec => []TypeOK
<1>1. Spec => []Typed
  BY TypesInit, TypesNext, PTL DEF Spec
<1> QED BY <1>1, TypedIsTypeOK, PTL

-----------------------------------------------------------------------------
(* Each picture in its place.                                              *)

\* The slots of the frames follow each other up to sync.
InSlots == \A i \in DOMAIN frames : frames[i].slot = sync - Len(frames) + i - 1

\* Each whole picture that was read is in the slot of its number.
InPlace ==
  \A n \in ReadSoFar : disk[n].kind = "whole" =>
    \E i \in DOMAIN frames : frames[i].slot = n - (img - pts) /\ frames[i].shows = disk[n]

\* While pictures are read the video is not ahead of them, and there is a last frame to repeat
\* as soon as there is a frame.
NotAhead ==
  stage = "reading" => sync <= pts /\ (lastFrame = NoPicture => frames = <<>>)

Placed == (Begun => InSlots /\ InPlace) /\ NotAhead

\* What adding frames does to the sequence of all.
LEMMA AddedFacts ==
  ASSUME OutputTypes, NEW b \in Nat, NEW r \in Seq(Frame), Added(b, r)
  PROVE  /\ Len(frames') = Len(frames) + Len(r) /\ Len(frames) \in Nat /\ Len(r) \in Nat
         /\ \A i \in DOMAIN frames : i \in DOMAIN frames' /\ frames'[i] = frames[i]
         /\ \A i \in DOMAIN r : Len(frames) + i \in DOMAIN frames' /\ frames'[Len(frames) + i] = r[i]
         /\ \A i \in DOMAIN frames' : i \in DOMAIN frames \/ i - Len(frames) \in DOMAIN r
         /\ InSlots => InSlots'
<1>1. frames \in Seq(Frame) /\ frames' = frames \o r /\ sync \in Nat
  BY DEF Added, OutputTypes
<1>2. /\ Len(frames') = Len(frames) + Len(r) /\ Len(frames) \in Nat /\ Len(r) \in Nat
      /\ DOMAIN frames = 1 .. Len(frames) /\ DOMAIN r = 1 .. Len(r)
      /\ DOMAIN frames' = 1 .. Len(frames')
  BY <1>1
<1>3. /\ \A i \in DOMAIN frames : i \in DOMAIN frames' /\ frames'[i] = frames[i]
      /\ \A i \in DOMAIN r : Len(frames) + i \in DOMAIN frames' /\ frames'[Len(frames) + i] = r[i]
      /\ \A i \in DOMAIN frames' : i \in DOMAIN frames \/ i - Len(frames) \in DOMAIN r
  <2> DEFINE j == frames \o r
  <2>1. /\ \A i \in DOMAIN frames : i \in DOMAIN j /\ j[i] = frames[i]
        /\ \A i \in DOMAIN r : Len(frames) + i \in DOMAIN j /\ j[Len(frames) + i] = r[i]
        /\ \A i \in DOMAIN j : i \in DOMAIN frames \/ i - Len(frames) \in DOMAIN r
    BY <1>1, Joined
  <2>2. frames' = j
    BY <1>1
  <2> HIDE DEF j
  <2> QED BY <2>1, <2>2
<1>4. ASSUME InSlots, NEW i \in DOMAIN frames'
      PROVE  frames'[i].slot = sync' - Len(frames') + i - 1
  <2>1. sync' = b + Len(r) /\ i \in Int
    BY <1>2 DEF Added
  <2>2. CASE i \in DOMAIN frames
    <3>1. b = sync
      BY <1>1, <2>2 DEF Added
    <3>2. frames'[i].slot = sync - Len(frames) + i - 1
      BY <1>3, <1>4, <2>2 DEF InSlots
    <3> QED BY <1>1, <1>2, <2>1, <3>1, <3>2
  <2>3. CASE i \notin DOMAIN frames
    <3>1. i - Len(frames) \in DOMAIN r /\ Len(frames) + (i - Len(frames)) = i
      BY <1>2, <1>3, <2>1, <2>3
    <3>2. frames'[i] = r[i - Len(frames)]
      BY <1>3, <3>1
    <3>3. r[i - Len(frames)].slot = b + (i - Len(frames)) - 1
      BY <3>1 DEF Added
    <3> QED BY <1>2, <2>1, <3>2, <3>3
  <2> QED BY <2>2, <2>3
<1>5. InSlots => InSlots'
  BY <1>4 DEF InSlots
<1> QED BY <1>2, <1>3, <1>5

\* A video begins without frames,
LEMMA PlacedOpen ==
  ASSUME Typed, Open
  PROVE  Placed'
<1>1. CASE stage' = "crashed"
  BY <1>1 DEF Placed, Begun, NotAhead
<1>2. CASE stage' # "crashed"
  <2>1. /\ sync' = 0 /\ pts' = 0 /\ frames' = <<>> /\ img' \in DOMAIN disk /\ disk' = disk
    BY <1>2, OpenFacts DEF encoder
  <2>2. img' \in Nat /\ DOMAIN disk \subseteq Nat
    BY <2>1, VideoAssumption DEF Typed, EncoderTypes
  <2>3. ReadSoFar' = {}
    BY <2>1, <2>2 DEF ReadSoFar
  <2>4. DOMAIN frames' = {}
    BY <2>1
  <2> QED BY <2>1, <2>3, <2>4 DEF Placed, InSlots, InPlace, NotAhead
<1> QED BY <1>1, <1>2

\* a picture that is decoded gets the slot of its number, and one that is not leaves it to the
\* next,
LEMMA PlacedRead ==
  ASSUME Typed, Placed, ReadPicture
  PROVE  Placed'
<1>1. /\ img \in DOMAIN disk /\ disk[img] \in Pictures /\ disk' = disk
      /\ img' = img + 1 /\ pts' = pts + 1 /\ stage = "reading" /\ stage' = stage
  BY ReadFacts DEF encoder
<1>2. /\ img \in Nat /\ pts \in Nat /\ DOMAIN disk \subseteq Nat /\ sync \in Nat /\ OutputTypes
      /\ frames \in Seq(Frame)
  BY VideoAssumption DEF Typed, EncoderTypes, InputTypes, OutputTypes
<1>3. sync <= pts /\ InSlots /\ InPlace
  BY <1>1 DEF Placed, NotAhead, Begun
<1>4. img' - pts' = img - pts /\ \A n \in ReadSoFar' : n \in ReadSoFar \/ n = img
  BY <1>1, <1>2 DEF ReadSoFar
<1>5. CASE DoVideoOut(disk[img], pts)
  <2>1. PICK b \in Nat, r \in Seq(Frame) :
          Added(b, r) /\ b + Len(r) = pts + 1 /\ Len(r) \in DOMAIN r /\ r[Len(r)].shows = disk[img]
    BY <1>1, <1>2, <1>3, <1>5, VideoOutFacts
  <2>2. lastFrame' = disk[img] /\ lastFrame' # NoPicture /\ sync' = pts + 1
    <3>1. lastFrame' = disk[img]
      BY <1>1, <1>2, <1>5, VideoOutFacts
    <3>2. disk[img] # NoPicture
      BY <1>1 DEF Pictures, NoPicture
    <3> QED BY <2>1, <3>1, <3>2 DEF Added
  <2>3. /\ InSlots' /\ Len(frames) \in Nat /\ Len(r) \in Nat
        /\ \A i \in DOMAIN frames : i \in DOMAIN frames' /\ frames'[i] = frames[i]
        /\ \A i \in DOMAIN r : Len(frames) + i \in DOMAIN frames' /\ frames'[Len(frames) + i] = r[i]
    BY <1>2, <1>3, <2>1, AddedFacts
  <2>4. ASSUME NEW n \in ReadSoFar', disk[n].kind = "whole"
        PROVE  \E i \in DOMAIN frames' : frames'[i].slot = n - (img - pts) /\ frames'[i].shows = disk[n]
    <3>1. CASE n \in ReadSoFar
      <4>1. PICK i \in DOMAIN frames : frames[i].slot = n - (img - pts) /\ frames[i].shows = disk[n]
        BY <1>3, <2>4, <3>1 DEF InPlace
      <4> QED BY <2>3, <4>1
    <3>2. CASE n = img
      <4> DEFINE i == Len(frames) + Len(r)
      <4>1. i \in DOMAIN frames' /\ frames'[i] = r[Len(r)]
        BY <2>1, <2>3
      <4>2. r[Len(r)].slot = pts /\ n - (img - pts) = pts
        <5>1. r[Len(r)].slot = b + Len(r) - 1
          BY <2>1 DEF Added
        <5> QED BY <1>2, <2>1, <2>3, <3>2, <5>1
      <4> QED BY <2>1, <3>2, <4>1, <4>2
    <3> QED BY <1>4, <2>4, <3>1, <3>2
  <2>5. InPlace'
    BY <1>1, <1>4, <2>4 DEF InPlace
  <2> QED BY <1>1, <1>2, <2>2, <2>3, <2>5 DEF Placed, NotAhead
<1>6. CASE disk[img].kind = "cut" /\ UNCHANGED <<output, muxer, faults>>
  <2>1. UNCHANGED <<sync, frames, lastFrame>>
    BY <1>6 DEF output
  <2>2. InPlace'
    BY <1>1, <1>3, <1>4, <1>6, <2>1 DEF InPlace
  <2>3. InSlots' /\ NotAhead'
    BY <1>1, <1>2, <1>3, <2>1 DEF InSlots, Placed, NotAhead
  <2> QED BY <2>2, <2>3 DEF Placed
<1> QED BY <1>5, <1>6, ReadFacts

\* the end adds frames behind the others,
LEMMA PlacedEnd ==
  ASSUME Typed, Placed, EndOfPictures \/ StopReading \/ FlushEncoders
  PROVE  Placed'
<1>1. /\ stage \in {"reading", "flushing"} /\ stage' \in {"flushing", "rating"}
      /\ UNCHANGED <<disk, img, pts>> /\ OutputTypes /\ InSlots /\ InPlace
      /\ stage = "reading" /\ lastFrame = NoPicture => frames = <<>>
  BY DEF EndOfPictures, StopReading, FlushEncoders, encoder, demuxer, Typed, Placed, Begun, NotAhead
<1>2. ReadSoFar' = ReadSoFar
  BY <1>1 DEF ReadSoFar
<1>3. CASE UNCHANGED <<sync, frames>>
  BY <1>1, <1>2, <1>3 DEF Placed, InSlots, InPlace, NotAhead
<1>4. CASE EndOfPictures
  <2>1. FlushVideoOut /\ stage = "reading"
    BY <1>4 DEF EndOfPictures
  <2>2. CASE frames' = frames /\ lastFrame = NoPicture
    <3>1. DOMAIN frames' = {} /\ frames' = frames
      BY <1>1, <2>1, <2>2
    <3> QED BY <1>1, <1>2, <3>1 DEF Placed, InSlots, InPlace, NotAhead
  <2>3. ASSUME NEW r \in Seq(Frame), Added(sync, r) PROVE Placed'
    <3>0. sync \in Nat
      BY <1>1 DEF OutputTypes
    <3>1. InSlots' /\ \A i \in DOMAIN frames : i \in DOMAIN frames' /\ frames'[i] = frames[i]
      BY <1>1, <2>3, <3>0, AddedFacts
    <3>2. InPlace'
      BY <1>1, <1>2, <3>1 DEF InPlace
    <3> QED BY <1>1, <3>1, <3>2 DEF Placed, NotAhead
  <2> QED BY <1>1, <2>1, <2>2, <2>3, FlushFacts
<1>5. StopReading \/ FlushEncoders => UNCHANGED <<sync, frames>>
  BY DEF StopReading, FlushEncoders, output
<1> QED BY <1>3, <1>4, <1>5

\* and all other steps are not those of a video being made.
LEMMA PlacedNext ==
  ASSUME Typed, Placed, [Next]_vars
  PROVE  Placed'
<1>1. CASE Draw \/ Leave
  <2>1. stage' \notin {"reading", "flushing", "rating"}
    BY <1>1 DEF Draw, StartVideo, DrawPicture, NextPicture, DrawNothing, Leave, RateErrors, Exit,
                Reset, ExitProgram, Crash
  <2> QED BY <2>1 DEF Placed, Begun, NotAhead
<1>2. CASE UNCHANGED vars
  BY <1>2 DEF vars, encoder, demuxer, output, Placed, Begun, InSlots, InPlace, ReadSoFar, NotAhead
<1> QED BY <1>1, <1>2, PlacedOpen, PlacedRead, PlacedEnd DEF Next, Transcode

\* A picture that cannot be decoded, and one that is missing, moves no other: every whole
\* picture that was read is in the slot of its number, and no slot is left out, however many
\* pictures there are and whichever of them fail.
THEOREM ShownInPlaceHolds == Spec => []ShownInPlace
<1>1. Init => Placed
  BY DEF Init, Placed, Begun, NotAhead
<1>2. Typed /\ Placed => ShownInPlace
  <2> SUFFICES ASSUME Typed, Placed, Begun PROVE ShownInPlace
    BY DEF ShownInPlace
  <2>1. sync \in Nat /\ frames \in Seq(Frame)
    BY DEF Typed, OutputTypes
  <2>2. \A i \in 2 .. Len(frames) : frames[i].slot = frames[i - 1].slot + 1
    BY <2>1 DEF Placed, InSlots
  <2> QED BY <2>2 DEF ShownInPlace, Placed, InPlace
<1>3. Spec => [](Typed /\ Placed)
  <2>1. Typed /\ Placed /\ [Next]_vars => Typed' /\ Placed'
    BY TypesNext, PlacedNext
  <2> QED BY <1>1, <2>1, TypesInit, PTL DEF Spec
<1> QED BY <1>2, <1>3, PTL

-----------------------------------------------------------------------------
(* Nothing lost.                                                           *)

\* The pictures have the numbers 1 .. m, all are whole, and the first t are the packets of
\* block b; there are no others when it is the first.
Drawn(b, t, m) ==
  /\ DOMAIN disk = 1 .. m /\ t <= m /\ (b = 0 => m = t)
  /\ \A n \in 1 .. m : disk[n].kind = "whole"
  /\ \A n \in 1 .. t : disk[n].packet = PacketAt(b, n)

\* The pictures when all blocks are drawn.
AllDrawn(m) == Drawn(Blocks - 1, PicturesOf(Blocks - 1), m)

\* The video has a frame of each of the first m pictures, and no other.
OneFrameEach(m) == Len(frames) = m /\ \A n \in 1 .. m : frames[n].shows = disk[n]

\* What a video has in which nothing has failed yet, stage by stage.
Complete ==
  /\ stage = "drawing" /\ symbols = "fit" => \E m \in Nat : Drawn(block, next - 1, m)
  /\ stage = "opening" => \E m \in Nat : AllDrawn(m)
  /\ stage = "reading" =>
       /\ muxing /\ img = pts + 1 /\ sync = pts /\ nb0 = <<0, 0, 0>> /\ OneFrameEach(pts)
       /\ \E m \in Nat : AllDrawn(m) /\ last = m /\ pts <= m
  /\ stage = "flushing" => muxing /\ \E m \in Nat : AllDrawn(m) /\ OneFrameEach(m)
  /\ stage \in {"rating", "exiting", "resetting", "played"} =>
       \E m \in Nat : AllDrawn(m) /\ OneFrameEach(m) /\ written = m

Whole == faults.clean => Complete

\* While nothing is drawn, the pictures stay all drawn.
LEMMA DrawnStays ==
  ASSUME UNCHANGED encoder, NEW m \in Nat, AllDrawn(m)
  PROVE  AllDrawn(m)'
<1>1. UNCHANGED <<length, block, disk>>
  BY DEF encoder
<1>2. Blocks' = Blocks /\ PicturesOf(Blocks - 1)' = PicturesOf(Blocks - 1)
  BY <1>1 DEF Blocks, PicturesOf, K
<1> QED BY <1>1, <1>2 DEF AllDrawn, Drawn

\* A new directory is empty,
LEMMA WholeStart ==
  ASSUME Typed, StartVideo
  PROVE  Whole'
<1>1. stage' = "drawing" /\ block' = 0 /\ next' = 1 /\ disk' = <<>>
  BY DEF StartVideo
<1>2. DOMAIN disk' = {} /\ 1 .. 0 = {} /\ 0 \in Nat
  BY <1>1
<1>3. Drawn(0, 0, 0)'
  BY <1>1, <1>2 DEF Drawn
<1>4. (\E m \in Nat : Drawn(block, next - 1, m))'
  BY <1>1, <1>2, <1>3
<1> QED BY <1>1, <1>4 DEF Whole, Complete

\* each picture that is drawn takes the next number, or the place of one of an earlier block;
\* b and t stand for the block and the number after the step,
LEMMA PictureDrawn ==
  ASSUME Typed, NEW m \in Nat, Drawn(block, next - 1, m), disk' = Put(next, Picture("whole"))
  PROVE  \E k \in Nat :
           /\ DOMAIN disk' = 1 .. k /\ next <= k /\ (block = 0 => k = next)
           /\ \A n \in 1 .. k : disk'[n].kind = "whole"
           /\ \A n \in 1 .. next : disk'[n].packet = PacketAt(block, n)
<1>1. next \in Nat \ {0}
  <2>1. length \in Nat \ {0} /\ block \in 0 .. Blocks - 1 /\ next \in 1 .. PicturesOf(block)
    BY DEF Typed, EncoderTypes
  <2>2. PicturesOf(block) \in Nat
    BY <2>1, Sizes
  <2> QED BY <2>1, <2>2
<1>2. /\ DOMAIN disk = 1 .. m /\ next - 1 <= m /\ (block = 0 => m = next - 1)
      /\ \A n \in 1 .. m : disk[n].kind = "whole"
      /\ \A n \in 1 .. next - 1 : disk[n].packet = PacketAt(block, n)
  BY DEF Drawn
<1> DEFINE x == Picture("whole")
           k == IF next <= m THEN m ELSE next
<1>3. disk' = [n \in DOMAIN disk \cup {next} |-> IF n = next THEN x ELSE disk[n]]
  BY DEF Put
<1>4. x.kind = "whole" /\ x.packet = PacketAt(block, next)
  BY DEF Picture
<1> HIDE DEF x
<1>5. k \in Nat /\ DOMAIN disk' = 1 .. k /\ next <= k /\ (block = 0 => k = next)
  <2>1. (1 .. m) \cup {next} = 1 .. k
    BY <1>1, <1>2
  <2>2. DOMAIN disk' = DOMAIN disk \cup {next}
    BY <1>3
  <2>3. DOMAIN disk' = 1 .. k
    BY <1>2, <2>1, <2>2
  <2>4. k \in Nat /\ next <= k /\ (block = 0 => k = next)
    BY <1>1, <1>2
  <2> QED BY <2>3, <2>4
<1>6. \A n \in 1 .. k : n = next \/ n \in 1 .. m
  BY <1>1, <1>2
<1>7. \A n \in 1 .. next : n = next \/ n \in 1 .. next - 1
  BY <1>1
<1>8. \A n \in 1 .. k : disk'[n] = IF n = next THEN x ELSE disk[n]
  BY <1>2, <1>3, <1>5
<1>9. \A n \in 1 .. next : n \in 1 .. k
  BY <1>1, <1>5
<1> HIDE DEF k
<1>10. \A n \in 1 .. k : disk'[n].kind = "whole"
  BY <1>2, <1>4, <1>6, <1>8
<1>11. \A n \in 1 .. next : disk'[n].packet = PacketAt(block, n)
  BY <1>2, <1>4, <1>7, <1>8, <1>9
<1> QED BY <1>5, <1>10, <1>11

\* so that block after block is drawn without a gap,
LEMMA WholeDraw ==
  ASSUME Typed, Whole, DrawPicture \/ DrawNothing
  PROVE  Whole'
<1>1. CASE DrawNothing
  <2>1. stage' \in {"drawing", "notDrawn"} /\ symbols' # "fit"
    BY <1>1 DEF DrawNothing
  <2> QED BY <2>1 DEF Whole, Complete
<1>2. CASE DrawPicture
  <2> SUFFICES ASSUME faults'.clean PROVE Complete'
    BY DEF Whole
  <2>1. stage = "drawing" /\ symbols = "fit" /\ NextPicture /\ UNCHANGED length
    BY <1>2 DEF DrawPicture
  <2>2. faults' = faults /\ disk' = Put(next, Picture("whole"))
    BY <1>2 DEF DrawPicture, Fault
  <2>3. PICK m \in Nat : Drawn(block, next - 1, m)
    BY <2>1, <2>2 DEF Whole, Complete
  <2>4. PICK k \in Nat :
          /\ DOMAIN disk' = 1 .. k /\ next <= k /\ (block = 0 => k = next)
          /\ \A n \in 1 .. k : disk'[n].kind = "whole"
          /\ \A n \in 1 .. next : disk'[n].packet = PacketAt(block, n)
    BY <2>2, <2>3, PictureDrawn
  <2>5. /\ length \in Nat \ {0} /\ block \in 0 .. Blocks - 1 /\ next \in 1 .. PicturesOf(block)
        /\ Blocks \in Nat \ {0} /\ PicturesOf(block) \in Nat
    <3>1. length \in Nat \ {0} /\ block \in 0 .. Blocks - 1 /\ next \in 1 .. PicturesOf(block)
      BY DEF Typed, EncoderTypes
    <3> QED BY <3>1, Sizes
  <2>6. CASE next < PicturesOf(block)
    <3>1. next' = next + 1 /\ block' = block /\ stage' = "drawing"
      BY <2>1, <2>6 DEF NextPicture
    <3>2. next' - 1 = next
      BY <2>5, <3>1
    <3>3. Drawn(block, next - 1, k)'
      BY <2>4, <3>1, <3>2 DEF Drawn
    <3> QED BY <3>1, <3>3 DEF Complete
  <2>7. CASE ~(next < PicturesOf(block)) /\ block + 1 < Blocks
    <3>1. next' = 1 /\ block' = block + 1 /\ stage' = "drawing"
      BY <2>1, <2>7 DEF NextPicture
    <3>2. next' - 1 = 0 /\ block' # 0 /\ 0 <= k /\ 1 .. 0 = {}
      BY <2>5, <3>1
    <3>3. Drawn(block, next - 1, k)'
      BY <2>4, <3>1, <3>2 DEF Drawn
    <3> QED BY <3>1, <3>3 DEF Complete
  <2>8. CASE ~(next < PicturesOf(block)) /\ ~(block + 1 < Blocks)
    <3>1. stage' = "opening" /\ block = Blocks - 1 /\ next = PicturesOf(block)
      BY <2>1, <2>5, <2>8 DEF NextPicture
    <3>2. Blocks' = Blocks /\ PicturesOf(Blocks - 1)' = PicturesOf(Blocks - 1)
      BY <2>1 DEF Blocks, PicturesOf, K
    <3>3. AllDrawn(k)'
      BY <2>4, <3>1, <3>2 DEF AllDrawn, Drawn
    <3> QED BY <3>1, <3>3 DEF Complete
  <2> QED BY <2>6, <2>7, <2>8
<1> QED BY <1>1, <1>2

\* FFmpeg finds all of them,
LEMMA WholeOpen ==
  ASSUME Typed, Whole, Open
  PROVE  Whole'
<1>1. CASE stage' = "crashed"
  BY <1>1 DEF Whole, Complete
<1>2. CASE stage' # "crashed" /\ faults'.clean
  <2>1. /\ img' \in FirstIndices /\ (\A n \in FirstIndices : img' <= n)
        /\ img' \in DOMAIN disk /\ last' \in DOMAIN disk /\ last' + 1 \notin DOMAIN disk
        /\ pts' = 0 /\ sync' = 0 /\ frames' = <<>> /\ nb0' = <<0, 0, 0>> /\ muxing' = TRUE
        /\ stage' = "reading" /\ stage = "opening" /\ UNCHANGED <<encoder, faults>>
    BY <1>2, OpenFacts
  <2>2. PICK m \in Nat : AllDrawn(m)
    BY <1>2, <2>1 DEF Whole, Complete
  <2>3. DOMAIN disk = 1 .. m
    BY <2>2 DEF AllDrawn, Drawn
  <2>4. img' \in Nat /\ 1 \in FirstIndices
    BY <2>1, <2>3, VideoAssumption DEF FirstIndices, Exists
  <2>5. img' = 1
    BY <2>1, <2>3, <2>4
  <2>6. last' = m
    BY <2>1, <2>3
  <2>7. AllDrawn(m)'
    BY <2>1, <2>2, DrawnStays
  <2>8. OneFrameEach(pts)'
    BY <2>1 DEF OneFrameEach
  <2>9. img' = pts' + 1 /\ sync' = pts' /\ pts' <= m
    BY <2>1, <2>5
  <2> QED BY <2>1, <2>6, <2>7, <2>8, <2>9 DEF Whole, Complete
<1> QED BY <1>1, <1>2 DEF Whole

\* each picture read gets one frame,
LEMMA WholeRead ==
  ASSUME Typed, Whole, ReadPicture
  PROVE  Whole'
<1> SUFFICES ASSUME faults'.clean PROVE Complete'
  BY DEF Whole
<1>1. /\ img \in DOMAIN disk /\ disk[img] \in Pictures /\ img <= last /\ stage = "reading" /\ muxing
      /\ img' = img + 1 /\ pts' = pts + 1 /\ UNCHANGED <<stage, encoder, last>>
  BY ReadFacts
<1>2. /\ OutputTypes /\ pts \in Nat /\ img \in Nat /\ last \in Nat /\ nb0 \in Nat \X Nat \X Nat
      /\ frames \in Seq(Frame)
  BY VideoAssumption DEF Typed, InputTypes, OutputTypes
<1>3. CASE disk[img].kind = "cut" /\ UNCHANGED <<output, muxer, faults>>
  <2>1. faults' = faults
    BY <1>3
  <2>2. PICK m \in Nat : AllDrawn(m)
    BY <1>1, <2>1 DEF Whole, Complete
  <2>3. disk[img].kind = "whole"
    BY <1>1, <2>2 DEF AllDrawn, Drawn
  <2> QED BY <1>3, <2>3
<1>4. CASE DoVideoOut(disk[img], pts)
  <2>1. OutputTypes' /\ Written
    BY <1>1, <1>2, <1>4, VideoOutFacts
  <2>2. muxing' /\ Complete
    BY <1>1, <2>1 DEF Written, Whole
  <2>3. /\ img = pts + 1 /\ sync = pts /\ nb0 = <<0, 0, 0>> /\ Len(frames) = pts
        /\ \A n \in 1 .. pts : frames[n].shows = disk[n]
    BY <1>1, <2>2 DEF Complete, OneFrameEach
  <2>4. PICK m \in Nat : AllDrawn(m) /\ last = m
    BY <1>1, <2>2 DEF Complete
  <2>5. PICK b \in Nat, r \in Seq(Frame) :
          Added(b, r) /\ b + Len(r) = pts + 1 /\ Len(r) = 1 /\ Len(r) \in DOMAIN r /\ r[Len(r)].shows = disk[img]
    BY <1>1, <1>2, <1>4, <2>3, VideoOutFacts
  <2>6. nb0' = <<0, 0, 0>>
    <3>1. nb0' = <<0, nb0[1], nb0[2]>>
      BY <1>1, <1>2, <1>4, <2>3, VideoOutFacts
    <3> QED BY <2>3, <3>1
  <2>7. sync' = pts' /\ img' = pts' + 1
    <3>1. sync' = b + Len(r)
      BY <2>5 DEF Added
    <3> QED BY <1>1, <2>3, <2>5, <3>1
  <2>8. /\ Len(frames') = Len(frames) + Len(r)
        /\ \A i \in DOMAIN frames : i \in DOMAIN frames' /\ frames'[i] = frames[i]
        /\ \A i \in DOMAIN r : Len(frames) + i \in DOMAIN frames' /\ frames'[Len(frames) + i] = r[i]
    BY <1>2, <2>5, AddedFacts
  <2>9. OneFrameEach(pts)'
    <3>1. Len(frames') = pts' /\ disk' = disk /\ DOMAIN frames = 1 .. pts
      BY <1>1, <1>2, <2>3, <2>5, <2>8 DEF encoder
    <3>2. frames'[pts + 1] = r[Len(r)]
      BY <2>3, <2>5, <2>8
    <3>3. \A n \in 1 .. pts' : n \in 1 .. pts \/ n = pts + 1
      BY <1>1, <1>2
    <3>4. \A n \in 1 .. pts' : frames'[n].shows = disk[n]
      BY <2>3, <2>5, <2>8, <3>1, <3>2, <3>3
    <3> QED BY <3>1, <3>4 DEF OneFrameEach
  <2>10. AllDrawn(m)' /\ last' = m /\ pts' <= m
    <3>1. AllDrawn(m)'
      BY <1>1, <2>4, DrawnStays
    <3> QED BY <1>1, <2>3, <2>4, <3>1
  <2> QED BY <1>1, <2>2, <2>6, <2>7, <2>9, <2>10 DEF Complete
<1> QED BY <1>3, <1>4, ReadFacts

\* none is repeated at the end, and none stays behind in the encoder,
LEMMA WholeEnd ==
  ASSUME Typed, Whole, EndOfPictures \/ StopReading \/ FlushEncoders
  PROVE  Whole'
<1> SUFFICES ASSUME faults'.clean PROVE Complete'
  BY DEF Whole
<1>1. OutputTypes /\ frames \in Seq(Frame) /\ pts \in Nat /\ UNCHANGED encoder /\ disk' = disk
  BY DEF Typed, InputTypes, OutputTypes, EndOfPictures, StopReading, FlushEncoders, encoder
<1>2. CASE EndOfPictures
  <2>1. FlushVideoOut /\ stage = "reading" /\ AtEnd /\ stage' = "flushing"
    BY <1>2 DEF EndOfPictures
  <2>2. Written
    BY <1>1, <2>1, FlushFacts
  <2>3. Complete
    BY <2>2 DEF Whole, Written
  <2>4. /\ muxing /\ img = pts + 1 /\ nb0 = <<0, 0, 0>> /\ Len(frames) = pts
        /\ \A n \in 1 .. pts : frames[n].shows = disk[n]
    BY <2>1, <2>3 DEF Complete, OneFrameEach
  <2>5. PICK m \in Nat : AllDrawn(m) /\ last = m /\ pts <= m
    BY <2>1, <2>3 DEF Complete
  <2>6. pts = m
    <3>1. ASSUME img <= m PROVE FALSE
      <4>1. img \in DOMAIN disk /\ disk[img].kind = "whole"
        BY <1>1, <2>4, <2>5, <3>1 DEF AllDrawn, Drawn
      <4>2. Readable(img)
        BY <4>1 DEF Readable, Exists
      <4> QED BY <1>1, <2>1, <2>4, <2>5, <3>1, <4>2 DEF AtEnd
    <3> QED BY <1>1, <2>4, <2>5, <3>1
  <2>7. OneFrameEach(m)'
    <3>1. CASE frames' = frames
      BY <1>1, <2>4, <2>6, <3>1 DEF OneFrameEach
    <3>2. ASSUME NEW r \in Seq(Frame), Added(sync, r), Len(r) = 0 PROVE OneFrameEach(m)'
      <4>0. sync \in Nat
        BY <1>1 DEF OutputTypes
      <4>1. /\ Len(frames') = Len(frames) + Len(r)
            /\ \A i \in DOMAIN frames : frames'[i] = frames[i]
        BY <1>1, <3>2, <4>0, AddedFacts
      <4>2. Len(frames') = m /\ DOMAIN frames = 1 .. m
        BY <1>1, <2>4, <2>6, <3>2, <4>1
      <4> QED BY <1>1, <2>4, <2>6, <4>1, <4>2 DEF OneFrameEach
    <3> QED BY <1>1, <2>1, <2>4, <3>1, <3>2, FlushFacts
  <2>8. AllDrawn(m)' /\ muxing'
    BY <1>1, <2>2, <2>4, <2>5, DrawnStays DEF Written
  <2> QED BY <2>1, <2>7, <2>8 DEF Complete
<1>3. CASE StopReading
  BY <1>3 DEF StopReading, Whole, Complete
<1>4. CASE FlushEncoders
  <2>1. /\ stage = "flushing" /\ stage' = "rating" /\ WriteFrames(Len(frames)) /\ frames' = frames
    BY <1>4 DEF FlushEncoders, output
  <2>2. Len(frames) \in Nat /\ written \in 0 .. Len(frames)
    BY <1>1 DEF OutputTypes
  <2>3. /\ faults.clean
        /\ muxing => written' = IF Len(frames) > written THEN Len(frames) ELSE written
    BY <1>1, <2>1, <2>2, WriteFacts
  <2>4. muxing /\ \E m \in Nat : AllDrawn(m) /\ OneFrameEach(m)
    BY <2>1, <2>3 DEF Whole, Complete
  <2>5. PICK m \in Nat : AllDrawn(m) /\ OneFrameEach(m)
    BY <2>4
  <2>6. written' = m
    BY <2>2, <2>3, <2>4, <2>5 DEF OneFrameEach
  <2>7. AllDrawn(m)' /\ OneFrameEach(m)'
    BY <1>1, <2>1, <2>5, DrawnStays DEF OneFrameEach
  <2> QED BY <2>1, <2>6, <2>7 DEF Complete
<1> QED BY <1>2, <1>3, <1>4

\* and leaving changes nothing of the video.
LEMMA WholeLeave ==
  ASSUME Typed, Whole, Leave
  PROVE  Whole'
<1>1. /\ UNCHANGED <<encoder, output, muxer, faults>>
      /\ stage \in {"rating", "exiting", "resetting"}
      /\ stage' \in {"exiting", "resetting", "played", "crashed"}
  BY DEF Leave, RateErrors, Exit, Reset, ExitProgram, Crash
<1> SUFFICES ASSUME faults.clean, stage' # "crashed" PROVE Complete'
  BY <1>1 DEF Whole, Complete
<1>2. PICK m \in Nat : AllDrawn(m) /\ OneFrameEach(m) /\ written = m
  BY <1>1 DEF Whole, Complete
<1>3. UNCHANGED <<disk, frames, written>>
  BY <1>1 DEF encoder, output, muxer
<1>4. AllDrawn(m)' /\ OneFrameEach(m)' /\ written' = m
  BY <1>1, <1>2, <1>3, DrawnStays DEF OneFrameEach
<1> QED BY <1>1, <1>4 DEF Complete

\* A step that does nothing keeps what is complete.
LEMMA WholeStutters ==
  ASSUME Whole, UNCHANGED vars
  PROVE  Whole'
<1>1. UNCHANGED <<stage, length, symbols, block, next, disk, img, last, pts, sync, frames, nb0, written,
                  muxing, faults>>
  BY DEF vars, encoder, demuxer, output, muxer
<1>2. Blocks' = Blocks /\ PicturesOf(Blocks - 1)' = PicturesOf(Blocks - 1)
  BY <1>1 DEF Blocks, PicturesOf, K
<1> QED BY <1>1, <1>2 DEF Whole, Complete, AllDrawn, Drawn, OneFrameEach

\* When nothing fails the video holds every packet of the last block, each for one frame, and
\* nothing else when there is one block, for every length, symbol size and K_max, however far
\* the doubling of the distances reaches and however many frames the encoder holds back.
THEOREM LastBlockShownHolds == Spec => []LastBlockShown
<1>1. Init => Whole
  BY DEF Init, Whole, Complete
<1>2. Typed /\ Whole => LastBlockShown
  <2> SUFFICES ASSUME Typed, Complete, stage = "played"
               PROVE  /\ \A n \in 1 .. PicturesOf(Blocks - 1) :
                           n <= written /\ frames[n].shows.packet = PacketAt(Blocks - 1, n)
                      /\ Blocks = 1 => written = PicturesOf(0)
    BY DEF LastBlockShown, Whole
  <2>1. PICK m \in Nat : AllDrawn(m) /\ OneFrameEach(m) /\ written = m
    BY DEF Complete
  <2> DEFINE t == PicturesOf(Blocks - 1)
  <2>2. t \in Nat /\ Blocks \in Nat
    <3>1. length \in Nat \ {0}
      BY DEF Typed, EncoderTypes
    <3>2. Blocks \in Nat \ {0}
      BY <3>1, Sizes
    <3>3. Blocks - 1 \in 0 .. Blocks - 1
      BY <3>2
    <3> QED BY <3>1, <3>2, <3>3, Sizes
  <2>3. /\ t <= m /\ (Blocks - 1 = 0 => m = t)
        /\ \A n \in 1 .. t : disk[n].packet = PacketAt(Blocks - 1, n)
        /\ \A n \in 1 .. m : frames[n].shows = disk[n]
    BY <2>1 DEF AllDrawn, Drawn, OneFrameEach
  <2>4. Blocks = 1 => t = PicturesOf(0)
    OBVIOUS
  <2> HIDE DEF t
  <2>5. \A n \in 1 .. t : n \in 1 .. m /\ n <= m
    BY <2>2, <2>3
  <2>6. \A n \in 1 .. t : n <= written /\ frames[n].shows.packet = PacketAt(Blocks - 1, n)
    BY <2>1, <2>3, <2>5
  <2>7. Blocks = 1 => written = PicturesOf(0)
    BY <2>1, <2>3, <2>4
  <2> QED BY <2>6, <2>7 DEF t
<1>3. Typed /\ Whole /\ [Next]_vars => Typed' /\ Whole'
  BY TypesNext, WholeStart, WholeDraw, WholeOpen, WholeRead, WholeEnd, WholeLeave, WholeStutters
     DEF Next, Draw, Transcode
<1>4. Spec => [](Typed /\ Whole)
  BY <1>1, <1>3, TypesInit, PTL DEF Spec
<1> QED BY <1>2, <1>4, PTL
=============================================================================
