------------------------- MODULE SymbolsStateProofs -------------------------
(***************************************************************************)
(* Facts about the operators of SymbolsState: what adding a symbol, a      *)
(* decoding operation and putEncodingPacket return.  The proofs about the  *)
(* decoder alone and about the receiving thread both rest on them.         *)
(***************************************************************************)
EXTENDS SymbolsState, FiniteSetTheorems, WellFoundedInduction, TLAPS

\* A set of natural numbers that is not empty has a least element.
LEMMA Least ==
  ASSUME NEW T \in SUBSET Nat, T # {}
  PROVE  \E x \in T : \A y \in T : x <= y
<1>1. IsWellFoundedOn(OpToRel(<, Nat), Nat)
  BY NatLessThanWellFounded
<1>2. PICK x \in T : \A y \in T : ~ (<<y, x>> \in OpToRel(<, Nat))
  BY <1>1, WFMin
<1>3. ASSUME NEW y \in T PROVE x <= y
  <2>1. ~ (<<y, x>> \in OpToRel(<, Nat))
    BY <1>2
  <2>2. ~ (y < x)
    BY <2>1 DEF OpToRel
  <2> QED BY <2>2
<1> QED BY <1>3

\* Adding source symbols (addSourceSymbol): the type is kept, and the block is decoded
\* exactly when the last one came in; otherwise the repair symbols stay.
LEMMA AddSourceFacts ==
  ASSUME NEW s \in Symbols, NEW p \in SUBSET Source
  PROVE  /\ AddSource(s, p) \in Symbols
         /\ AddSource(s, p).overhead = s.overhead
         /\ AddSource(s, p).sources = s.sources \cup p
         /\ Decoded(AddSource(s, p)) => AddSource(s, p).sources = Source
                                        /\ AddSource(s, p).repairs = {}
         /\ ~Decoded(AddSource(s, p)) => /\ AddSource(s, p).sources # Source
                                         /\ AddSource(s, p).state = INCOMPLETE
                                         /\ AddSource(s, p).repairs = s.repairs
<1>1. s.sources \cup p \in SUBSET Source
  BY DEF Symbols
<1>2. CASE s.sources \cup p = Source
  BY <1>1, <1>2 DEF AddSource, Symbols, Decoded, SourceBlockState, DECODED, INCOMPLETE
<1>3. CASE s.sources \cup p # Source
  BY <1>1, <1>3 DEF AddSource, Symbols, Decoded, SourceBlockState, DECODED, INCOMPLETE
<1> QED BY <1>2, <1>3

\* Adding repair symbols (addRepairSymbol).
LEMMA AddRepairFacts ==
  ASSUME NEW s \in Symbols, NEW p \in SUBSET Repair
  PROVE  /\ AddRepair(s, p) \in Symbols
         /\ AddRepair(s, p).overhead = s.overhead
         /\ AddRepair(s, p).sources = s.sources
         /\ AddRepair(s, p).repairs = s.repairs \cup p
         /\ AddRepair(s, p).state = INCOMPLETE
         /\ ~Decoded(AddRepair(s, p))
BY DEF AddRepair, Symbols, Decoded, SourceBlockState, DECODED, INCOMPLETE

\* A decoding operation ends DECODED with every source symbol, or in a failure that keeps
\* the symbols it could not solve.
LEMMA DecodeFacts ==
  ASSUME NEW s \in Symbols
  PROVE  /\ Decode(s) \in Symbols
         /\ Decode(s).overhead = s.overhead
         /\ s.sources \subseteq Decode(s).sources
         /\ \/ /\ Decoded(Decode(s)) /\ Decode(s).sources = Source /\ Decode(s).repairs = {}
            \/ /\ Decode(s).state = DECODING_FAILURE /\ ~Decoded(Decode(s))
               /\ Decode(s).sources = s.sources /\ Decode(s).repairs = s.repairs
               /\ Held(Decode(s)) \in Singular
<1>1. CASE Held(s) \in Singular
  BY <1>1 DEF Decode, Symbols, Held, Decoded, SourceBlockState, DECODING_FAILURE, DECODED
<1>2. CASE Held(s) \notin Singular
  <2> DEFINE m == Missing(s)
             d == AddSource(s, m)
  <2>1. m \in SUBSET Source /\ s.sources \cup m = Source /\ s.sources \subseteq Source
    BY DEF Missing, Symbols
  <2>2. Decode(s) = d
    BY <1>2 DEF Decode
  <2> HIDE DEF m
  <2>3. d \in Symbols /\ d.overhead = s.overhead /\ d.sources = Source
    BY <2>1, AddSourceFacts
  <2>4. Decoded(d) /\ d.repairs = {}
    BY <2>1, AddSourceFacts
  <2> QED BY <2>1, <2>2, <2>3, <2>4
<1> QED BY <1>1, <1>2

\* What one call of putEncodingPacket may change: nothing; or an addition that finds too
\* few symbols or the last source symbol; or an addition and a decoding operation.
LEMMA PutCases ==
  ASSUME NEW s \in Symbols, NEW p, p \subseteq Source \/ p \subseteq Repair
  PROVE  \/ Put(s, p) = s
         \/ /\ ~Decoded(s)
            /\ \E a \in Symbols :
                 /\ \/ p \subseteq Source /\ a = AddSource(s, p)
                    \/ p \subseteq Repair /\ a = AddRepair(s, p)
                 /\ \/ Put(s, p) = a /\ (Decoded(a) \/ ~HaveEnoughSymbolsToDecode(a))
                    \/ Put(s, p) = Decode(a) /\ ~Decoded(a)
<1> DEFINE a == IF p \subseteq Source THEN AddSource(s, p) ELSE AddRepair(s, p)
<1>1. CASE Decoded(s) \/ p \subseteq Held(s)
  BY <1>1 DEF Put
<1>2. CASE ~(Decoded(s) \/ p \subseteq Held(s))
  <2>1. a \in Symbols
    BY AddSourceFacts, AddRepairFacts
  <2>2. \/ p \subseteq Source /\ a = AddSource(s, p)
        \/ p \subseteq Repair /\ a = AddRepair(s, p)
    OBVIOUS
  <2>3. Put(s, p) = IF ~Decoded(a) /\ HaveEnoughSymbolsToDecode(a) THEN Decode(a) ELSE a
    BY <1>2 DEF Put
  <2>4. \/ Put(s, p) = a /\ (Decoded(a) \/ ~HaveEnoughSymbolsToDecode(a))
        \/ Put(s, p) = Decode(a) /\ ~Decoded(a)
    BY <2>3
  <2> HIDE DEF a
  <2> QED BY <1>2, <2>1, <2>2, <2>4
<1> QED BY <1>1, <1>2

\* putEncodingPacket keeps the type of the symbols.
LEMMA PutType ==
  ASSUME NEW s \in Symbols, NEW p, p \subseteq Source \/ p \subseteq Repair
  PROVE  Put(s, p) \in Symbols
<1>1. CASE Put(s, p) = s
  BY <1>1
<1>2. CASE Put(s, p) # s
  <2>1. PICK a \in Symbols : Put(s, p) = a \/ Put(s, p) = Decode(a)
    BY <1>2, PutCases
  <2> QED BY <2>1, DecodeFacts
<1> QED BY <1>1, <1>2

\* After a call, a decoder that says INCOMPLETE has not got enough symbols, if it was so
\* before the call.
LEMMA PutLeavesNothingPending ==
  ASSUME NEW s \in Symbols, NEW p, p \subseteq Source \/ p \subseteq Repair,
         s.state = INCOMPLETE => ~HaveEnoughSymbolsToDecode(s)
  PROVE  Put(s, p).state = INCOMPLETE => ~HaveEnoughSymbolsToDecode(Put(s, p))
<1>1. CASE Put(s, p) = s
  BY <1>1
<1>2. CASE Put(s, p) # s
  <2>1. PICK a \in Symbols :
             \/ Put(s, p) = a /\ (Decoded(a) \/ ~HaveEnoughSymbolsToDecode(a))
             \/ Put(s, p) = Decode(a) /\ ~Decoded(a)
    BY <1>2, PutCases
  <2>2. CASE Put(s, p) = a /\ (Decoded(a) \/ ~HaveEnoughSymbolsToDecode(a))
    BY <2>2 DEF Decoded, DECODED, INCOMPLETE
  <2>3. CASE Put(s, p) = Decode(a)
    <3>1. Decoded(Decode(a)) \/ Decode(a).state = DECODING_FAILURE
      BY DecodeFacts
    <3> QED BY <2>3, <3>1 DEF Decoded, DECODED, INCOMPLETE, DECODING_FAILURE
  <2> QED BY <2>1, <2>2, <2>3
<1> QED BY <1>1, <1>2

\* A block has finitely many symbols.
LEMMA SymbolsFinite ==
  ASSUME NEW s \in Symbols
  PROVE  IsFiniteSet(s.sources) /\ IsFiniteSet(s.repairs)
<1>1. K - 1 \in Int /\ K + NumRepairSymbols - 1 \in Int /\ K \in Int
  BY BlockAssumption
<1>2. IsFiniteSet(Source) /\ IsFiniteSet(Repair)
  BY <1>1, FS_Interval DEF Source, Repair
<1>3. s.sources \subseteq Source /\ s.repairs \subseteq Repair
  BY DEF Symbols
<1> QED BY <1>2, <1>3, FS_Subset

\* A packet does not change the overhead.
LEMMA PutKeepsOverhead ==
  ASSUME NEW s \in Symbols, NEW p, p \subseteq Source \/ p \subseteq Repair
  PROVE  Put(s, p).overhead = s.overhead
<1>1. CASE Put(s, p) = s
  BY <1>1
<1>2. CASE Put(s, p) # s
  <2>1. PICK a \in Symbols :
          /\ \/ p \subseteq Source /\ a = AddSource(s, p)
             \/ p \subseteq Repair /\ a = AddRepair(s, p)
          /\ Put(s, p) = a \/ Put(s, p) = Decode(a)
    BY <1>2, PutCases
  <2>2. a.overhead = s.overhead
    BY <2>1, AddSourceFacts, AddRepairFacts
  <2>3. Decode(a).overhead = a.overhead
    BY DecodeFacts
  <2> QED BY <2>1, <2>2, <2>3
<1> QED BY <1>1, <1>2
=============================================================================
