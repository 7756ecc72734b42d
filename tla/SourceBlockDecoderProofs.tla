----------------------- MODULE SourceBlockDecoderProofs -----------------------
(***************************************************************************)
(* Proofs about one source block decoder, for every block size, every      *)
(* overhead and every family of singular sets.  Everything a call does to  *)
(* the symbols is in Put, so the work is in the lemmas about Put, here and *)
(* in SymbolsStateProofs; the invariants follow by one case per public     *)
(* method.                                                                 *)
(***************************************************************************)
EXTENDS SourceBlockDecoder, SymbolsStateProofs

\* A packet's symbols are all source or all repair symbols, and there is one at least.
LEMMA PacketSymbols ==
  ASSUME NEW p \in Packets
  PROVE  p \subseteq Source \/ p \subseteq Repair
BY DEF Packets

\* Capping an overhead leaves a natural number.
LEMMA CapType ==
  ASSUME NEW o \in Nat, NEW cap \in Nat
  PROVE  CappedOverhead(o, cap) \in Nat
BY DEF CappedOverhead

\* Decoding is complete, a failure is about the symbols held: the two invariants as
\* predicates of the symbols.
Complete(s) == (Decoded(s) <=> s.sources = Source) /\ (Decoded(s) => s.repairs = {})
Current(s)  == s.state = DECODING_FAILURE => Held(s) \in Singular

\* putEncodingPacket keeps the type, both invariants, and the symbols.
LEMMA PutPreserves ==
  ASSUME NEW s \in Symbols, NEW p, p \subseteq Source \/ p \subseteq Repair,
         Complete(s), Current(s)
  PROVE  /\ Put(s, p) \in Symbols
         /\ Complete(Put(s, p)) /\ Current(Put(s, p))
         /\ s.sources \subseteq Put(s, p).sources
         /\ Decoded(s) => Decoded(Put(s, p))
         /\ ~Decoded(Put(s, p)) => s.repairs \subseteq Put(s, p).repairs
<1>1. CASE Put(s, p) = s
  BY <1>1
<1>2. CASE Put(s, p) # s
  <2>1. PICK a \in Symbols :
          /\ ~Decoded(s)
          /\ \/ p \subseteq Source /\ a = AddSource(s, p)
             \/ p \subseteq Repair /\ a = AddRepair(s, p)
          /\ \/ Put(s, p) = a /\ (Decoded(a) \/ ~HaveEnoughSymbolsToDecode(a))
             \/ Put(s, p) = Decode(a) /\ ~Decoded(a)
    BY <1>2, PutCases
  <2>2. s.sources # Source
    BY <2>1 DEF Complete
  <2>3. /\ s.sources \subseteq a.sources
        /\ ~Decoded(a) => s.repairs \subseteq a.repairs /\ a.state = INCOMPLETE
        /\ Complete(a)
    <3>1. CASE p \subseteq Source /\ a = AddSource(s, p)
      BY <3>1, AddSourceFacts DEF Complete
    <3>2. CASE p \subseteq Repair /\ a = AddRepair(s, p)
      BY <3>2, <2>2, AddRepairFacts DEF Complete
    <3> QED BY <2>1, <3>1, <3>2
  <2>4. Current(a)
    BY <2>3 DEF Current, Decoded, INCOMPLETE, DECODING_FAILURE, DECODED
  <2>5. CASE Put(s, p) = a
    BY <2>1, <2>3, <2>4, <2>5
  <2>6. CASE Put(s, p) = Decode(a) /\ ~Decoded(a)
    <3>1. a.sources # Source
      BY <2>3, <2>6 DEF Complete
    <3>2. Decode(a) \in Symbols /\ a.sources \subseteq Decode(a).sources
      BY DecodeFacts
    <3>3. CASE Decoded(Decode(a)) /\ Decode(a).sources = Source /\ Decode(a).repairs = {}
      BY <2>1, <2>3, <2>6, <3>2, <3>3
         DEF Complete, Current, Decoded, DECODED, DECODING_FAILURE
    <3>4. CASE /\ Decode(a).state = DECODING_FAILURE /\ ~Decoded(Decode(a))
               /\ Decode(a).sources = a.sources /\ Decode(a).repairs = a.repairs
               /\ Held(Decode(a)) \in Singular
      BY <2>1, <2>3, <2>6, <3>1, <3>2, <3>4 DEF Complete, Current
    <3> QED BY <3>3, <3>4, DecodeFacts
  <2> QED BY <2>1, <2>5, <2>6
<1> QED BY <1>1, <1>2

-----------------------------------------------------------------------------
Inv == TypeOK /\ DecodedIsComplete /\ FailureIsCurrent

\* A new decoder holds nothing and is not decoded: a block has a symbol at least.
LEMMA InvInit == Init => Inv
<1> SUFFICES ASSUME Init PROVE Inv
  OBVIOUS
<1>1. CappedOverhead(InitialOverhead, MaxRepairSymbols) \in Nat
  BY CapType, DecoderAssumption
<1>2. 0 \in Source
  BY BlockAssumption DEF Source
<1> QED BY <1>1, <1>2 DEF Init, Inv, TypeOK, DecodedIsComplete, FailureIsCurrent, NewSymbols,
                          Symbols, SourceBlockState, Decoded, INCOMPLETE, DECODED, DECODING_FAILURE

\* One step of the decoder keeps the invariant and forgets nothing.
LEMMA InvNext ==
  ASSUME Inv, [Next]_vars
  PROVE  /\ Inv'
         /\ symbols.sources \subseteq symbols'.sources
         /\ Decoded(symbols) => Decoded(symbols')
         /\ ~Decoded(symbols') => symbols.repairs \subseteq symbols'.repairs
<1> USE DEF Inv
<1>1. ASSUME NEW p \in Packets, PutEncodingPacket(p)
      PROVE  /\ Inv'
             /\ symbols.sources \subseteq symbols'.sources
             /\ Decoded(symbols) => Decoded(symbols')
             /\ ~Decoded(symbols') => symbols.repairs \subseteq symbols'.repairs
  <2>1. symbols' = Put(symbols, p)
    BY <1>1 DEF PutEncodingPacket
  <2>2. symbols \in Symbols /\ Complete(symbols) /\ Current(symbols)
    BY DEF TypeOK, DecodedIsComplete, FailureIsCurrent, Complete, Current
  <2>3. /\ symbols' \in Symbols /\ Complete(symbols') /\ Current(symbols')
        /\ symbols.sources \subseteq symbols'.sources
        /\ Decoded(symbols) => Decoded(symbols')
        /\ ~Decoded(symbols') => symbols.repairs \subseteq symbols'.repairs
    BY <2>1, <2>2, PacketSymbols, PutPreserves
  <2> QED BY <2>1, <2>3 DEF TypeOK, DecodedIsComplete, FailureIsCurrent, Complete, Current
<1>2. ASSUME NEW o \in Overheads, SetSymbolOverhead(o)
      PROVE  /\ Inv'
             /\ symbols.sources \subseteq symbols'.sources
             /\ Decoded(symbols) => Decoded(symbols')
             /\ ~Decoded(symbols') => symbols.repairs \subseteq symbols'.repairs
  <2>1. CappedOverhead(o, MaxRepairSymbols) \in Nat
    BY CapType, DecoderAssumption
  <2>2. /\ symbols' \in Symbols
        /\ symbols'.sources = symbols.sources
        /\ symbols'.repairs = symbols.repairs
        /\ symbols'.state = symbols.state
    BY <1>2, <2>1 DEF SetSymbolOverhead, TypeOK, Symbols
  <2> QED BY <2>2 DEF TypeOK, DecodedIsComplete, FailureIsCurrent, Decoded, Held
<1>3. CASE UNCHANGED vars
  BY <1>3 DEF vars, TypeOK, DecodedIsComplete, FailureIsCurrent, Decoded, Held
<1> QED BY <1>1, <1>2, <1>3 DEF Next

\* The state of the decoder keeps its type, whatever packets and overheads it is given.
THEOREM TypeCorrect == Spec => []TypeOK
<1>1. Inv /\ [Next]_vars => Inv'
  BY InvNext
<1>2. Inv => TypeOK
  BY DEF Inv
<1> QED BY InvInit, <1>1, <1>2, PTL DEF Spec

\* The block is DECODED exactly when it holds all its source symbols, and then no repair
\* symbol: what dataArray copies out after a DECODED is the whole block.
THEOREM DecodedIsCompleteHolds == Spec => []DecodedIsComplete
<1>1. Inv /\ [Next]_vars => Inv'
  BY InvNext
<1>2. Inv => DecodedIsComplete
  BY DEF Inv
<1> QED BY InvInit, <1>1, <1>2, PTL DEF Spec

\* DECODING_FAILURE is never left over from an attempt on fewer symbols.
THEOREM FailureIsCurrentHolds == Spec => []FailureIsCurrent
<1>1. Inv /\ [Next]_vars => Inv'
  BY InvNext
<1>2. Inv => FailureIsCurrent
  BY DEF Inv
<1> QED BY InvInit, <1>1, <1>2, PTL DEF Spec

\* No call loses a symbol of a block that is not decoded, or takes a decoding back.
THEOREM NeverForgetsHolds == Spec => NeverForgets
<1>1. Inv /\ [Next]_vars => Inv'
  BY InvNext
<1>2. Inv /\ [Next]_vars =>
        [/\ symbols.sources \subseteq symbols'.sources
         /\ Decoded(symbols) => Decoded(symbols')
         /\ ~Decoded(symbols') => symbols.repairs \subseteq symbols'.repairs]_vars
  BY InvNext
<1> QED BY InvInit, <1>1, <1>2, PTL DEF Spec, NeverForgets

-----------------------------------------------------------------------------
\* Capping keeps the order of overheads.
LEMMA CapMonotonic ==
  ASSUME NEW o \in Nat, NEW r \in Nat, NEW cap \in Nat, o <= r
  PROVE  CappedOverhead(o, cap) <= CappedOverhead(r, cap)
BY DEF CappedOverhead

\* With the overhead this program uses, which nobody changes (or with one that is only
\* raised once), a decoder that says INCOMPLETE has not got enough symbols: no packet has
\* to arrive before one that is due is decoded.
THEOREM NothingPendingHolds ==
  ASSUME NEW raised \in Nat, InitialOverhead <= raised, Overheads \subseteq {raised}
  PROVE  Spec => []NothingPending
<1> DEFINE Capped == CappedOverhead(raised, MaxRepairSymbols)
           NotAbove == symbols.overhead <= Capped
<1>0. InitialOverhead \in Nat /\ MaxRepairSymbols \in Nat /\ Capped \in Nat
  BY CapType, DecoderAssumption
<1>1. Init => NothingPending /\ NotAbove
  <2> SUFFICES ASSUME Init PROVE NothingPending /\ NotAbove
    OBVIOUS
  <2>1. /\ CappedOverhead(InitialOverhead, MaxRepairSymbols) \in Nat
        /\ CappedOverhead(InitialOverhead, MaxRepairSymbols) <= Capped
    BY <1>0, CapType, CapMonotonic
  <2>2. /\ symbols.sources = {} /\ symbols.repairs = {}
        /\ symbols.overhead = CappedOverhead(InitialOverhead, MaxRepairSymbols)
    BY DEF Init, NewSymbols
  <2>3. Cardinality(symbols.sources) = 0 /\ Cardinality(symbols.repairs) = 0
    BY <2>2, FS_EmptySet
  <2>4. NothingPending
    BY <2>1, <2>2, <2>3, BlockAssumption DEF NothingPending, HaveEnoughSymbolsToDecode
  <2> QED BY <2>1, <2>2, <2>4
<1>2. Inv /\ NothingPending /\ NotAbove /\ [Next]_vars => NothingPending' /\ NotAbove'
  <2> SUFFICES ASSUME Inv, NothingPending, NotAbove, [Next]_vars
               PROVE  NothingPending' /\ NotAbove'
    OBVIOUS
  <2>0. symbols \in Symbols /\ symbols.overhead \in Nat
    BY DEF Inv, TypeOK, Symbols
  <2>1. ASSUME NEW p \in Packets, PutEncodingPacket(p) PROVE NothingPending' /\ NotAbove'
    <3>1. symbols' = Put(symbols, p)
      BY <2>1 DEF PutEncodingPacket
    <3>2. NothingPending'
      BY <2>0, <3>1, PacketSymbols, PutLeavesNothingPending DEF NothingPending
    <3>3. Put(symbols, p).overhead = symbols.overhead
      BY <2>0, PacketSymbols, PutKeepsOverhead
    <3> QED BY <3>1, <3>2, <3>3
  <2>2. ASSUME NEW o \in Overheads, SetSymbolOverhead(o) PROVE NothingPending' /\ NotAbove'
    <3>1. symbols' = [symbols EXCEPT !.overhead = Capped]
      BY <2>2 DEF SetSymbolOverhead
    <3>2. /\ symbols'.overhead = Capped /\ symbols'.state = symbols.state
          /\ symbols'.sources = symbols.sources /\ symbols'.repairs = symbols.repairs
      BY <2>0, <3>1 DEF Symbols
    <3>3. /\ IsFiniteSet(symbols.sources) /\ IsFiniteSet(symbols.repairs)
      BY <2>0, SymbolsFinite
    <3>4. Cardinality(symbols.sources) \in Nat /\ Cardinality(symbols.repairs) \in Nat
      BY <3>3, FS_CardinalityType
    <3> QED BY <1>0, <2>0, <3>2, <3>4, BlockAssumption DEF NothingPending, HaveEnoughSymbolsToDecode
  <2>3. CASE UNCHANGED vars
    BY <2>3 DEF vars, NothingPending, HaveEnoughSymbolsToDecode
  <2> QED BY <2>1, <2>2, <2>3 DEF Next
<1>3. Inv /\ [Next]_vars => Inv'
  BY InvNext
<1> QED BY InvInit, <1>1, <1>2, <1>3, PTL DEF Spec
=============================================================================
