------------------------- MODULE SourceBlockDecoder -------------------------
(***************************************************************************)
(* One source block decoder as its users see it: packets arrive in any     *)
(* order, again and again (the sender's video loops), and the symbol       *)
(* overhead may be changed between them.  Every public method takes the    *)
(* lock of SymbolsState for its whole length, so a call is one step.       *)
(***************************************************************************)
EXTENDS SymbolsState

CONSTANTS
  InitialOverhead,   \* symbol overhead given at construction (2 in this program)
  Overheads,         \* values later passed to setSymbolOverhead
  MaxRepairSymbols,  \* ParameterChecker.numRepairSymbolsPerBlock(K), the cap of the overhead
  MaxSymbolsPerPacket

ASSUME DecoderAssumption ==
  /\ InitialOverhead \in Nat
  /\ Overheads \subseteq Nat
  /\ MaxRepairSymbols \in Nat
  /\ MaxSymbolsPerPacket \in Nat \ {0}

VARIABLE symbols  \* the SymbolsState object

vars == <<symbols>>

\* Packets carry consecutive symbols, all of the same type.
Packets ==
  { p \in { a .. b : a \in ESI, b \in ESI } :
      /\ p # {}
      /\ Cardinality(p) <= MaxSymbolsPerPacket
      /\ p \subseteq Source \/ p \subseteq Repair }

Init == symbols = NewSymbols(CappedOverhead(InitialOverhead, MaxRepairSymbols))

PutEncodingPacket(p) == symbols' = Put(symbols, p)

SetSymbolOverhead(o) ==
  symbols' = [symbols EXCEPT !.overhead = CappedOverhead(o, MaxRepairSymbols)]

Next ==
  \/ \E p \in Packets : PutEncodingPacket(p)
  \/ \E o \in Overheads : SetSymbolOverhead(o)

\* The video is played in a loop: every packet is shown again and again.
Fairness == \A p \in Packets : WF_vars(PutEncodingPacket(p))

Spec == Init /\ [][Next]_vars
FairSpec == Spec /\ Fairness

-----------------------------------------------------------------------------
\* The decoder's state keeps its type.
TypeOK == symbols \in Symbols

\* The block is DECODED exactly when it holds all its source symbols, and then
\* it holds no repair symbol any more (isSourceBlockDecoded, availableRepairSymbols).
DecodedIsComplete ==
  /\ Decoded(symbols) <=> symbols.sources = Source
  /\ Decoded(symbols) => symbols.repairs = {}

\* DECODING_FAILURE is about the symbols held now: an addition made since the
\* failed attempt would have replaced it.
FailureIsCurrent ==
  symbols.state = DECODING_FAILURE => Held(symbols) \in Singular

\* With an overhead nobody lowers, a decoder that still says INCOMPLETE has not
\* got enough symbols: no decoding is ever left pending.
NothingPending ==
  symbols.state = INCOMPLETE => ~HaveEnoughSymbolsToDecode(symbols)

\* A decoder never loses a symbol before it is decoded, and is decoded for good.
NeverForgets ==
  [][/\ symbols.sources \subseteq symbols'.sources
     /\ Decoded(symbols) => Decoded(symbols')
     /\ ~Decoded(symbols') => symbols.repairs \subseteq symbols'.repairs]_vars

\* With packets repeated for ever the block is decoded, failures on the way included.
EventuallyDecoded == <>[]Decoded(symbols)
=============================================================================
