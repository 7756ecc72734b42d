---------------------------- MODULE SymbolsState ----------------------------
(***************************************************************************)
(* The symbols a RaptorQ source block decoder holds and what one call of   *)
(* putEncodingPacket does to them (ArraySourceBlockDecoder and its inner   *)
(* class SymbolsState).  The bytes of a symbol are abstracted away: which  *)
(* encoding symbol ids (ESIs) are present decides everything else, because *)
(* the rank of the constraint matrix depends on the ESIs alone.            *)
(*                                                                         *)
(* Operators only: SourceBlockDecoder wraps them in a state machine, and   *)
(* RaptorQReceiver uses them for the decoder inside the receiving thread.  *)
(***************************************************************************)
EXTENDS Naturals, FiniteSets

CONSTANTS
  K,                \* source symbols of the block
  NumRepairSymbols, \* repair symbols the sender emits: ESIs K .. K + NumRepairSymbols - 1
  Singular          \* sets of ESIs whose constraint matrix is singular

ASSUME BlockAssumption ==
  /\ K \in Nat \ {0}
  /\ NumRepairSymbols \in Nat

Source == 0 .. K - 1
Repair == K .. K + NumRepairSymbols - 1
ESI    == Source \cup Repair

INCOMPLETE       == "INCOMPLETE"
DECODED          == "DECODED"
DECODING_FAILURE == "DECODING_FAILURE"
SourceBlockState == {INCOMPLETE, DECODED, DECODING_FAILURE}

\* The content of SymbolsState: sources is the bit set, repairs the key set of the map.
Symbols == [sources : SUBSET Source, repairs : SUBSET Repair,
            state : SourceBlockState, overhead : Nat]

\* symbOver is capped by the number of repair symbols a block can have at all.
CappedOverhead(symbOver, cap) == IF symbOver <= cap THEN symbOver ELSE cap

NewSymbols(overhead) ==
  [sources |-> {}, repairs |-> {}, state |-> INCOMPLETE, overhead |-> overhead]

Held(s)     == s.sources \cup s.repairs
Missing(s)  == Source \ s.sources
Decoded(s)  == s.state = DECODED

HaveEnoughSymbolsToDecode(s) ==
  Cardinality(s.sources) + Cardinality(s.repairs) >= K + s.overhead

\* Mutant: the repair symbols are not freed.
AddSourceKeepsRepairs(s, esis) ==
  LET got == s.sources \cup esis IN
    [s EXCEPT !.sources = got, !.state = IF got = Source THEN DECODED ELSE INCOMPLETE]

\* Every addition puts the state back to INCOMPLETE; the last missing source
\* symbol makes the block DECODED and frees the repair symbols.
AddSource(s, esis) ==
  LET got == s.sources \cup esis IN
    IF got = Source
      THEN [s EXCEPT !.sources = got, !.repairs = {}, !.state = DECODED]
      ELSE [s EXCEPT !.sources = got, !.state = INCOMPLETE]

\* Mutant: an earlier failure is left in place.
AddRepairKeepsState(s, esis) == [s EXCEPT !.repairs = @ \cup esis]

AddRepair(s, esis) ==
  [s EXCEPT !.repairs = @ \cup esis, !.state = INCOMPLETE]

\* Mutant: the symbols of a failed attempt are thrown away.
DecodeDropsRepairs(s) ==
  IF Held(s) \in Singular
    THEN [s EXCEPT !.repairs = {}, !.state = DECODING_FAILURE]
    ELSE AddSource(s, Missing(s))

\* decode(): solve the linear system, then put every missing source symbol.
Decode(s) ==
  IF Held(s) \in Singular
    THEN [s EXCEPT !.state = DECODING_FAILURE]
    ELSE AddSource(s, Missing(s))

\* Mutants: every symbol is taken for a repair symbol; only a source symbol triggers a
\* decoding; a failure is final.
PutAsRepair(s, esis) ==
  IF Decoded(s) \/ esis \subseteq Held(s) THEN s ELSE AddRepair(s, esis)

PutDecodesOnSource(s, esis) ==
  LET added == IF esis \subseteq Source THEN AddSource(s, esis) ELSE AddRepair(s, esis)
  IN CASE Decoded(s) \/ esis \subseteq Held(s) -> s
       [] OTHER -> IF /\ ~Decoded(added) /\ HaveEnoughSymbolsToDecode(added)
                      /\ esis \subseteq Source
                     THEN Decode(added)
                     ELSE added

PutGivesUp(s, esis) ==
  LET added == IF esis \subseteq Source THEN AddSource(s, esis) ELSE AddRepair(s, esis)
  IN CASE Decoded(s) \/ s.state = DECODING_FAILURE \/ esis \subseteq Held(s) -> s
       [] OTHER -> IF ~Decoded(added) /\ HaveEnoughSymbolsToDecode(added)
                     THEN Decode(added)
                     ELSE added

\* putEncodingPacket of a packet with the symbols esis, all source or all repair.
Put(s, esis) ==
  LET added == IF esis \subseteq Source THEN AddSource(s, esis) ELSE AddRepair(s, esis)
  IN CASE Decoded(s) \/ esis \subseteq Held(s) -> s
       [] OTHER -> IF ~Decoded(added) /\ HaveEnoughSymbolsToDecode(added)
                     THEN Decode(added)
                     ELSE added

\* Whether the call starts a decoding operation (it is announced to the activity first).
StartsDecoding(s, esis) ==
  LET added == IF esis \subseteq Source THEN AddSource(s, esis) ELSE AddRepair(s, esis)
  IN /\ ~Decoded(s)
     /\ ~ esis \subseteq Held(s)
     /\ ~Decoded(added)
     /\ HaveEnoughSymbolsToDecode(added)
=============================================================================
