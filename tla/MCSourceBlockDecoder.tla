------------------------ MODULE MCSourceBlockDecoder ------------------------
(* Values for a block of K source symbols and the K + 1 repair symbols its   *)
(* sender emits.                                                             *)
EXTENDS SourceBlockDecoder

\* Sets that cannot be solved: too few symbols, or no rank beyond these two.
MCSingular ==
  { s \in SUBSET ESI :
      \/ Cardinality(s) < K
      \/ s \subseteq ESI \ {K - 1, 2 * K}
      \/ s \subseteq ESI \ {0, 1} }
=============================================================================
