------------------------- MODULE MCRaptorQReceiver --------------------------
(* Values for small blocks.                                                 *)
EXTENDS RaptorQReceiver

CONSTANTS f1, f2, junk

\* Different files may well have the same parameters; here they do not.
OneOti  == [c \in {f1, junk} |-> IF c = f1 THEN "oti1" ELSE "junk"]
TwoOtis == [c \in {f1, f2, junk} |->
              CASE c = f1 -> "oti1" [] c = f2 -> "oti2" [] OTHER -> "junk"]

AlwaysSolvable == {}
\* With two source symbols: one set of K + 2 symbols that has not full rank.
OneBadSet == {{1, 2, 3, 4}}
=============================================================================
