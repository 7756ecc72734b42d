---------------------------- MODULE FECParameters ----------------------------
(***************************************************************************)
(* How a file is cut up: the number of symbols and of source blocks, and   *)
(* the partition of the symbols into blocks.  Sender and receiver compute  *)
(* it from the same parameters.                                            *)
(***************************************************************************)
EXTENDS Integers

CeilDiv(num, den) == (num + (den - 1)) \div den

TotalSymbols(F, T) == CeilDiv(F, T)

\* newParameters is called with the fewest blocks that K_max allows.
MinAllowedNumSourceBlocks(F, T, KMax) ==
  IF CeilDiv(TotalSymbols(F, T), KMax) < 1 THEN 1 ELSE CeilDiv(TotalSymbols(F, T), KMax)

\* I things in J parts: JL parts of IL things before JS parts of IS things.
Partition(I, J) ==
  LET IS == I \div J
      JL == I - IS * J
  IN [IL |-> CeilDiv(I, J), IS |-> IS, JL |-> JL, JS |-> J - JL]

\* The number of source symbols of block sbn out of Z.
GetK(F, T, Z, sbn) ==
  LET p == Partition(TotalSymbols(F, T), Z)
  IN IF sbn < p.JL THEN p.IL ELSE p.IS
=============================================================================
