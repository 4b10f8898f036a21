------------------------------ MODULE MCMarts ------------------------------
(* TLC instances of Marts. *)
EXTENDS Marts, TLC

CONSTANTS btc, bar1, bar2

Series   == {btc}
TwoBars  == {bar1, bar2}
TwoRates == {1, 3}
Symmetry == Permutations(TwoBars)

=============================================================================
