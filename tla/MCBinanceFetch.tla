--------------------------- MODULE MCBinanceFetch ---------------------------
(* BinanceFetch on a small instance: three minutes, pages of two bars.       *)
EXTENDS BinanceFetch

=============================================================================
