----------------------------- MODULE MCCloseBot -----------------------------
(* An instance of CloseBot for TLC.                                        *)
EXTENDS CloseBot

\* A residual above the dust of one min_size but below the 0.01 to which
\* closeSize is floored (BTC and ETH: min_size 0.001, CloseLot 10).
SmallStartPos == {1, 5, 12}

NoFaults == {{}}
=============================================================================
