--------------------------- MODULE MCOrderRouter ---------------------------
(* Instances of OrderRouter for TLC.                                       *)
EXTENDS OrderRouter

CONSTANTS t1, t2, t3, c1, c2, c3, AAPL, MSFT

MCCallers == {t1, t2, t3}
MCCids    == {c1, c2, c3}
MCSymbols == {AAPL, MSFT}

\* Two orders compete for the lock of a symbol, the third has its own.
MCSymbolOf == [c \in MCCids |-> IF c = c3 THEN MSFT ELSE AAPL]
=============================================================================
