----------------------------- MODULE MCSession -----------------------------
(* Instances of Session for TLC: the symbols of the drops.                 *)
EXTENDS Session

CONSTANTS AAPL, MSFT

MCSymbols == {AAPL, MSFT}

\* Every drop buys the same symbol: the latest one must win.
OneSymbol == [d \in Drops |-> AAPL]
=============================================================================
