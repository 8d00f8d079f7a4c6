---------------------------- MODULE MCProjection ----------------------------
(* Instances of Projection for TLC: the accounts.                          *)
EXTENDS Projection

CONSTANTS a, b, c

Stock   == [right |-> "", no |-> 0]
Call(n) == [right |-> "CALL", no |-> n]
Put(n)  == [right |-> "PUT", no |-> n]

D(item, side, qty, price) == [item |-> item, side |-> side, qty |-> qty, price |-> price]

\* Prices whose averages over up to three units are whole.
Shares == (a :> D(Stock, "BUY", 1, 72)) @@ (b :> D(Stock, "BUY", 1, 144)) @@ (c :> D(Stock, "SELL", 1, 120))
Partly == (a :> D(Stock, "BUY", 2, 72)) @@ (c :> D(Stock, "SELL", 1, 120))
Collar == (a :> D(Stock, "BUY", 1, 72)) @@ (b :> D(Put(1), "BUY", 1, 4)) @@ (c :> D(Call(1), "SELL", 1, 3))

MCWorlds ==
    {[paper |-> FALSE, order |-> Shares, intent |-> ""],
     [paper |-> TRUE, order |-> Partly, intent |-> ""],
     [paper |-> FALSE, order |-> Collar, intent |-> "COLLAR"]}
=============================================================================
