------------------------------- MODULE Report -------------------------------
(***************************************************************************)
(* What the performance row and the end-of-day report make of the fills    *)
(* (reporting/): the realized P&L at a running average cost (pnl.py), the  *)
(* strategy that the legs of a day amount to and whether it is the overlay *)
(* that a signal meant (classify.py).                                      *)
(*                                                                         *)
(* A fill has the item that was traded: the underlying itself, with right  *)
(* "", or one of its option contracts.                                     *)
(***************************************************************************)
EXTENDS Integers, FiniteSets, SequencesExt

Items == [right : {"", "CALL", "PUT"}, no : Nat]
Sides == {"BUY", "SELL"}

-----------------------------------------------------------------------------
(* pnl.py, over the fills of one item in the order of their times.         *)

NothingHeld == [held |-> 0, avg |-> 0, gain |-> 0, sold |-> FALSE]

(* A sale is at the average of what was bought before it, on any day; only *)
(* those of the day count.                                                 *)
Booked(book, fill, day) ==
    IF fill.side = "BUY"
    THEN LET h == book.held + fill.qty
         IN  [book EXCEPT !.held = h,
                !.avg = IF h = 0 THEN 0
                        ELSE (@ * book.held + fill.price * fill.qty) \div h]
    ELSE [book EXCEPT !.held = @ - fill.qty,
            !.gain = IF fill.day = day THEN @ + (fill.price - book.avg) * fill.qty ELSE @,
            !.sold = @ \/ fill.day = day]

Before(f, g) == f.ts < g.ts

OfTheDay(fills, day) == {f \in fills : f.day = day}
Relevant(fills, day) == fills

Book(fills, day) ==
    FoldLeft(LAMBDA book, fill : Booked(book, fill, day), NothingHeld,
             SetToSortSeq(Relevant(fills, day), Before))

(* None without a sale on the day.                                         *)
RealizedFromFills(fills, day) ==
    LET books == {Book({f \in fills : f.item = i}, day) : i \in {f.item : f \in fills}}
        sold  == {b \in books : b.sold}
    IN  IF sold = {} THEN {}
        ELSE {FoldSet(LAMBDA i, sum : Book({f \in fills : f.item = i}, day).gain + sum,
                      0, {f.item : f \in fills})}

-----------------------------------------------------------------------------
(* classify.py, over the legs of a day: pairs of an item and a side.       *)

Legs(fills, day) == {<<f.item, f.side>> : f \in OfTheDay(fills, day)}

ClassifyStrategy(legs) ==
    LET Of(right)       == {l \in legs : l[1].right = right}
        Has(right, side) == \E l \in Of(right) : l[2] = side
        stock     == Of("") # {}
        calls     == Of("CALL")
        puts      == Of("PUT")
    IN  CASE stock /\ Has("CALL", "SELL") /\ Has("PUT", "BUY") -> "COLLAR"
          [] stock /\ Has("CALL", "SELL") /\ puts = {} -> "COVERED_CALL"
          [] stock /\ Has("PUT", "BUY") /\ calls = {} -> "PROTECTIVE_PUT"
          [] ~stock /\ Has("PUT", "BUY") /\ Has("PUT", "SELL") -> "BEAR_PUT_SPREAD"
          [] ~stock /\ puts = {} /\ Cardinality(calls) >= 2 -> "CALL_DIAGONAL"
          [] ~stock /\ puts = {} /\ Cardinality(calls) = 1 ->
                IF Has("CALL", "BUY") THEN "LEAP" ELSE "COVERED_CALL_EXISTING"
          [] stock /\ calls = {} /\ puts = {} -> "STOCK"
          [] OTHER -> "STRATEGY"

(* The option legs of an overlay (REGISTRY of overlays.py).                *)
HedgeLegs(intent) ==
    CASE intent = "COVERED_CALL" -> {<<"CALL", "SELL">>}
      [] intent = "PROTECTIVE_PUT" -> {<<"PUT", "BUY">>}
      [] intent = "COLLAR" -> {<<"PUT", "BUY">>, <<"CALL", "SELL">>}
      [] intent = "BEAR_PUT_SPREAD" -> {<<"PUT", "BUY">>, <<"PUT", "SELL">>}
      [] intent = "CALL_DIAGONAL" -> {<<"CALL", "BUY">>, <<"CALL", "SELL">>}
      [] intent = "LEAP" -> {<<"CALL", "BUY">>}
      [] OTHER -> {}

(* The labels that prove the hedge of an overlay.                          *)
IntentProof(intent) ==
    CASE intent = "PROTECTIVE_PUT" -> {"PROTECTIVE_PUT", "COLLAR"}
      [] intent = "COVERED_CALL" -> {"COVERED_CALL", "COVERED_CALL_EXISTING", "COLLAR"}
      [] OTHER -> {intent}
=============================================================================
