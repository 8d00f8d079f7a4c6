------------------------------ MODULE Payload -------------------------------
(***************************************************************************)
(* What the ingress makes of the rows of a sweep: the strict schema        *)
(* (schema.py), the coercion of drifted rows (coerce.py), the adapter of   *)
(* the file drop (routine_adapter.py), and the signals a payload becomes   *)
(* (normalize.py).                                                         *)
(*                                                                         *)
(* A row is what its source may say: a direction, the label of its         *)
(* destination, a score and points in tenths (optional numbers are sets of *)
(* at most one), a ticker with or without its market, an overlay.  Labels  *)
(* stand for their class: BUY for STRONG BUY, SELL for CAUTION and AVOID,  *)
(* HOLD for NEUTRAL and any other.                                         *)
(*                                                                         *)
(* Its keys are those of the schema, of a drifted dialect, or of the       *)
(* ticker sweep, whose label and score (to_signal, composite_score) only   *)
(* the adapter reads.  A mark says that the row means an overlay: "kept"   *)
(* by its driver or the second of the two states of its transition, "list" *)
(* by the last state of a transition that has not two, "event" by an event *)
(* or catalyst that stands in for a missing driver.                        *)
(***************************************************************************)
EXTENDS Integers, FiniteSets

Tickers == [market : {"", "US", "CA"}, name : {"", "VDY"}]
Number  == {num \in SUBSET Int : Cardinality(num) <= 1}

Row == [dir : {"", "UP", "DOWN", "UPGRADE", "DOWNGRADE", "SIDEWAYS"},
        label : {"", "BUY", "SELL", "HOLD"}, changed : BOOLEAN,
        score : Number, points : Number, ticker : Tickers,
        keys : {"schema", "drifted", "sweep"},
        quoted : BOOLEAN,       \* its numbers are numerals in quotes
        overlay : {"", "COVERED_CALL", "STRADDLE"},
        mark : {"", "kept", "list", "event"}]

Change == [ticker : Tickers, direction : {"UP", "DOWN"}, points : Int,
           overlay : {"", "COVERED_CALL"}, marked : BOOLEAN]

Signal == [symbol : Tickers, side : {"BUY", "SELL"}, confidence : 0..10,
           overlay : {"", "COVERED_CALL"}]

Value(num) == IF num = {} THEN 0 ELSE CHOOSE n \in num : TRUE
Whole(num) == Value(num) % 10 = 0
Named(r)   == r.ticker.name # ""

-----------------------------------------------------------------------------
(* schema.py: the rows that validate as they are; a numeral in quotes is a *)
(* number to it.                                                           *)

StrictRow(r) ==
    /\ r.dir \in {"UP", "DOWN"} /\ r.points # {} /\ Whole(r.points)
    /\ Named(r) /\ r.keys # "drifted" /\ r.overlay # "STRADDLE"

Strict(r) ==
    [ticker |-> r.ticker, direction |-> r.dir, points |-> Value(r.points) \div 10,
     overlay |-> r.overlay, marked |-> r.mark \in {"kept", "list"}]

-----------------------------------------------------------------------------
(* coerce.py.                                                              *)

(* The row as coercion reads it: it takes no numeral in quotes.            *)
Read(r) ==
    [r EXCEPT !.label  = IF r.keys = "sweep" THEN "" ELSE @,
              !.score  = IF r.keys = "sweep" \/ r.quoted THEN {} ELSE @,
              !.points = IF r.quoted THEN {} ELSE @]

\* round(n / d), halves to the even side.
Rounded(n, d) ==
    LET q == n \div d
        r == n % d
    IN  IF 2 * r > d \/ (2 * r = d /\ q % 2 = 1) THEN q + 1 ELSE q

Clamped(n) == IF n < 0 THEN 0 ELSE IF n > 10 THEN 10 ELSE n

Conviction(label, tenth) == IF label = "BUY" THEN Clamped(tenth) ELSE -10

Explicit(r) == IF r.dir \in {"UP", "UPGRADE"} THEN "UP" ELSE "DOWN"

DirectionOfArrow(r) == IF r.dir # "" THEN Explicit(r)
                       ELSE IF r.label = "BUY" THEN "UP" ELSE "DOWN"
Direction(r) == IF r.label = "BUY" THEN "UP"
                ELSE IF r.label = "SELL" THEN "DOWN" ELSE Explicit(r)

Points(r) == IF r.label # "" THEN Conviction(r.label, Rounded(Value(r.score), 100))
             ELSE Rounded(Value(r.points), 10)

Actionable(r) ==
    /\ r.dir # "SIDEWAYS" /\ r.changed
    /\ \/ r.label \in {"BUY", "SELL"}
       \/ (r.label = "" /\ r.dir # "" /\ r.points # {})

Broken(r) == r.dir = "SIDEWAYS" \/ (Actionable(r) /\ ~Named(r))

OverlayOf(r) == IF r.overlay = "STRADDLE" THEN "" ELSE r.overlay

(* A transition that has not two states is made anew, of the label.        *)
CoerceChange(r) ==
    [ticker |-> r.ticker, direction |-> Direction(r), points |-> Points(r),
     overlay |-> OverlayOf(r), marked |-> r.mark \in {"kept", "event"}]

Salvaged(rows) ==
    {CoerceChange(r) : r \in {x \in {Read(y) : y \in rows} : Actionable(x) /\ Named(x)}}

Unsalvageable(rows) == Salvaged(rows) = {} /\ \E r \in rows : Broken(Read(r))

-----------------------------------------------------------------------------
(* routine_adapter.py, for a set of allowed symbols.                       *)

\* int(n), in tenths: what is behind the point is cut off.
Truncated(n) == IF n < 0 THEN -((-n) \div 10) ELSE n \div 10

(* int() raises on a numeral in quotes that is not whole, which ends all.  *)
Unreadable(r) == r.keys = "sweep" /\ r.quoted /\ ~Whole(r.score)

Candidates(r, allowed) ==
    IF r.ticker.market # "" THEN {r.ticker}
    ELSE {s \in allowed : s.name = r.ticker.name}

Resolved(r, allowed) == Cardinality(Candidates(r, allowed)) = 1

Adapt(r, allowed) ==
    [ticker |-> CHOOSE s \in Candidates(r, allowed) : TRUE,
     direction |-> IF r.label = "BUY" THEN "UP" ELSE "DOWN",
     points |-> Conviction(r.label, Rounded(Truncated(Value(r.score)), 10)),
     overlay |-> "", marked |-> FALSE]

Adapted(rows, allowed) ==
    {Adapt(r, allowed) : r \in {x \in rows : /\ x.keys = "sweep" /\ x.label \in {"BUY", "SELL"}
                                             /\ Resolved(x, allowed)}}

-----------------------------------------------------------------------------
(* normalize.py.                                                           *)

Qualified(ticker) ==
    IF ticker.market = "" THEN [ticker EXCEPT !.market = "US"] ELSE ticker

Magnitude(n) == Clamped(IF n < 0 THEN -n ELSE n)

NormalizeChange(c) ==
    [symbol |-> Qualified(c.ticker),
     side |-> IF c.direction = "UP" THEN "BUY" ELSE "SELL",
     confidence |-> Magnitude(c.points), overlay |-> c.overlay]

Malformed(c) == c.marked /\ c.overlay = ""

Normalized(changes) == {NormalizeChange(c) : c \in {x \in changes : ~Malformed(x)}}
=============================================================================
