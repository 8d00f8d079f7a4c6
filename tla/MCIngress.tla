----------------------------- MODULE MCIngress ------------------------------
(* Instances of Ingress for TLC: the bodies that are sent.                 *)
EXTENDS Ingress

CONSTANTS p1, p2, a1

MCPosts == {p1, p2}
MCDrops == {a1}
MCDates == {1, 2}
MCNames == {"A", "B"}

Us == [market |-> "US", name |-> "VDY"]
MCAllowed == {Us}

Plain == [dir |-> "UP", label |-> "", changed |-> TRUE, score |-> {}, points |-> {30},
          ticker |-> [market |-> "", name |-> "VDY"], keys |-> "schema", quoted |-> FALSE,
          overlay |-> "", mark |-> ""]

\* Rows that differ in what they say of their trade, and in their keys and marks.
Meanings == {[Plain EXCEPT !.dir = d, !.label = l, !.changed = n[1], !.score = n[2], !.points = n[3]] :
               d \in {"", "UP", "DOWNGRADE", "SIDEWAYS"}, l \in {"", "BUY", "SELL", "HOLD"},
               n \in {<<TRUE, {459}, {120}>>, <<FALSE, {450}, {30}>>, <<TRUE, {350}, {35}>>,
                      <<TRUE, {}, {}>>}}
Forms == {[Plain EXCEPT !.label = l, !.score = {600}, !.ticker.market = t[1], !.ticker.name = t[2],
                        !.keys = t[3], !.quoted = t[4], !.mark = m] :
            l \in {"", "BUY", "SELL"}, m \in {"", "kept"},
            t \in {<<"", "VDY", "drifted", FALSE>>, <<"CA", "VDY", "schema", FALSE>>,
                   <<"", "", "schema", FALSE>>, <<"", "VDY", "sweep", FALSE>>,
                   <<"", "VDY", "schema", TRUE>>}}
Marks == {[Plain EXCEPT !.label = l, !.score = {600}, !.overlay = o[1], !.mark = o[2]] :
            l \in {"", "BUY", "SELL"},
            o \in {<<"", "">>, <<"", "kept">>, <<"", "list">>, <<"", "event">>,
                   <<"COVERED_CALL", "kept">>, <<"STRADDLE", "">>}}

\* All the rows, those that are valid as they are, and one that cannot be salvaged.
AllRows   == Meanings \cup Forms \cup Marks
ValidRows == {r \in AllRows : StrictRow(r)}
LostRow   == [Plain EXCEPT !.dir = "SIDEWAYS"]

Sweep(rows) == [genuine |-> TRUE, shape |-> "strict", sound |-> TRUE, rows |-> rows,
                targets |-> NoTargets]

\* Bodies with weights, and bodies that fail in one way or another.
Weighted(rows, d, names) ==
    [Sweep(rows) EXCEPT !.targets = [date |-> d, names |-> names, repeated |-> d = 2]]
Faulty == {[Sweep({Plain}) EXCEPT !.genuine = FALSE], [Sweep({Plain}) EXCEPT !.sound = FALSE],
           Sweep({LostRow})}

\* What the adapter finds; its last two it cannot use, like a row to hold.
Seen(l, score, quoted) ==
    Sweep({[Plain EXCEPT !.label = l, !.score = {score}, !.keys = "sweep", !.quoted = quoted]})
Dropped == {Seen("SELL", 600, FALSE), Seen("HOLD", 600, FALSE), Seen("BUY", 459, TRUE),
            [Seen("BUY", 459, FALSE) EXCEPT !.shape = "hopeless"]}

\* A sweep of date 2 repeats a symbol.
MCBodyOf == [f \in MCPosts \cup MCDrops |->
    IF f = p1 THEN {Weighted(AllRows, 1, {"A"})} \cup Faulty
    ELSE IF f = p2 THEN {Weighted(ValidRows, 1, {"B"}), Weighted({Plain}, 2, {"A", "B"})}
    ELSE Dropped]
=============================================================================
