---------------------------- MODULE IngressProofs ---------------------------
(***************************************************************************)
(* Proofs about Ingress and Payload for any bodies, files, dates, symbols  *)
(* and allow-list, and for any number of exceptions and crashes.           *)
(***************************************************************************)
EXTENDS Ingress, TLAPS, FiniteSetTheorems

USE IngressAssumption

-----------------------------------------------------------------------------
(* Rows.                                                                   *)

LEMMA ValueIsInt == ASSUME NEW num \in Number PROVE Value(num) \in Int
  <1>1. num \subseteq Int
    BY DEF Number
  <1>2. CASE num = {}
    BY <1>2 DEF Value
  <1>3. CASE num # {}
    <2>1. PICK n : n \in num
      BY <1>3
    <2>2. (CHOOSE m \in num : TRUE) \in num
      BY <2>1
    <2> QED
      BY <1>1, <1>3, <2>2 DEF Value
  <1> QED
    BY <1>2, <1>3

LEMMA ClampedInRange ==
    ASSUME NEW n \in Int
    PROVE  Clamped(n) \in 0..10 /\ (n <= 0 => Clamped(n) = 0)
  BY DEF Clamped

(* The row that coercion reads is a row.                                   *)
LEMMA ReadIsRow ==
    ASSUME NEW r \in Row
    PROVE  /\ Read(r) \in Row
           /\ \A x \in {"dir", "changed", "ticker", "keys", "quoted", "overlay", "mark"} :
                  Read(r)[x] = r[x]
           /\ r.keys # "sweep" => Read(r).label = r.label
           /\ ~r.quoted => Read(r).points = r.points
           /\ r.keys # "sweep" /\ ~r.quoted => Read(r).score = r.score
  <1>1. {} \in Number
    BY FS_EmptySet DEF Number
  <1> QED
    BY <1>1 DEF Read, Row

LEMMA RoundedToInt ==
    ASSUME NEW n \in Int
    PROVE  /\ Rounded(n, 10) \in Int /\ Rounded(n, 100) \in Int
           /\ n <= 50 => Rounded(n, 100) <= 0
           /\ n <= 0 => Rounded(n, 10) <= 0
           /\ n % 10 = 0 => Rounded(n, 10) = n \div 10
  BY DEF Rounded

(* Cutting off tenths before rounding makes no difference to a whole       *)
(* score, and one at most to another.                                      *)
LEMMA TruncatedScore ==
    ASSUME NEW n \in Int
    PROVE  /\ Truncated(n) \in Int
           /\ n % 10 = 0 => Rounded(Truncated(n), 10) = Rounded(n, 100)
           /\ n >= 0 => Rounded(Truncated(n), 10) \in {Rounded(n, 100), Rounded(n, 100) - 1}
           /\ n < 0 => Rounded(Truncated(n), 10) <= 0
  <1>1. Truncated(n) \in Int /\ (n < 0 => Truncated(n) <= 0)
    BY DEF Truncated
  <1>2. ASSUME n % 10 = 0 PROVE Rounded(Truncated(n), 10) = Rounded(n, 100)
    <2>1. PICK m \in Int : n = 10 * m
      BY <1>2
    <2>2. Truncated(n) = m
      BY <2>1 DEF Truncated
    <2>3. n \div 100 = m \div 10 /\ n % 100 = 10 * (m % 10)
      BY <2>1
    <2> QED
      BY <2>2, <2>3 DEF Rounded
  <1>3. ASSUME n >= 0 PROVE Rounded(Truncated(n), 10) \in {Rounded(n, 100), Rounded(n, 100) - 1}
    <2>1. Truncated(n) = n \div 10
      BY <1>3 DEF Truncated
    <2>2. (n \div 10) \div 10 = n \div 100
      BY <1>3
    <2>3. 10 * ((n \div 10) % 10) <= n % 100 /\ n % 100 <= 10 * ((n \div 10) % 10) + 9
      BY <1>3
    <2> QED
      BY <2>1, <2>2, <2>3 DEF Rounded
  <1> QED
    BY <1>1, <1>2, <1>3, RoundedToInt

LEMMA ConvictionIsInt ==
    ASSUME NEW r \in Row, NEW tenth \in Int
    PROVE  /\ Conviction(r.label, tenth) \in Int
           /\ r.label = "BUY" => Conviction(r.label, tenth) \in 0..10
           /\ r.label = "BUY" /\ Conviction(r.label, tenth) > 0 => tenth > 0
  BY ClampedInRange DEF Conviction

LEMMA PointsAreInt == ASSUME NEW r \in Row PROVE Points(r) \in Int
  <1>1. Value(r.score) \in Int /\ Value(r.points) \in Int
    BY ValueIsInt DEF Row
  <1> QED
    BY <1>1, RoundedToInt, ConvictionIsInt DEF Points

LEMMA ChangeIs ==
    ASSUME NEW t \in Tickers, NEW d \in {"UP", "DOWN"}, NEW p \in Int,
           NEW o \in {"", "COVERED_CALL"}, NEW m \in BOOLEAN
    PROVE  [ticker |-> t, direction |-> d, points |-> p, overlay |-> o, marked |-> m] \in Change
  BY DEF Change

(* What the webhook passes on is a set of changes of the strict schema.    *)
LEMMA ChangesAreChanges ==
    ASSUME NEW b \in Body
    PROVE  Salvaged(b.rows) \subseteq Change /\ Changes(b) \subseteq Change
  <1>1. ASSUME NEW r \in Row PROVE CoerceChange(r) \in Change
    <2>1. Points(r) \in Int
      BY PointsAreInt
    <2>2. Direction(r) \in {"UP", "DOWN"} /\ OverlayOf(r) \in {"", "COVERED_CALL"}
      BY DEF Direction, Explicit, OverlayOf, Row
    <2> DEFINE marked == r.mark \in {"kept", "event"}
    <2>3. marked \in BOOLEAN
      OBVIOUS
    <2> HIDE DEF marked
    <2>4. CoerceChange(r) = [ticker |-> r.ticker, direction |-> Direction(r), points |-> Points(r),
                             overlay |-> OverlayOf(r), marked |-> marked]
      BY DEF CoerceChange, marked
    <2>5. r.ticker \in Tickers
      BY DEF Row
    <2> QED
      BY <2>1, <2>2, <2>3, <2>4, <2>5, ChangeIs, Zenon
  <1>2. ASSUME NEW r \in Row, StrictRow(r) PROVE Strict(r) \in Change
    <2>1. Value(r.points) \in Int
      BY ValueIsInt DEF Row
    <2>2. Value(r.points) \div 10 \in Int
      BY <2>1
    <2> DEFINE marked == r.mark \in {"kept", "list"}
               points == Value(r.points) \div 10
    <2>3. marked \in BOOLEAN
      OBVIOUS
    <2>4. /\ r.ticker \in Tickers /\ r.dir \in {"UP", "DOWN"}
          /\ r.overlay \in {"", "COVERED_CALL"}
      BY <1>2 DEF StrictRow, Row
    <2>5. Strict(r) = [ticker |-> r.ticker, direction |-> r.dir, points |-> points,
                       overlay |-> r.overlay, marked |-> marked]
      BY DEF Strict
    <2>6. points \in Int
      BY <2>2
    <2> HIDE DEF marked, points
    <2> QED
      BY <2>3, <2>4, <2>5, <2>6, ChangeIs, Zenon
  <1>3. b.rows \subseteq Row
    BY DEF Body
  <1> QED
    BY <1>1, <1>2, <1>3, ReadIsRow DEF Salvaged, Changes, IsStrict

LEMMA NormalizedAreSignals ==
    ASSUME NEW changes \in SUBSET Change
    PROVE  Normalized(changes) \subseteq Signal
  <1> SUFFICES ASSUME NEW c \in Change PROVE NormalizeChange(c) \in Signal
    BY DEF Normalized
  <1>1. Magnitude(c.points) \in 0..10
    <2>1. c.points \in Int
      BY DEF Change
    <2> QED
      BY <2>1 DEF Magnitude, Clamped
  <1>2. Qualified(c.ticker) \in Tickers
    BY DEF Qualified, Change, Tickers
  <1> QED
    BY <1>1, <1>2 DEF NormalizeChange, Signal, Change

(* Bodies that are being handled are bodies that may be sent.              *)
LEMMA HandlingAreBodies == TypeOK => Handling \subseteq Body
  BY DEF TypeOK, Handling, Files

-----------------------------------------------------------------------------
(* Properties of the rows.                                                 *)

(* A trade that coercion makes of a row is that of the row as it reads it. *)
LEMMA ActionableChanges ==
    ASSUME NEW r \in Row, NEW s \in Trades(Salvaged({r}))
    PROVE  /\ Actionable(Read(r)) /\ Read(r).mark \notin {"kept", "event"}
           /\ s = NormalizeChange(CoerceChange(Read(r))) /\ s.confidence > 0
  <1>1. PICK c \in Salvaged({r}) : ~Malformed(c) /\ s = NormalizeChange(c)
    BY DEF Trades, Normalized
  <1>2. s.confidence > 0 /\ c.overlay = ""
    BY <1>1 DEF Trades, NormalizeChange
  <1>3. Actionable(Read(r)) /\ c = CoerceChange(Read(r))
    BY DEF Salvaged
  <1>4. Read(r).mark \notin {"kept", "event"}
    BY <1>1, <1>2, <1>3 DEF Malformed, CoerceChange
  <1> QED
    BY <1>1, <1>2, <1>3, <1>4

LEMMA SalvagedFollowLabels ==
    ASSUME NEW r \in Row, NEW s \in Trades(Salvaged({r}))
    PROVE  Qualified(r.ticker) = s.symbol /\ r.changed /\ Told(Read(r), s.side)
  <1> DEFINE x == Read(r)
  <1>1. /\ Actionable(x) /\ s.confidence > 0
        /\ s.symbol = Qualified(x.ticker)
        /\ s.side = IF Direction(x) = "UP" THEN "BUY" ELSE "SELL"
        /\ s.confidence = Magnitude(Points(x))
    BY ActionableChanges DEF NormalizeChange, CoerceChange
  <1>2. x \in Row /\ x.ticker = r.ticker /\ x.changed = r.changed
    BY ReadIsRow
  <1>3. x.changed /\ x.dir # "SIDEWAYS"
    BY <1>1 DEF Actionable
  <1> HIDE DEF x
  <1>4. Told(x, s.side)
    <2>1. CASE x.label = "BUY"
      <3> DEFINE tenth == Rounded(Value(x.score), 100)
      <3>1. Value(x.score) \in Int /\ tenth \in Int
        BY <1>2, ValueIsInt, RoundedToInt DEF Row
      <3>2. Value(x.score) > 50 \/ tenth <= 0
        BY <3>1, RoundedToInt
      <3>3. Points(x) = Clamped(tenth)
        BY <2>1 DEF Points, Conviction
      <3> HIDE DEF tenth
      <3>4. tenth > 0
        BY <3>1, <3>3, <1>1 DEF Magnitude, Clamped
      <3>5. s.side = "BUY"
        BY <1>1, <2>1 DEF Direction
      <3> QED
        BY <2>1, <3>1, <3>2, <3>4, <3>5 DEF Told
    <2>2. CASE x.label # "BUY"
      BY <2>2, <1>1, <1>2 DEF Actionable, Direction, Explicit, Row, Told
    <2> QED
      BY <2>1, <2>2
  <1> QED
    BY <1>1, <1>2, <1>3, <1>4 DEF x

(* A row that both writers can read becomes the same trade.                *)
LEMMA SameRowSameSignal ==
    ASSUME NEW r \in Row, Comparable(r)
    PROVE  LET posted  == Normalized(Salvaged({r}))
               dropped == Normalized(Adapted({InSweep(r)}, Allowed))
           IN  /\ {<<s.symbol, s.side>> : s \in posted} = {<<t.symbol, t.side>> : t \in dropped}
               /\ \A s \in posted, t \in dropped : t.confidence \in {s.confidence, s.confidence - 1}
               /\ Whole(r.score) => posted = dropped
  <1> DEFINE x == Read(r)
             w == InSweep(r)
  <1>1. /\ r.keys # "sweep" /\ r.label \in {"BUY", "SELL"} /\ Actionable(r) /\ Named(r)
        /\ Candidates(r, Allowed) = {Qualified(r.ticker)} /\ r.overlay = ""
        /\ r.mark \in {"", "list"} /\ (r.label = "BUY" => ~r.quoted)
    BY DEF Comparable
  <1>2. /\ x.label = r.label /\ x.ticker = r.ticker /\ x.overlay = "" /\ x.mark \in {"", "list"}
        /\ x.dir = r.dir /\ x.changed = r.changed
        /\ r.label = "BUY" => x.score = r.score
    BY <1>1, ReadIsRow
  <1>3. /\ w.label = r.label /\ w.ticker = r.ticker /\ w.score = r.score /\ w.keys = "sweep"
    BY DEF InSweep, Row
  <1> HIDE DEF x, w
  <1>4. Salvaged({r}) = {CoerceChange(x)}
    <2>1. Actionable(x) /\ Named(x)
      BY <1>1, <1>2 DEF Actionable, Named
    <2> QED
      BY <2>1 DEF Salvaged, x
  <1>5. Candidates(w, Allowed) = {Qualified(r.ticker)}
    BY <1>1, <1>3 DEF Candidates
  <1>6. Adapted({w}, Allowed) = {Adapt(w, Allowed)}
    <2>1. Resolved(w, Allowed)
      BY <1>5, FS_Singleton DEF Resolved
    <2> QED
      BY <1>1, <1>3, <2>1 DEF Adapted
  <1> DEFINE c == NormalizeChange(CoerceChange(x))
             a == NormalizeChange(Adapt(w, Allowed))
             n == Value(r.score)
  <1>7. Normalized(Salvaged({r})) = {c} /\ Normalized(Adapted({w}, Allowed)) = {a}
    <2>1. ~Malformed(CoerceChange(x)) /\ ~Malformed(Adapt(w, Allowed))
      BY <1>2 DEF Malformed, CoerceChange, Adapt
    <2> QED
      BY <1>4, <1>6, <2>1 DEF Normalized
  <1>8. c.symbol = a.symbol /\ c.side = a.side /\ c.overlay = a.overlay
    <2>1. (CHOOSE t \in Candidates(w, Allowed) : TRUE) = Qualified(r.ticker)
      BY <1>5
    <2>2. Qualified(Qualified(r.ticker)) = Qualified(r.ticker)
      BY DEF Qualified, Row, Tickers
    <2>3. Direction(x) = IF r.label = "BUY" THEN "UP" ELSE "DOWN"
      BY <1>1, <1>2 DEF Direction
    <2> QED
      BY <1>2, <1>3, <2>1, <2>2, <2>3 DEF NormalizeChange, CoerceChange, Adapt, OverlayOf
  <1>9. n \in Int
    BY ValueIsInt DEF Row
  <1>10. /\ c.confidence = Magnitude(Conviction(r.label, Rounded(n, 100)))
         /\ a.confidence = Magnitude(Conviction(r.label, Rounded(Truncated(n), 10)))
    BY <1>1, <1>2, <1>3 DEF NormalizeChange, CoerceChange, Adapt, Points, Conviction
  <1>11. /\ c.confidence \in Int
         /\ a.confidence \in {c.confidence, c.confidence - 1}
         /\ n % 10 = 0 => a.confidence = c.confidence
    <2> DEFINE k == Rounded(n, 100)
               m == Rounded(Truncated(n), 10)
    <2>1. k \in Int /\ m \in Int
      BY <1>9, RoundedToInt, TruncatedScore
    <2>2. /\ n % 10 = 0 => m = k
          /\ n >= 0 => m \in {k, k - 1}
          /\ n < 0 => m <= 0 /\ k <= 0
      BY <1>9, TruncatedScore, RoundedToInt
    <2> HIDE DEF k, m
    <2>3. Clamped(k) \in 0..10 /\ Clamped(m) \in 0..10 /\ Clamped(m) \in {Clamped(k), Clamped(k) - 1}
      BY <1>9, <2>1, <2>2 DEF Clamped
    <2>4. CASE r.label = "BUY"
      <3>1. c.confidence = Clamped(k) /\ a.confidence = Clamped(m)
        BY <1>10, <2>3, <2>4 DEF Magnitude, Conviction, Clamped, k, m
      <3> QED
        BY <2>2, <2>3, <3>1
    <2>5. CASE r.label # "BUY"
      BY <1>10, <2>5 DEF Magnitude, Conviction, Clamped
    <2> QED
      BY <2>4, <2>5
  <1>12. ASSUME n % 10 = 0 PROVE c = a
    <2>1. c.confidence = a.confidence
      BY <1>11, <1>12
    <2> QED
      BY <1>8, <2>1 DEF NormalizeChange
  <1> HIDE DEF c, a
  <1> QED
    BY <1>7, <1>8, <1>11, <1>12 DEF Whole, n, w

LEMMA SameTruth == ASSUME NEW x, NEW S, NEW T, x \in S <=> x \in T
                   PROVE  (x \in S) = (x \in T)
  OBVIOUS

LEMMA BothSeeKept == ASSUME NEW m, m \in {"", "kept"}
                     PROVE  (m \in {"kept", "event"}) = (m \in {"kept", "list"})
  <1> HIDE IngressAssumption
  <1>1. m \in {"kept", "event"} <=> m \in {"kept", "list"}
    OBVIOUS
  <1> QED
    BY <1>1, SameTruth, Zenon

(* A valid row keeps its meaning when it is coerced.                       *)
LEMMA CoercedValidRow ==
    ASSUME NEW r \in Row, StrictRow(r), Read(r).label = "", r.changed, ~r.quoted,
           r.mark \in {"", "kept"}
    PROVE  Normalized(Salvaged({r})) = Normalized({Strict(r)})
  <1> DEFINE x == Read(r)
  <1>1. /\ x.label = "" /\ x.dir = r.dir /\ x.changed = r.changed /\ x.ticker = r.ticker
        /\ x.points = r.points /\ x.overlay = r.overlay /\ x.mark = r.mark
    BY ReadIsRow
  <1> HIDE DEF x
  <1>2. Actionable(x) /\ Named(x)
    BY <1>1 DEF Actionable, StrictRow, Named
  <1>3. Rounded(Value(r.points), 10) = Value(r.points) \div 10
    <2>1. Value(r.points) \in Int /\ Value(r.points) % 10 = 0
      BY ValueIsInt DEF StrictRow, Whole, Row
    <2> QED
      BY <2>1, RoundedToInt
  <1>4. CoerceChange(x) = Strict(r)
    <2>1. Points(x) = Value(r.points) \div 10
      BY <1>1, <1>3 DEF Points
    <2>2. Direction(x) = r.dir /\ OverlayOf(x) = r.overlay
      BY <1>1 DEF Direction, Explicit, OverlayOf, StrictRow
    <2> DEFINE seen == r.mark \in {"kept", "list"}
    <2>3. (r.mark \in {"kept", "event"}) = seen
      BY BothSeeKept, Zenon
    <2>4. Strict(r) = [ticker |-> r.ticker, direction |-> r.dir, overlay |-> r.overlay,
                       points |-> Value(r.points) \div 10, marked |-> seen]
      BY DEF Strict
    <2>5. CoerceChange(x) = [ticker |-> x.ticker, direction |-> Direction(x), points |-> Points(x),
                             overlay |-> OverlayOf(x), marked |-> r.mark \in {"kept", "event"}]
      BY <1>1 DEF CoerceChange
    <2> HIDE DEF seen
    <2> QED
      BY <1>1, <2>1, <2>2, <2>3, <2>4, <2>5
  <1>5. Salvaged({r}) = {Strict(r)}
    BY <1>2, <1>4 DEF Salvaged, x
  <1> QED
    BY <1>5

(* What a writer sees to mean an overlay is no trade.                      *)
LEMMA MarkedAreNoTrades ==
    ASSUME NEW r \in Row
    PROVE  /\ r.mark \in {"kept", "list"} => Trades({Strict(r)}) = {}
           /\ r.mark \in {"kept", "event"} => Trades(Salvaged({r})) = {}
  <1>1. ASSUME r.mark \in {"kept", "list"}, NEW s \in Trades({Strict(r)}) PROVE FALSE
    <2>1. ~Malformed(Strict(r)) /\ s = NormalizeChange(Strict(r)) /\ s.overlay = ""
      BY <1>1 DEF Trades, Normalized
    <2> QED
      BY <1>1, <2>1 DEF Malformed, Strict, NormalizeChange
  <1>2. ASSUME r.mark \in {"kept", "event"}, NEW s \in Trades(Salvaged({r})) PROVE FALSE
    BY <1>2, ActionableChanges, ReadIsRow
  <1> QED
    BY <1>1, <1>2

-----------------------------------------------------------------------------
(* Types.                                                                  *)

LEMMA BodiesAreTyped ==
    ASSUME NEW f \in Files, NEW b \in BodyOf[f]
    PROVE  /\ b \in Body /\ b.targets \in Targets
           /\ Normalized(Changes(b)) \subseteq Signal
           /\ Accepted(b) \in BOOLEAN
           /\ Posted(b) = [valid |-> Accepted(b), targets |-> b.targets]
  <1>1. b \in Body
    OBVIOUS
  <1>2. Normalized(Changes(b)) \subseteq Signal
    BY <1>1, ChangesAreChanges, NormalizedAreSignals
  <1> QED
    BY <1>1, <1>2 DEF Body, Accepted, Posted, Revalidated, Coercible, IsStrict

LEMMA TypeInit == Init => TypeOK
  BY DEF Init, TypeOK, Steps, Places, NoPayload, NoTargets, Targets

LEMMA TypeNext == TypeOK /\ [Next]_vars => TypeOK'
  <1> SUFFICES ASSUME TypeOK, [Next]_vars PROVE TypeOK'
    OBVIOUS
  <1> USE DEF TypeOK, Steps, Places, writerVars, traderVars, dbVars, history
  <1>1. ASSUME NEW p \in Posts, Receive(p) PROVE TypeOK'
    <2>1. p \in Files
      BY DEF Files
    <2>2. PICK b \in BodyOf[p] :
              \/ UNCHANGED body /\ step' = [step EXCEPT ![p] = "done"]
                                /\ answer' = [answer EXCEPT ![p] = 401]
              \/ body' = [body EXCEPT ![p] = {b}] /\ UNCHANGED answer
                                /\ step' = [step EXCEPT ![p] = "handling"]
      BY <1>1 DEF Receive
    <2>3. step[p] = "new" /\ Normalized(Changes(b)) \subseteq Signal
      BY <1>1, <2>1, BodiesAreTyped DEF Receive
    <2>4. UNCHANGED <<place, content, traderVars, dbVars, history>>
      BY <1>1 DEF Receive
    <2>5. CASE UNCHANGED body /\ step' = [step EXCEPT ![p] = "done"]
                              /\ answer' = [answer EXCEPT ![p] = 401]
      BY <2>1, <2>2, <2>3, <2>4, <2>5
    <2>6. CASE /\ body' = [body EXCEPT ![p] = {b}] /\ UNCHANGED answer
               /\ step' = [step EXCEPT ![p] = "handling"]
      BY <2>1, <2>3, <2>4, <2>6
    <2> QED
      BY <2>2, <2>5, <2>6
  <1>2. ASSUME NEW f \in Files, NEW into \in {"part", "rej-part"},
               NEW what \in [valid : BOOLEAN, targets : Targets], Write(f, into, what)
        PROVE  TypeOK'
    BY <1>2 DEF Write
  <1>3. ASSUME NEW p \in Posts, WritePart(p) PROVE TypeOK'
    BY <1>3, <1>2, BodiesAreTyped DEF WritePart, Files
  <1>4. ASSUME NEW p \in Posts, WriteFails(p) PROVE TypeOK'
    BY <1>4 DEF WriteFails, Files
  <1>5. ASSUME NEW f \in Files, Publish(f) PROVE TypeOK'
    BY <1>5 DEF Publish, Renamed
  <1>6. ASSUME NEW p \in Posts, Respond(p) PROVE TypeOK'
    BY <1>6 DEF Respond, Files
  <1>7. ASSUME NEW f \in Files, Die(f) PROVE TypeOK'
    BY <1>7 DEF Die
  <1>8. ASSUME NEW f \in Drops, Adapter(f) PROVE TypeOK'
    BY <1>8, <1>2 DEF Adapter, Files, Targets
  <1>9. ASSUME NEW f \in Drops, DropByHand(f) PROVE TypeOK'
    BY <1>9 DEF DropByHand, Files
  <1>10. CASE StartPoll
    BY <1>10 DEF StartPoll
  <1>11. ASSUME NEW f \in Files, Take(f) PROVE TypeOK'
    BY <1>11 DEF Take, TakeNext, HasTargets
  <1>11a. ASSUME NEW f \in Files, TakeFails(f) PROVE TypeOK'
    BY <1>11a DEF TakeFails, TakeNext
  <1>12. ASSUME NEW f \in Files, Store(f) PROVE TypeOK'
    <2>1. content[f].targets.names \subseteq Names
      BY DEF Targets, NoTargets
    <2>2. PICK names \in SUBSET Names :
              table' = [table EXCEPT ![content[f].targets.date] = names]
      BY <1>12, <2>1 DEF Store, Replaced
    <2>3. table' \in [Dates -> SUBSET Names]
      BY <2>2
    <2> QED
      BY <1>12, <2>3 DEF Store, Abandon
  <1>13. CASE Commit
    BY <1>13 DEF Commit, Committed
  <1>14. CASE OtherWrite
    BY <1>14 DEF OtherWrite
  <1>15. ASSUME NEW f \in Files, Move(f) PROVE TypeOK'
    BY <1>15 DEF Move, Collected, WhereRejected
  <1>16. ASSUME NEW f \in Files, Route(f) PROVE TypeOK'
    BY <1>16 DEF Route
  <1>17. CASE Return
    BY <1>17 DEF Return
  <1>18. CASE Raise
    BY <1>18 DEF Raise, Abandon
  <1>19. CASE Crash
    BY <1>19 DEF Crash
  <1>20. CASE Restart
    BY <1>20 DEF Restart
  <1>21. CASE UNCHANGED vars
    BY <1>21 DEF vars
  <1>22. ASSUME NEW p \in Posts, Webhook(p) PROVE TypeOK'
    BY <1>22, <1>1, <1>3, <1>4, <1>5, <1>6, <1>7 DEF Webhook, Files
  <1>23. ASSUME NEW f \in Drops, Dropper(f) PROVE TypeOK'
    BY <1>23, <1>5, <1>7, <1>8, <1>9 DEF Dropper, Files
  <1>24. CASE Trader
    BY <1>24, <1>10, <1>11, <1>12, <1>13, <1>15, <1>16, <1>17 DEF Trader
  <1> QED
    BY <1>14, <1>18, <1>19, <1>20, <1>21, <1>22, <1>23, <1>24, <1>11a DEF Next

(* The variables keep their types, and what the webhook makes of a body it *)
(* handles is signals.                                                     *)
THEOREM TypeCorrect == Spec => []TypeOK
  BY TypeInit, TypeNext, PTL DEF Spec

(* The properties of the rows hold of every body there may be.             *)
THEOREM TradesWereTold == Spec => []TradesFollowLabels
  <1>1. TypeOK => TradesFollowLabels
    BY HandlingAreBodies, SalvagedFollowLabels DEF TradesFollowLabels, Body
  <1> QED
    BY <1>1, TypeCorrect, PTL

(* Both writers make the same trade of a row that both can read.           *)
THEOREM WritersAgree == Spec => []DialectsAgree
  <1>1. TypeOK => DialectsAgree
    <2> SUFFICES ASSUME TypeOK, NEW b \in Handling, NEW r \in b.rows, Comparable(r)
                 PROVE  LET posted  == Normalized(Salvaged({r}))
                            dropped == Normalized(Adapted({InSweep(r)}, Allowed))
                        IN  /\ {<<s.symbol, s.side>> : s \in posted}
                                   = {<<t.symbol, t.side>> : t \in dropped}
                            /\ \A s \in posted, t \in dropped :
                                   t.confidence \in {s.confidence, s.confidence - 1}
                            /\ Whole(r.score) => posted = dropped
      BY DEF DialectsAgree
    <2>1. r \in Row
      BY HandlingAreBodies DEF Body
    <2> QED
      BY <2>1, SameRowSameSignal
  <1> QED
    BY <1>1, TypeCorrect, PTL

(* A valid row means the same when it is coerced.                          *)
THEOREM CoercionKeepsValidRows == Spec => []SamePathSameSignal
  <1>1. TypeOK => SamePathSameSignal
    BY HandlingAreBodies, CoercedValidRow DEF SamePathSameSignal, Body
  <1> QED
    BY <1>1, TypeCorrect, PTL

(* No row that is seen to mean an overlay becomes an order of shares.      *)
THEOREM OverlaysAreNeverPlain == Spec => []MarkedNeverPlain
  <1>1. TypeOK => MarkedNeverPlain
    <2> SUFFICES ASSUME TypeOK, NEW b \in Handling, NEW r \in b.rows, MarkSeen(b, r)
                 PROVE  Trades(IF IsStrict(b) THEN {Strict(r)} ELSE Salvaged({r})) = {}
      BY DEF MarkedNeverPlain
    <2>1. r \in Row
      BY HandlingAreBodies DEF Body
    <2>2. r.mark \in (IF IsStrict(b) THEN {"kept", "list"} ELSE {"kept", "event"})
      BY <2>1 DEF MarkSeen, Row
    <2> QED
      BY <2>1, <2>2, MarkedAreNoTrades
  <1> QED
    BY <1>1, TypeCorrect, PTL

-----------------------------------------------------------------------------
(* Files.  A file exists once its writer wrote it, the webhook puts only   *)
(* payloads into the inbox, and answers last of all.                       *)

FileOK(f) ==
    /\ step[f] \in {"new", "handling"} => place[f] = "none" /\ content[f] = NoPayload
    /\ step[f] = "written" => place[f] \in {"part", "rej-part"}
    /\ answer[f] # 0 => step[f] = "done"
    /\ f \in Posts =>
          /\ step[f] = "published" =>
                 place[f] \in {"inbox", "processed", "rejected", "quarantined"}
          /\ place[f] \in {"part", "inbox"} => content[f].valid
          /\ place[f] = "rejected" => f \in unread
          /\ answer[f] = 202 => place[f] \in {"inbox", "processed", "rejected"}

FileInv == \A f \in Files : FileOK(f)

(* The trader takes what is in the inbox, collects what it moved, and      *)
(* hands over what it collected.                                           *)
PollInv ==
    /\ \A f \in batch \cup at : place[f] = "inbox"
    /\ \A f, g \in at : f = g
    /\ batch \cap at = {}
    /\ pc \in {"idle", "down", "polling", "routing"} => at = {}
    /\ pc \in {"idle", "down", "routing"} => batch = {}
    /\ pc \in {"idle", "down"} => got = {}
    /\ \A f \in got : place[f] = "processed" /\ handed[f] = 0
    /\ \A f \in Files : handed[f] = 0 \/ (handed[f] = 1 /\ place[f] = "processed")

TraderVars == <<traderVars, dbVars, history>>

(* A step of a writer leaves the trader alone, and the files that it can   *)
(* see.                                                                    *)
Untouched(f) ==
    /\ place[f] \in {"inbox", "processed", "rejected"} => place'[f] = place[f]
    /\ place'[f] \in {"processed", "rejected"} => place'[f] = place[f]
    /\ place[f] # "none" => content'[f] = content[f]
    /\ content[f].valid => content'[f] = content[f]

FileVars(f) == <<step[f], answer[f], place[f], content[f]>>

LEMMA WriterStep ==
    ASSUME TypeOK, FileInv,
           \/ \E p \in Posts : Webhook(p)
           \/ \E f \in Drops : Dropper(f)
    PROVE  FileInv' /\ UNCHANGED TraderVars /\ \A g \in Files : Untouched(g)
  <1>1. /\ step \in [Files -> Steps] /\ place \in [Files -> Places]
        /\ answer \in [Files -> {0, 202, 400, 401, 500}]
        /\ content \in [Files -> [valid : BOOLEAN, targets : Targets]]
    BY DEF TypeOK
  <1> DEFINE Goal(f) ==
        /\ FileOK(f)' /\ UNCHANGED TraderVars /\ Untouched(f)
        /\ \A g \in Files \ {f} : UNCHANGED FileVars(g)
  <1>2. ASSUME NEW f \in Files, Goal(f)
        PROVE  FileInv' /\ UNCHANGED TraderVars /\ \A g \in Files : Untouched(g)
    <2>1. ASSUME NEW g \in Files \ {f} PROVE FileOK(g)' /\ Untouched(g)
      BY <1>2 DEF FileOK, FileVars, FileInv, Untouched, TraderVars, history
    <2> QED
      BY <1>2, <2>1 DEF FileInv
  <1>3. \A f \in Files : FileOK(f)
    BY DEF FileInv
  <1>4. Posts \cap Drops = {} /\ Posts \subseteq Files /\ Drops \subseteq Files
    BY DEF Files
  <1> HIDE IngressAssumption
  <1> USE <1>1, <1>3, <1>4 DEF FileOK, FileVars, Untouched, Steps, Places, NoPayload, TraderVars
  <1>5. ASSUME NEW p \in Posts, Receive(p) PROVE Goal(p)
    <2>1. UNCHANGED TraderVars
      BY <1>5 DEF Receive
    <2>2. \A g \in Files \ {p} : UNCHANGED FileVars(g)
      BY <1>5 DEF Receive
    <2>3. Untouched(p)
      BY <1>5 DEF Receive
    <2>4. FileOK(p)'
      <3>1. /\ step[p] = "new" /\ place'[p] = place[p] /\ content'[p] = content[p]
            /\ \/ step'[p] = "done"
               \/ step'[p] = "handling" /\ answer'[p] = answer[p]
            /\ answer'[p] \in {answer[p], 401}
        BY <1>5 DEF Receive
      <3>2. p \in Files
        OBVIOUS
      <3> QED
        BY <3>1, <3>2
    <2> QED BY <2>1, <2>2, <2>3, <2>4
  <1>6. ASSUME NEW p \in Posts, WritePart(p) PROVE Goal(p)
    <2>1. PICK b \in body[p] :
              Write(p, IF Accepted(b) THEN "part" ELSE "rej-part", Posted(b))
      BY <1>6 DEF WritePart
    <2>2. step[p] = "handling" /\ Posted(b).valid = Accepted(b)
      BY <1>1, BodiesAreTyped, IngressAssumption DEF TypeOK
    <2> QED
      BY <2>1, <2>2 DEF Write
  <1>7. ASSUME NEW p \in Posts, WriteFails(p) PROVE Goal(p)
    BY <1>7 DEF WriteFails
  <1>8. ASSUME NEW f \in Files, Publish(f) PROVE Goal(f)
    BY <1>8 DEF Publish, Renamed
  <1>9. ASSUME NEW p \in Posts, Respond(p) PROVE Goal(p)
    BY <1>9 DEF Respond, history
  <1>10. ASSUME NEW f \in Files, Die(f) PROVE Goal(f)
    BY <1>10 DEF Die, history
  <1>11. ASSUME NEW f \in Drops, Adapter(f) PROVE Goal(f)
    BY <1>11 DEF Adapter, Write
  <1>12. ASSUME NEW f \in Drops, DropByHand(f) PROVE Goal(f)
    BY <1>12 DEF DropByHand
  <1> HIDE DEF Goal
  <1>13. ASSUME NEW p \in Posts, Webhook(p) PROVE Goal(p)
    BY <1>13, <1>5, <1>6, <1>7, <1>8, <1>9, <1>10 DEF Webhook
  <1>14. ASSUME NEW f \in Drops, Dropper(f) PROVE Goal(f)
    BY <1>14, <1>8, <1>10, <1>11, <1>12 DEF Dropper
  <1> QED
    BY <1>2, <1>13, <1>14

LEMMA FileInvNext == TypeOK /\ FileInv /\ PollInv /\ [Next]_vars => FileInv'
  <1> SUFFICES ASSUME TypeOK, FileInv, PollInv, [Next]_vars PROVE FileInv'
    OBVIOUS
  <1>1. ASSUME NEW f \in Files, Move(f) PROVE FileInv'
    <2>1. place[f] = "inbox" /\ place \in [Files -> Places]
      BY <1>1 DEF Move, PollInv, TypeOK
    <2>2. /\ UNCHANGED <<step, answer, content>>
          /\ unread' = unread
          /\ place' = [place EXCEPT ![f] = IF content[f].valid /\ f \notin unread
                                          THEN "processed" ELSE "rejected"]
      BY <1>1 DEF Move, WhereRejected, writerVars, history
    <2>3. ASSUME NEW g \in Files PROVE FileOK(g)'
      BY <2>1, <2>2 DEF FileInv, FileOK
    <2> QED
      BY <2>3 DEF FileInv
  <1>2. CASE UNCHANGED <<writerVars, place, content, unread>>
    BY <1>2 DEF FileInv, FileOK, writerVars
  <1>3. ASSUME NEW f \in Files, Take(f) \/ TakeFails(f) PROVE FileInv'
    <2>1. place[f] = "inbox"
      BY <1>3 DEF Take, TakeFails, TakeNext, PollInv
    <2>2. UNCHANGED <<step, answer, place, content>>
      BY <1>3 DEF Take, TakeFails, TakeNext, writerVars
    <2>3. \A g \in Files \ {f} : g \in unread => g \in unread'
      BY <1>3 DEF Take, TakeFails
    <2>4. ASSUME NEW g \in Files PROVE FileOK(g)'
      BY <2>1, <2>2, <2>3 DEF FileInv, FileOK
    <2> QED
      BY <2>4 DEF FileInv
  <1>4. ASSUME NEW f \in Files, Store(f) \/ Route(f)
        PROVE  UNCHANGED <<writerVars, place, content, unread>>
    BY <1>4 DEF Store, Route, history
  <1>5. ASSUME StartPoll \/ Commit \/ Return \/ OtherWrite \/ Raise \/ Crash \/ Restart \/ UNCHANGED vars
        PROVE  UNCHANGED <<writerVars, place, content, unread>>
    BY <1>5 DEF StartPoll, Commit, Return, OtherWrite, Raise, Crash, Restart, vars, history
  <1> QED
    BY <1>1, <1>2, <1>3, <1>4, <1>5, WriterStep DEF Next, Trader

LEMMA PollInvNext == TypeOK /\ FileInv /\ PollInv /\ [Next]_vars => PollInv'
  <1> SUFFICES ASSUME TypeOK, FileInv, PollInv, [Next]_vars PROVE PollInv'
    OBVIOUS
  <1>1. ASSUME \/ \E p \in Posts : Webhook(p)
               \/ \E f \in Drops : Dropper(f)
        PROVE  PollInv'
    <2>1. /\ UNCHANGED <<pc, batch, at, got, handed>>
          /\ \A f \in Files : place[f] \in {"inbox", "processed"} => place'[f] = place[f]
      BY <1>1, WriterStep DEF TraderVars, traderVars, history, Untouched
    <2> QED
      BY <2>1 DEF PollInv, TypeOK
  <1> USE DEF PollInv, TypeOK
  <1>2. CASE StartPoll
    BY <1>2 DEF StartPoll, history
  <1>3. ASSUME NEW f \in Files, Take(f) \/ TakeFails(f) PROVE PollInv'
    BY <1>3 DEF Take, TakeFails, TakeNext, HasTargets
  <1>4. ASSUME NEW f \in Files, Store(f) PROVE PollInv'
    BY <1>4 DEF Store, Abandon, history
  <1>5. CASE Commit
    BY <1>5 DEF Commit, history
  <1>6. CASE OtherWrite
    BY <1>6 DEF OtherWrite, traderVars, history
  <1>7. ASSUME NEW f \in Files, Move(f) PROVE PollInv'
    <2>1. /\ pc = "moving" /\ f \in at /\ at = {f} /\ at' = {} /\ batch' = batch
          /\ pc' \in {"polling", "routing"} /\ (pc' = "routing" => batch = {})
          /\ handed' = handed /\ place[f] = "inbox" /\ handed[f] = 0
      BY <1>7 DEF Move, history
    <2>2. f \notin batch'
      BY <1>7, <2>1
    <2>3. \/ place' = [place EXCEPT ![f] = "processed"] /\ got' = got \cup {f}
          \/ place' = [place EXCEPT ![f] = "rejected"] /\ got' = got
      BY <1>7 DEF Move, Collected, WhereRejected
    <2>4. \A g \in batch' \cup at' : place'[g] = "inbox"
      BY <2>1, <2>2, <2>3
    <2>5. \A g \in got' : place'[g] = "processed" /\ handed'[g] = 0
      BY <2>1, <2>3
    <2>6. \A g \in Files : handed'[g] = 0 \/ (handed'[g] = 1 /\ place'[g] = "processed")
      BY <2>1, <2>3
    <2> QED
      BY <2>1, <2>4, <2>5, <2>6
  <1>8. ASSUME NEW f \in Files, Route(f) PROVE PollInv'
    BY <1>8 DEF Route
  <1>9. CASE Return \/ Restart
    BY <1>9 DEF Return, Restart, history
  <1>10. CASE Raise
    BY <1>10 DEF Raise, Abandon
  <1>11. CASE Crash
    BY <1>11 DEF Crash
  <1>12. CASE UNCHANGED vars
    BY <1>12 DEF vars, traderVars, history
  <1> QED
    BY <1>1, <1>2, <1>3, <1>4, <1>5, <1>6, <1>7, <1>8, <1>9, <1>10, <1>11, <1>12 DEF Next, Trader

-----------------------------------------------------------------------------
(* Weights.  A file whose weights repeat a symbol is never processed.      *)
(* Without one of its date, what the connection and the disk hold of a     *)
(* date is the whole of one file, and a date is committed before its file  *)
(* moves.                                                                  *)

OfOneFile(weights) ==
    \A d \in Dates : weights[d] # {} =>
        \/ Repeating(d)
        \/ \E f \in Files : HasTargets(f) /\ content[f].targets.date = d
                                          /\ content[f].targets.names = weights[d]

NoneRepeats == \A d \in Dates : ~Repeating(d)

\* Those it is at and has read.
Taken == {f \in at : f \notin unread /\ HasTargets(f)}

WeightInv ==
    /\ pc \in {"storing", "committing"} => at \subseteq Taken
    /\ pc \in {"committing", "moving"} => \A f \in Taken : ~Repeats(f)
    /\ OfOneFile(table) /\ OfOneFile(disk)
    /\ \A d \in Dates : disk[d] # {} => table[d] # {}
    /\ pc = "committing" => \A f \in Taken : table[content[f].targets.date] # {}
    /\ pc = "moving" => \A f \in Taken : disk[content[f].targets.date] # {}
    /\ \A f \in Files : place[f] = "processed" /\ HasTargets(f) =>
                             ~Repeats(f) /\ disk[content[f].targets.date] # {}
    /\ failures = 0 /\ crashes = 0 /\ NoneRepeats =>
          \A f \in Files : place[f] = "processed" => handed[f] = 1 \/ f \in got

LEMMA TargetsAreTyped ==
    ASSUME TypeOK, NEW f \in Files
    PROVE  /\ content[f].targets.names \subseteq Names
           /\ HasTargets(f) => content[f].targets.date \in Dates
  BY DEF TypeOK, Targets, NoTargets, HasTargets

(* A file that repeats a symbol still does, in the inbox or rejected.      *)
LEMMA RepeatingStays ==
    ASSUME \A f \in Files : place[f] \in {"inbox", "rejected"} /\ Repeats(f) =>
               place'[f] \in {"inbox", "rejected"} /\ content'[f] = content[f]
    PROVE  /\ \A d : Repeating(d) => Repeating(d)'
           /\ NoneRepeats' => NoneRepeats
  BY DEF Repeating, Repeats, HasTargets, NoneRepeats

LEMMA OneFileStays ==
    ASSUME \A f \in Files : place[f] \in {"inbox", "rejected"} /\ Repeats(f) =>
               place'[f] \in {"inbox", "rejected"} /\ content'[f] = content[f],
           \A f \in Files : HasTargets(f) => content'[f] = content[f],
           NEW weights, NEW after, after = weights, OfOneFile(weights)
    PROVE  \A d \in Dates : after[d] # {} =>
              \/ Repeating(d)'
              \/ \E f \in Files : HasTargets(f)' /\ content'[f].targets.date = d
                                                 /\ content'[f].targets.names = after[d]
  <1> SUFFICES ASSUME NEW d \in Dates, after[d] # {}, ~Repeating(d)'
               PROVE  \E f \in Files : HasTargets(f)' /\ content'[f].targets.date = d
                                                      /\ content'[f].targets.names = after[d]
    OBVIOUS
  <1>1. PICK f \in Files : HasTargets(f) /\ content[f].targets.date = d
                                         /\ content[f].targets.names = weights[d]
    BY RepeatingStays DEF OfOneFile
  <1> QED
    BY <1>1 DEF HasTargets

(* What is in the inbox or behind it does not change, nor does its content.*)
LEMMA WriterKeepsWeights ==
    ASSUME TypeOK, FileInv, PollInv, WeightInv,
           \/ \E p \in Posts : Webhook(p)
           \/ \E f \in Drops : Dropper(f)
    PROVE  WeightInv'
  <1>1. UNCHANGED <<pc, batch, at, got, table, disk, handed, unread, failures, crashes>>
    BY WriterStep DEF TraderVars, traderVars, dbVars, history
  <1>2. ASSUME NEW f \in Files
        PROVE  /\ place[f] \in {"inbox", "rejected"} =>
                      place'[f] = place[f] /\ content'[f] = content[f]
               /\ place'[f] = "processed" => place[f] = "processed" /\ content'[f] = content[f]
               /\ HasTargets(f) => HasTargets(f)' /\ content'[f] = content[f]
    BY WriterStep DEF Untouched, HasTargets
  <1>3. NoneRepeats' => NoneRepeats
    BY <1>2, RepeatingStays
  <1>4. OfOneFile(table)' /\ OfOneFile(disk)'
    BY <1>1, <1>2, OneFileStays DEF OfOneFile, WeightInv
  <1>5. \A f \in at : f \in Files /\ place[f] = "inbox"
    BY DEF PollInv, TypeOK
  <1>6. \A f \in at : content'[f] = content[f] /\ HasTargets(f)' = HasTargets(f)
                                               /\ Repeats(f)' = Repeats(f)
    BY <1>2, <1>5 DEF HasTargets, Repeats
  <1>7. Taken' = Taken
    BY <1>1, <1>6 DEF Taken
  <1>8. Taken \subseteq at
    BY DEF Taken
  <1>9. \A f \in Files : place'[f] = "processed" /\ HasTargets(f)' =>
                             ~Repeats(f)' /\ disk[content'[f].targets.date] # {}
    BY <1>2 DEF WeightInv, HasTargets, Repeats
  <1>10. failures = 0 /\ crashes = 0 /\ NoneRepeats' =>
          \A f \in Files : place'[f] = "processed" => handed[f] = 1 \/ f \in got
    BY <1>2, <1>3 DEF WeightInv
  <1> QED
    BY <1>1, <1>4, <1>6, <1>7, <1>8, <1>9, <1>10 DEF WeightInv

(* A file with weights is stored: repeated, it stays where it is; else the *)
(* date is the file's.                                                     *)
LEMMA StoreKeepsWeights ==
    ASSUME TypeOK, PollInv, WeightInv, NEW f \in Files, Store(f)
    PROVE  WeightInv'
  <1> DEFINE t == content[f].targets
  <1>1. /\ pc = "storing" /\ at = {f} /\ place[f] = "inbox" /\ HasTargets(f) /\ f \notin unread
        /\ UNCHANGED <<disk, place, content, handed, unread, failures, crashes>>
    BY DEF Store, PollInv, WeightInv, Taken, writerVars, history
  <1>2. t.date \in Dates /\ table \in [Dates -> SUBSET Names]
    BY <1>1, TargetsAreTyped DEF TypeOK
  <1>3. /\ \A g : Repeats(g)' = Repeats(g) /\ HasTargets(g)' = HasTargets(g)
        /\ \A d : Repeating(d)' = Repeating(d)
        /\ NoneRepeats' = NoneRepeats
        /\ OfOneFile(disk)' = OfOneFile(disk)
    BY <1>1 DEF Repeats, HasTargets, Repeating, NoneRepeats, OfOneFile
  <1>4. CASE t.repeated
    <2>1. Repeating(t.date)
      BY <1>1, <1>4 DEF Repeating, Repeats
    <2>2. PICK part \in (SUBSET t.names) \ {{}} : table' = [table EXCEPT ![t.date] = part]
      BY <1>4 DEF Store, Replaced
    <2>3. \A d \in Dates : table'[d] = IF d = t.date THEN part ELSE table[d]
      BY <1>2, <2>2
    <2>4. \A d \in Dates : disk[d] # {} => table'[d] # {}
      <3>1. part # {}
        OBVIOUS
      <3> QED
        BY <2>3, <3>1 DEF WeightInv
    <2>5. OfOneFile(table)'
      BY <1>1, <1>3, <2>1, <2>3 DEF OfOneFile, WeightInv
    <2>6. pc' = "idle" /\ got' = {} /\ at' = {} /\ ~NoneRepeats
      BY <1>2, <1>4, <2>1 DEF Store, Abandon, NoneRepeats
    <2> QED
      BY <1>1, <1>3, <2>4, <2>5, <2>6 DEF WeightInv
  <1>5. CASE ~t.repeated
    <2>1. table' = [table EXCEPT ![t.date] = t.names] /\ pc' = "committing" /\ at' = at /\ got' = got
      BY <1>5 DEF Store, Replaced
    <2>2. t.names # {}
      BY <1>1 DEF HasTargets
    <2>3. \A d \in Dates : table'[d] = IF d = t.date THEN t.names ELSE table[d]
      BY <1>2, <2>1
    <2>4. \A d \in Dates : disk[d] # {} => table'[d] # {}
      BY <2>2, <2>3 DEF WeightInv
    <2>5. OfOneFile(table)'
      BY <1>1, <1>3, <2>3 DEF OfOneFile, WeightInv
    <2>6. Taken' = {f} /\ ~Repeats(f) /\ table'[t.date] # {}
      BY <1>1, <1>2, <1>3, <1>5, <2>1, <2>2 DEF Taken, Repeats
    <2> QED
      BY <1>1, <1>3, <2>1, <2>4, <2>5, <2>6 DEF WeightInv
  <1> QED
    BY <1>4, <1>5

LEMMA MoveKeepsWeights ==
    ASSUME TypeOK, PollInv, WeightInv, NEW f \in Files, Move(f)
    PROVE  WeightInv'
  <1>1. /\ pc = "moving" /\ f \in at /\ place[f] = "inbox"
        /\ pc' \in {"routing", "polling"} /\ at' = {}
        /\ UNCHANGED <<table, disk, content, handed, unread, failures, crashes>>
    BY DEF Move, PollInv, dbVars, history
  <1>2. \/ /\ place' = [place EXCEPT ![f] = "processed"] /\ got' = got \cup {f} /\ f \notin unread
        \/ /\ place' = [place EXCEPT ![f] = "rejected"] /\ got' = got
    BY DEF Move, Collected, WhereRejected
  <1>3. place \in [Files -> Places]
    BY DEF TypeOK
  <1>4. \A g : HasTargets(g)' = HasTargets(g) /\ Repeats(g)' = Repeats(g)
    BY <1>1 DEF HasTargets, Repeats
  <1>5. f \notin unread /\ HasTargets(f) => ~Repeats(f) /\ disk[content[f].targets.date] # {}
    BY <1>1 DEF WeightInv, Taken
  <1>6. \A g \in Files : place[g] \in {"inbox", "rejected"} /\ Repeats(g) =>
            place'[g] \in {"inbox", "rejected"} /\ content'[g] = content[g]
    BY <1>1, <1>2, <1>3, <1>5 DEF Repeats
  <1>7. OfOneFile(table)' /\ OfOneFile(disk)' /\ (NoneRepeats' => NoneRepeats)
    BY <1>1, <1>6, OneFileStays, RepeatingStays DEF OfOneFile, WeightInv
  <1>8. \A g \in Files : place'[g] = "processed" =>
            (g = f /\ f \notin unread /\ f \in got') \/ (place[g] = "processed" /\ g # f)
    BY <1>1, <1>2, <1>3
  <1>9. \A g \in Files : place'[g] = "processed" /\ HasTargets(g) =>
            ~Repeats(g) /\ disk[content[g].targets.date] # {}
    BY <1>5, <1>8 DEF WeightInv
  <1>10. failures = 0 /\ crashes = 0 /\ NoneRepeats' =>
          \A g \in Files : place'[g] = "processed" => handed[g] = 1 \/ g \in got'
    BY <1>2, <1>7, <1>8 DEF WeightInv
  <1> QED
    BY <1>1, <1>4, <1>7, <1>9, <1>10 DEF WeightInv

(* The other steps of the trader leave the files where they are.           *)
LEMMA WeightInvNext == TypeOK /\ FileInv /\ PollInv /\ WeightInv /\ [Next]_vars => WeightInv'
  <1> SUFFICES ASSUME TypeOK, FileInv, PollInv, WeightInv, [Next]_vars PROVE WeightInv'
    OBVIOUS
  <1>1. ASSUME NEW f \in Files, Store(f) \/ Move(f) PROVE WeightInv'
    BY <1>1, StoreKeepsWeights, MoveKeepsWeights
  <1>2. ASSUME UNCHANGED <<place, content>>
        PROVE  /\ NoneRepeats' = NoneRepeats
               /\ \A f : HasTargets(f)' = HasTargets(f) /\ Repeats(f)' = Repeats(f)
               /\ UNCHANGED <<at, unread>> => Taken' = Taken
               /\ disk' = disk => OfOneFile(disk)' = OfOneFile(disk)
               /\ disk' = table => OfOneFile(disk)' = OfOneFile(table)
               /\ table' = table => OfOneFile(table)' = OfOneFile(table)
               /\ table' = disk => OfOneFile(table)' = OfOneFile(disk)
    BY <1>2 DEF NoneRepeats, Repeating, Repeats, HasTargets, OfOneFile, Taken
  <1>3. \A f \in Files : HasTargets(f) => content[f].targets.date \in Dates
    BY TargetsAreTyped
  <1>4. at \subseteq Files
    BY DEF TypeOK
  <1> USE DEF WeightInv
  <1>5. CASE StartPoll
    BY <1>5, <1>2 DEF StartPoll, PollInv, dbVars, history
  <1>6. ASSUME NEW f \in Files, Take(f) \/ TakeFails(f) PROVE WeightInv'
    <2>1. /\ at' = {f} /\ UNCHANGED <<got, place, content, table, disk, handed, failures, crashes>>
          /\ \/ pc' = "storing" /\ HasTargets(f) /\ f \notin unread'
             \/ pc' = "moving" /\ (f \in unread' \/ ~HasTargets(f))
      BY <1>6 DEF Take, TakeFails, TakeNext, dbVars
    <2>2. \/ pc' = "storing" /\ Taken' = {f}
          \/ pc' = "moving" /\ Taken' = {}
      BY <2>1, <1>2 DEF Taken
    <2> QED
      BY <2>1, <2>2, <1>2
  <1>7. CASE Commit
    <2>1. /\ pc = "committing" /\ pc' = "moving" /\ disk' = table /\ table' = table
          /\ UNCHANGED <<at, got, unread, place, content, handed, failures, crashes>>
      BY <1>7 DEF Commit, Committed, history
    <2>2. \A f \in Files : place[f] = "processed" /\ HasTargets(f) => table[content[f].targets.date] # {}
      BY <1>3
    <2> QED
      BY <2>1, <2>2, <1>2
  <1>8. CASE OtherWrite
    <2>1. /\ pc \in {"idle", "routing"} /\ disk' = table /\ table' = table
          /\ UNCHANGED <<pc, at, got, unread, place, content, handed, failures, crashes>>
      BY <1>8 DEF OtherWrite, traderVars, history
    <2>2. \A f \in Files : place[f] = "processed" /\ HasTargets(f) => table[content[f].targets.date] # {}
      BY <1>3
    <2> QED
      BY <2>1, <2>2, <1>2
  <1>9. ASSUME NEW f \in Files, Route(f) PROVE WeightInv'
    <2>1. /\ pc = "routing" /\ pc' = pc /\ got' = got \ {f} /\ handed' = [handed EXCEPT ![f] = @ + 1]
          /\ UNCHANGED <<at, unread, place, content, table, disk, failures, crashes>>
      BY <1>9 DEF Route, dbVars
    <2>2. f \in got /\ handed \in [Files -> Nat] /\ handed[f] = 0
      BY <1>9 DEF Route, TypeOK, PollInv
    <2>3. \A g \in Files : handed[g] = 1 \/ g \in got => handed'[g] = 1 \/ g \in got'
      BY <2>1, <2>2
    <2> QED
      BY <2>1, <2>3, <1>2
  <1>10. CASE Return \/ Restart
    <2>1. /\ pc' = "idle" /\ at = {} /\ UNCHANGED <<at, unread>> /\ got = {} /\ got' = got
          /\ UNCHANGED <<place, content, table, disk, handed, failures, crashes>>
      BY <1>10 DEF Return, Restart, PollInv, dbVars, history
    <2> QED
      BY <2>1, <1>2
  <1>11. CASE Raise
    <2>1. /\ failures' = failures + 1 /\ pc' = "idle" /\ at' = {}
          /\ UNCHANGED <<place, content, table, disk>>
      BY <1>11 DEF Raise, Abandon, dbVars
    <2>2. failures' # 0
      BY <2>1 DEF TypeOK
    <2> QED
      BY <2>1, <2>2, <1>2
  <1>12. CASE Crash
    <2>1. /\ crashes' = crashes + 1 /\ pc' = "down" /\ at' = {} /\ table' = disk /\ disk' = disk
          /\ UNCHANGED <<place, content>>
      BY <1>12 DEF Crash
    <2>2. crashes' # 0
      BY <2>1 DEF TypeOK
    <2> QED
      BY <2>1, <2>2, <1>2
  <1>13. CASE UNCHANGED vars
    BY <1>13, <1>2 DEF vars, traderVars, dbVars, history
  <1> HIDE DEF WeightInv
  <1>14. CASE Trader
    BY <1>14, <1>1, <1>5, <1>6, <1>7, <1>9, <1>10 DEF Trader
  <1> QED
    BY <1>6, <1>8, <1>10, <1>11, <1>12, <1>13, <1>14, WriterKeepsWeights DEF Next

LEMMA StateInvariant == Spec => [](TypeOK /\ FileInv /\ PollInv /\ WeightInv)
  <1>1. Init => FileInv /\ PollInv /\ WeightInv
    BY DEF Init, FileInv, FileOK, PollInv, WeightInv, Taken, OfOneFile, HasTargets, NoPayload
  <1> QED
    BY <1>1, TypeInit, TypeNext, FileInvNext, PollInvNext, WeightInvNext, PTL DEF Spec

(* Every row keeps its meaning on every path, for any set of rows.         *)
THEOREM RowsMeanTheSame == Spec => []RowsKeepTheirMeaning
  <1>1. TradesFollowLabels /\ DialectsAgree /\ SamePathSameSignal /\ MarkedNeverPlain
            => RowsKeepTheirMeaning
    BY DEF RowsKeepTheirMeaning
  <1> QED
    BY <1>1, TradesWereTold, WritersAgree, CoercionKeepsValidRows, OverlaysAreNeverPlain, PTL

(* A request that was answered 202 is in the inbox or processed, whatever  *)
(* died in between, or rejected because it could not be read.              *)
THEOREM AcceptedPayloadsAreKept == Spec => []AcceptedIsKept
  <1>1. FileInv => AcceptedIsKept
    BY DEF FileInv, FileOK, AcceptedIsKept, Files
  <1> QED
    BY <1>1, StateInvariant, PTL

(* The trader rejects nothing that the webhook put into the inbox, unless  *)
(* it could not read it.                                                   *)
THEOREM EnqueuedPayloadsAreValid == Spec => []OnlyValidIsEnqueued
  <1>1. FileInv => OnlyValidIsEnqueued
    BY DEF FileInv, FileOK, OnlyValidIsEnqueued, Files
  <1> QED
    BY <1>1, StateInvariant, PTL

(* Signals are routed once at most, and once if nothing raised, died or    *)
(* repeats a symbol.                                                       *)
THEOREM FilesAreRoutedOnce == Spec => []RoutedOncePerFile
  <1>1. PollInv /\ WeightInv => RoutedOncePerFile
    BY DEF PollInv, WeightInv, RoutedOncePerFile, NoneRepeats
  <1> QED
    BY <1>1, StateInvariant, PTL

(* The weights of a date are those of one file.                            *)
THEOREM WeightsAreOfOneFile == Spec => []TargetsAreWhole
  <1>1. WeightInv => TargetsAreWhole
    BY DEF WeightInv, TargetsAreWhole, OfOneFile
  <1> QED
    BY <1>1, StateInvariant, PTL

(* A processed file's date has weights on the disk, through any crash.     *)
THEOREM WeightsAreDurable == Spec => []ProcessedTargetsAreDurable
  <1>1. WeightInv => ProcessedTargetsAreDurable
    BY DEF WeightInv, ProcessedTargetsAreDurable
  <1> QED
    BY <1>1, StateInvariant, PTL

(* Weights of a date are whole and durable, for any number of sweeps.      *)
THEOREM WeightsAreKept == Spec => []TargetsAreKept
  <1>1. TargetsAreWhole /\ ProcessedTargetsAreDurable => TargetsAreKept
    BY DEF TargetsAreKept
  <1> QED
    BY <1>1, WeightsAreOfOneFile, WeightsAreDurable, PTL
=============================================================================
