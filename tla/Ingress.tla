------------------------------ MODULE Ingress -------------------------------
(***************************************************************************)
(* The way of a sweep from its sender to the engine: the webhook           *)
(* (webhook.py) and the adapter (routine_adapter.py) write files into the  *)
(* inbox, the loop of the trader polls them (inbox.py), stores their       *)
(* target weights (db.py) and routes their signals.                        *)
(*                                                                         *)
(* A file is identified with the request or the drop that makes it: what   *)
(* is sent again makes another one.  Its name is random, so a poll takes   *)
(* the files it found in any order.  Of its content a file keeps whether   *)
(* it is a payload, and its target weights; what its rows become is said   *)
(* of the body (Changes, Adapted), for signals are routed file by file.    *)
(***************************************************************************)
EXTENDS Payload

CONSTANTS
    Posts,        \* requests to the webhook
    Drops,        \* files of the adapter, or put into the inbox by hand
    BodyOf,       \* what each of them may carry
    Dates,        \* the dates of sweeps
    Names,        \* the symbols of target weights
    Allowed,      \* the allow-list of the adapter
    MaxFailures,  \* bound: calls of the trader that raise
    MaxCrashes    \* bound: crashes of the trader

(* Target weights are those of some symbols on a date, one of which may be *)
(* repeated; no symbols, no weights.                                       *)
NoTargets == [date |-> 0, names |-> {}, repeated |-> FALSE]
Targets   == [date : Dates, names : SUBSET Names, repeated : BOOLEAN] \cup {NoTargets}

(* A body has the keys of the schema or of a drifted dialect, or neither   *)
(* an id nor a time; the fields it carries besides its rows are sound, or  *)
(* some are not.                                                           *)
Body == [genuine : BOOLEAN, shape : {"strict", "drifted", "hopeless"},
         sound : BOOLEAN, rows : SUBSET Row, targets : Targets]

Files == Posts \cup Drops

ASSUME IngressAssumption ==
    /\ Posts \cap Drops = {} /\ Dates \subseteq Nat \ {0}
    /\ \A f \in Files : BodyOf[f] \subseteq Body
    /\ MaxFailures \in Nat /\ MaxCrashes \in Nat

VARIABLES
    step,       \* where the writer of each file is
    body,       \* the bodies it works on, at most one
    answer,     \* the status of each request, 0 for none
    place,      \* where each file is
    content     \* what is in it

VARIABLES
    pc,         \* the next step of the trader
    batch,      \* the files its poll still has to take
    at,         \* those it is at, at most one
    got,        \* the files whose signals it collected
    table,      \* the weights of each date as its connection sees them
    disk        \* as committed

VARIABLES          \* history
    handed,     \* how often the signals of a file were routed
    unread,     \* the files whose last reading raised
    failures, crashes

writerVars == <<step, body, answer>>
traderVars == <<pc, batch, at, got>>
dbVars     == <<table, disk>>
history    == <<handed, unread, failures, crashes>>
vars == <<writerVars, place, content, traderVars, dbVars, history>>

(* What the webhook makes of the rows of a body: they stay as they are if  *)
(* all of it is valid, and are coerced otherwise.                          *)
IsStrict(b) == b.shape = "strict" /\ b.sound /\ \A r \in b.rows : StrictRow(r)

Coercible(b) == b.shape # "hopeless" /\ ~Unsalvageable(b.rows)

Changes(b) == IF IsStrict(b) THEN {Strict(r) : r \in b.rows} ELSE Salvaged(b.rows)

NoPayload == [valid |-> FALSE, targets |-> NoTargets]

Steps  == {"new", "handling", "written", "published", "done"}
Places == {"none", "part", "inbox", "processed", "rejected", "rej-part", "quarantined"}

TypeOK ==
    /\ step \in [Files -> Steps] /\ answer \in [Files -> {0, 202, 400, 401, 500}]
    /\ DOMAIN body = Files
    /\ \A f \in Files : body[f] \subseteq BodyOf[f] /\ (body[f] # {} <=> step[f] = "handling")
    /\ \A f \in Files : \A b \in body[f] : Normalized(Changes(b)) \subseteq Signal
    /\ place \in [Files -> Places]
    /\ content \in [Files -> [valid : BOOLEAN, targets : Targets]]
    /\ pc \in {"idle", "polling", "storing", "committing", "moving", "routing", "down"}
    /\ batch \subseteq Files /\ at \subseteq Files /\ got \subseteq Files
    /\ table \in [Dates -> SUBSET Names] /\ disk \in [Dates -> SUBSET Names]
    /\ handed \in [Files -> Nat] /\ unread \subseteq Files
    /\ failures \in 0..MaxFailures /\ crashes \in 0..MaxCrashes

Init ==
    /\ step = [f \in Files |-> "new"] /\ body = [f \in Files |-> {}]
    /\ answer = [f \in Files |-> 0]
    /\ place = [f \in Files |-> "none"] /\ content = [f \in Files |-> NoPayload]
    /\ pc = "idle" /\ batch = {} /\ at = {} /\ got = {}
    /\ table = [d \in Dates |-> {}] /\ disk = [d \in Dates |-> {}]
    /\ handed = [f \in Files |-> 0] /\ unread = {} /\ failures = 0 /\ crashes = 0

-----------------------------------------------------------------------------
(* The writers.                                                            *)

Revalidated(b) == b.sound

Accepted(b) == IsStrict(b) \/ (Coercible(b) /\ Revalidated(b))

(* What the webhook writes, into the inbox or aside.                       *)
Posted(b) ==
    [valid |-> IsStrict(b) \/ (Coercible(b) /\ b.sound),
     targets |-> b.targets]

Receive(p) ==
    /\ step[p] = "new"
    /\ \E b \in BodyOf[p] :
          \/ /\ ~b.genuine
             /\ step' = [step EXCEPT ![p] = "done"]
             /\ answer' = [answer EXCEPT ![p] = 401]
             /\ UNCHANGED body
          \/ /\ b.genuine
             /\ step' = [step EXCEPT ![p] = "handling"]
             /\ body' = [body EXCEPT ![p] = {b}]
             /\ UNCHANGED answer
    /\ UNCHANGED <<place, content, traderVars, dbVars, history>>

(* The body goes into a temporary file of its directory.                   *)
Write(f, into, what) ==
    /\ step' = [step EXCEPT ![f] = "written"]
    /\ body' = [body EXCEPT ![f] = {}]
    /\ place' = [place EXCEPT ![f] = into]
    /\ content' = [content EXCEPT ![f] = what]
    /\ UNCHANGED <<answer, traderVars, dbVars, history>>

WritePart(p) ==
    \E b \in body[p] :
        Write(p, IF Accepted(b) THEN "part" ELSE "rej-part", Posted(b))

WriteFails(p) ==
    /\ step[p] = "handling"
    /\ step' = [step EXCEPT ![p] = "done"] /\ body' = [body EXCEPT ![p] = {}]
    /\ answer' = [answer EXCEPT ![p] = 500]
    /\ UNCHANGED <<place, content, traderVars, dbVars, history>>

NotRenamed(f) == place[f]
Renamed(f)    == IF place[f] = "part" THEN "inbox" ELSE "quarantined"

Publish(f) ==
    /\ step[f] = "written"
    /\ step' = [step EXCEPT ![f] = IF f \in Posts THEN "published" ELSE "done"]
    /\ place' = [place EXCEPT ![f] = Renamed(f)]
    /\ UNCHANGED <<body, answer, content, traderVars, dbVars, history>>

Respond(p) ==
    /\ step[p] = "published"
    /\ step' = [step EXCEPT ![p] = "done"]
    /\ answer' = [answer EXCEPT ![p] = IF place[p] = "quarantined" THEN 400 ELSE 202]
    /\ UNCHANGED <<body, place, content, traderVars, dbVars, history>>

(* The process of the writer dies, the answer is lost with it.             *)
Die(f) ==
    /\ step[f] \in {"handling", "written", "published"}
    /\ step' = [step EXCEPT ![f] = "done"] /\ body' = [body EXCEPT ![f] = {}]
    /\ UNCHANGED <<answer, place, content, traderVars, dbVars, history>>

(* The adapter: a sweep without an id, or without a signal that it can     *)
(* use, makes no file.                                                     *)
Adapter(f) ==
    /\ step[f] = "new"
    /\ \E b \in BodyOf[f] :
          /\ b.shape # "hopeless" /\ \A r \in b.rows : ~Unreadable(r)
          /\ Adapted(b.rows, Allowed) # {}
          /\ Write(f, "part", [valid |-> TRUE, targets |-> NoTargets])

(* Somebody drops a file that is no payload.                               *)
DropByHand(f) ==
    /\ step[f] = "new"
    /\ step' = [step EXCEPT ![f] = "done"] /\ place' = [place EXCEPT ![f] = "inbox"]
    /\ UNCHANGED <<body, answer, content, traderVars, dbVars, history>>

-----------------------------------------------------------------------------
(* The trader.                                                             *)

StartPoll ==
    /\ pc = "idle" /\ \E f \in Files : place[f] = "inbox"
    /\ pc' = "polling" /\ batch' = {f \in Files : place[f] = "inbox"}
    /\ UNCHANGED <<at, got, writerVars, place, content, dbVars, history>>

HasTargets(f) == content[f].valid /\ content[f].targets.names # {}

(* Read and validate the next file.                                        *)
TakeNext(f) ==
    /\ pc = "polling" /\ f \in batch
    /\ batch' = batch \ {f} /\ at' = {f}
    /\ UNCHANGED <<got, writerVars, place, content, dbVars, handed, failures, crashes>>

Take(f) ==
    /\ TakeNext(f) /\ unread' = unread \ {f}
    /\ pc' = IF HasTargets(f) THEN "storing" ELSE "moving"

(* read_text raises an OSError: poll catches it where it catches what the  *)
(* validation raises, and treats the file as a malformed one.              *)
TakeFails(f) ==
    /\ TakeNext(f) /\ unread' = unread \cup {f} /\ pc' = "moving"

(* An exception leaves poll, or run_once: the signals collected are lost,  *)
(* and the next iteration starts over with what is in the inbox.           *)
Abandon == pc' = "idle" /\ batch' = {} /\ at' = {} /\ got' = {}

(* upsert_target_weights: the rows of the date go, those of the file come. *)
(* A repeated symbol violates the primary key: sqlite raises before the    *)
(* rows behind it, nothing is rolled back and poll does not catch it.      *)
AddedTo(old, new)  == old \cup new
Replaced(old, new) == new

Store(f) ==
    /\ pc = "storing" /\ f \in at
    /\ LET t == content[f].targets
       IN  IF t.repeated
           THEN /\ \E part \in (SUBSET t.names) \ {{}} :
                      table' = [table EXCEPT ![t.date] = Replaced(@, part)]
                /\ Abandon
           ELSE /\ table' = [table EXCEPT ![t.date] = Replaced(@, t.names)]
                /\ pc' = "committing" /\ UNCHANGED <<batch, at, got>>
    /\ UNCHANGED <<disk, writerVars, place, content, history>>

Committed == table

Commit ==
    /\ pc = "committing" /\ pc' = "moving" /\ disk' = Committed
    /\ UNCHANGED <<batch, at, got, table, writerVars, place, content, history>>

(* Any other write of the engine commits what the connection holds.        *)
OtherWrite ==
    /\ pc \in {"idle", "routing"} /\ disk # table /\ disk' = table
    /\ UNCHANGED <<table, traderVars, writerVars, place, content, history>>

OnlyLast(f)     == {f}
Collected(f) == got \cup {f}

LeftInPlace     == "inbox"
WhereRejected == "rejected"

Move(f) ==
    /\ pc = "moving" /\ f \in at /\ at' = {}
    /\ pc' = IF batch = {} THEN "routing" ELSE "polling"
    /\ IF content[f].valid /\ f \notin unread
       THEN place' = [place EXCEPT ![f] = "processed"] /\ got' = Collected(f)
       ELSE place' = [place EXCEPT ![f] = WhereRejected] /\ UNCHANGED got
    /\ UNCHANGED <<batch, writerVars, content, dbVars, history>>

Route(f) ==
    /\ pc = "routing" /\ f \in got
    /\ got' = got \ {f} /\ handed' = [handed EXCEPT ![f] = @ + 1]
    /\ UNCHANGED <<pc, batch, at, unread, failures, crashes, writerVars, place, content, dbVars>>

Return ==
    /\ pc = "routing" /\ got = {} /\ pc' = "idle"
    /\ UNCHANGED <<batch, at, got, writerVars, place, content, dbVars, history>>

(* The DB, the file system, or the engine raises.                          *)
Raise ==
    /\ pc \in {"storing", "committing", "moving", "routing"} /\ failures < MaxFailures
    /\ failures' = failures + 1 /\ Abandon
    /\ UNCHANGED <<handed, unread, crashes, writerVars, place, content, dbVars>>

Crash ==
    /\ pc # "down" /\ crashes < MaxCrashes /\ crashes' = crashes + 1
    /\ pc' = "down" /\ batch' = {} /\ at' = {} /\ got' = {} /\ table' = disk
    /\ UNCHANGED <<disk, handed, unread, failures, writerVars, place, content>>

Restart ==
    /\ pc = "down" /\ pc' = "idle"
    /\ UNCHANGED <<batch, at, got, writerVars, place, content, dbVars, history>>

-----------------------------------------------------------------------------
Webhook(p) == Receive(p) \/ WritePart(p) \/ WriteFails(p) \/ Publish(p) \/ Respond(p) \/ Die(p)

Dropper(f) == Adapter(f) \/ DropByHand(f) \/ Publish(f) \/ Die(f)

Trader ==
    \/ StartPoll \/ Commit \/ Return
    \/ \E f \in Files : Take(f) \/ Store(f) \/ Move(f) \/ Route(f)

Next ==
    \/ \E p \in Posts : Webhook(p)
    \/ \E f \in Drops : Dropper(f)
    \/ Trader \/ (\E f \in Files : TakeFails(f)) \/ OtherWrite \/ Raise \/ Crash \/ Restart

Spec == Init /\ [][Next]_vars

FairSpec == Spec /\ WF_vars(Trader)

-----------------------------------------------------------------------------
(* Properties of the rows: of the bodies that are being handled, all of    *)
(* them valid inputs of the other writer too.                              *)

Handling == UNION {body[p] : p \in Posts}

Trades(changes) == {s \in Normalized(changes) : s.confidence > 0 /\ s.overlay = ""}

(* Coercion never turns a row into a trade of its own making: what it      *)
(* trades it was told to, by the label or else by explicit words (coerce:  *)
(* it never fabricates trade semantics; a BUY->HOLD is not a sell), and a  *)
(* BUY has a score.                                                        *)
Told(r, side) ==
    \/ r.label = "BUY" /\ side = "BUY" /\ Value(r.score) > 50
    \/ r.label = "SELL" /\ side = "SELL"
    \/ r.label = "" /\ r.dir \in (IF side = "BUY" THEN {"UP", "UPGRADE"} ELSE {"DOWN", "DOWNGRADE"})

TradesFollowLabels ==
    \A b \in Handling : \A r \in b.rows : \A s \in Trades(Salvaged({r})) :
        Qualified(r.ticker) = s.symbol /\ r.changed /\ Told(Read(r), s.side)

(* The webhook and the adapter make the same of what one row says in the   *)
(* words of each, if both can read its ticker and its score and it means   *)
(* no overlay: the same symbol and side always, the same confidence for a  *)
(* whole score (coerce: they must agree on what is a trade, both feed the  *)
(* same risk core).  Of a score that is not whole the adapter cuts off the *)
(* rest before it rounds, and may be one lower.                            *)
InSweep(r) == [r EXCEPT !.keys = "sweep"]

Comparable(r) ==
    /\ r.keys # "sweep" /\ r.label \in {"BUY", "SELL"} /\ Actionable(r) /\ Named(r)
    /\ Candidates(r, Allowed) = {Qualified(r.ticker)}
    /\ r.overlay = "" /\ r.mark \in {"", "list"} /\ (r.label = "BUY" => ~r.quoted)

DialectsAgree ==
    \A b \in Handling : \A r \in b.rows : Comparable(r) =>
        LET posted  == Normalized(Salvaged({r}))
            dropped == Normalized(Adapted({InSweep(r)}, Allowed))
        IN  /\ {<<s.symbol, s.side>> : s \in posted} = {<<t.symbol, t.side>> : t \in dropped}
            /\ \A s \in posted, t \in dropped : t.confidence \in {s.confidence, s.confidence - 1}
            /\ Whole(r.score) => posted = dropped

(* A row that was valid as it is means the same when another row, or a key *)
(* of the body, makes the webhook coerce it (webhook.py: the canonical     *)
(* bytes of a coerced body), unless its points are in quotes, which only   *)
(* the schema reads, or its mark is one that only one of the two sees.     *)
SamePathSameSignal ==
    \A b \in Handling : \A r \in b.rows :
        /\ StrictRow(r) /\ Read(r).label = "" /\ r.changed
        /\ ~r.quoted /\ r.mark \in {"", "kept"}
        => Normalized(Salvaged({r})) = Normalized({Strict(r)})

(* A row that means an overlay and names none never becomes an order of    *)
(* shares (normalize.py: refusing to route as a plain order), where its    *)
(* mark is seen: coercion makes a transition that has not two states anew, *)
(* and the mark in it is gone; the schema knows no event.                  *)
MarkSeen(b, r) == r.mark # "" /\ r.mark # (IF IsStrict(b) THEN "event" ELSE "list")

MarkedNeverPlain ==
    \A b \in Handling : \A r \in b.rows : MarkSeen(b, r) =>
        Trades(IF IsStrict(b) THEN {Strict(r)} ELSE Salvaged({r})) = {}

(* A row keeps its meaning on every path it can take to the trader: no     *)
(* path makes a trade it did not tell, two paths do not disagree on it     *)
(* where both can read it, and what is seen to mean an overlay does not    *)
(* become an order of shares.                                              *)
RowsKeepTheirMeaning ==
    /\ TradesFollowLabels
    /\ DialectsAgree
    /\ SamePathSameSignal
    /\ MarkedNeverPlain

-----------------------------------------------------------------------------
(* Properties of the files.                                                *)

(* A file whose weights repeat a symbol stops every poll, until a reading  *)
(* of it fails; what it stored of its date remains.                        *)
Repeats(f) == HasTargets(f) /\ content[f].targets.repeated

Blocked == \E f \in Files : place[f] = "inbox" /\ Repeats(f)

Repeating(d) ==
    \E f \in Files : /\ place[f] \in {"inbox", "rejected"} /\ Repeats(f)
                     /\ content[f].targets.date = d

(* What was answered 202 is in the inbox until the trader has processed    *)
(* it, whoever dies in between (webhook.py: accepted), unless reading it   *)
(* failed: then it is in rejected/.                                        *)
AcceptedIsKept ==
    \A p \in Posts : answer[p] = 202 =>
        \/ place[p] \in {"inbox", "processed"}
        \/ place[p] = "rejected" /\ p \in unread

(* Only validated payloads reach the inbox: the trader never rejects what  *)
(* the webhook wrote, coerced bodies included (webhook.py, coerce.py), for *)
(* any other reason than that it could not read the file.                  *)
OnlyValidIsEnqueued == \A p \in Posts : place[p] = "rejected" => p \in unread

(* The signals of a file are routed once at most, and unless something     *)
(* raised or crashed, once when the poll is over, whatever other files     *)
(* could not be read (inbox.py: poll moves each file out of the inbox and  *)
(* returns the signals of all).                                            *)
RoutedOncePerFile ==
    /\ \A f \in Files : handed[f] <= 1
    /\ pc = "idle" /\ failures = 0 /\ crashes = 0 /\ (\A d \in Dates : ~Repeating(d)) =>
          \A f \in Files : place[f] = "processed" => handed[f] = 1

(* The weights of a date are those of one file, not a mixture of two,      *)
(* unless a file of that date repeats a symbol (db.py: replace the target- *)
(* weight snapshot for the date).                                          *)
TargetsAreWhole ==
    \A d \in Dates : table[d] # {} /\ ~Repeating(d) =>
        \E f \in Files : HasTargets(f) /\ content[f].targets.date = d
                                       /\ content[f].targets.names = table[d]

(* A date that was processed keeps weights through crashes and exceptions, *)
(* so the rebalance never falls back to an older date (db.py: the newest   *)
(* snapshot).                                                              *)
ProcessedTargetsAreDurable ==
    \A f \in Files : place[f] = "processed" /\ HasTargets(f) =>
        disk[content[f].targets.date] # {}

(* The rebalance reads the weights of one sweep, whole, and those of the   *)
(* newest date that was processed.                                         *)
TargetsAreKept == TargetsAreWhole /\ ProcessedTargetsAreDurable

(* Every file leaves the inbox, a malformed one too, unless one of them    *)
(* repeats a symbol (inbox.py: a malformed file is quarantined, never      *)
(* crashing the loop).                                                     *)
InboxDrains ==
    (\E f \in Files : place[f] = "inbox")
        ~> (Blocked \/ pc = "down" \/ \A f \in Files : place[f] # "inbox")
=============================================================================
