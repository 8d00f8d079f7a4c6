----------------------------- MODULE Escalation -----------------------------
(***************************************************************************)
(* TradeEngine._submit_with_escalation: a capped LIMIT, one re-peg to the  *)
(* touch, then MARKET, for the same quantity and each with a client order  *)
(* id of its own, while the broker fills, ends or loses what was sent.     *)
(*                                                                         *)
(* Fills arrive between any two steps of the engine.  A query of the open  *)
(* orders may fail; a cancel fails when the order is off the book, or for  *)
(* no reason the engine sees; an acked cancel is final.  An order whose    *)
(* ack was lost (UNKNOWN) may reach the broker late or never.  Any call    *)
(* that may raise and is not caught ends the escalation.                   *)
(***************************************************************************)
EXTENDS Integers, FiniteSets

CONSTANT Qty      \* the quantity of the request

ASSUME QtyAssumption == Qty \in Nat \ {0}

LIMIT  == 1
PEG    == 2
MARKET == 3
Stages == {LIMIT, PEG, MARKET}

VARIABLES
    pc,       \* the next step of the engine
    at,       \* the stage that was submitted last, 0 for none
    ack,      \* the state of its ack; "none" after an exception without one
    term,     \* the stage whose request is returned with the ack
    status,   \* each stage's order at the broker
    filled    \* how much of it is filled

vars == <<pc, at, ack, term, status, filled>>

Acks     == {"none", "SUBMITTED", "REJECTED", "UNKNOWN"}
Statuses == {"none", "lost", "working", "filled", "ended"}

TypeOK ==
    /\ pc \in {"limit", "dwell", "query", "cancel", "repeg", "market",
               "returned", "raised"}
    /\ at \in Stages \cup {0} /\ term \in Stages \cup {0}
    /\ ack \in Acks
    /\ status \in [Stages -> Statuses]
    /\ filled \in [Stages -> 0..Qty]

Init ==
    /\ pc = "limit" /\ at = 0 /\ term = 0 /\ ack = "none"
    /\ status = [s \in Stages |-> "none"]
    /\ filled = [s \in Stages |-> 0]

-----------------------------------------------------------------------------
(* The broker.                                                             *)

Fill(s) ==
    /\ status[s] = "working"
    /\ \E q \in (filled[s] + 1)..Qty :
          /\ filled' = [filled EXCEPT ![s] = q]
          /\ status' = [status EXCEPT ![s] = IF q = Qty THEN "filled" ELSE @]
    /\ UNCHANGED <<pc, at, ack, term>>

(* The exchange ends an order by itself: expired, disabled, failed.        *)
Lapse(s) ==
    /\ status[s] = "working"
    /\ status' = [status EXCEPT ![s] = "ended"]
    /\ UNCHANGED <<pc, at, ack, term, filled>>

(* A request whose answer was lost reaches the broker late.                *)
Arrive(s) ==
    /\ status[s] = "lost"
    /\ status' = [status EXCEPT ![s] = "working"]
    /\ UNCHANGED <<pc, at, ack, term, filled>>

Broker == \E s \in Stages : Fill(s) \/ Lapse(s) \/ Arrive(s)

-----------------------------------------------------------------------------
(* The engine.                                                             *)

ReturnedFirst(s) == IF s = PEG THEN LIMIT ELSE s
Returned(s)      == s

(* router.submit: acked, refused, an UNKNOWN ack, or the audit raises      *)
(* before the order is placed or after it.                                 *)
Submit(s, next) ==
    /\ at' = s
    /\ \/ /\ ack' = "SUBMITTED" /\ pc' = next /\ term' = Returned(s)
          /\ status' = [status EXCEPT ![s] = "working"]
       \/ /\ ack' = "REJECTED" /\ pc' = next /\ term' = Returned(s)
          /\ status' = [status EXCEPT ![s] = "ended"]
       \/ /\ ack' = "UNKNOWN" /\ pc' = next /\ term' = Returned(s)
          /\ status' = [status EXCEPT ![s] = "lost"]
       \/ /\ ack' = "none" /\ pc' = "raised" /\ UNCHANGED term
          /\ \E o \in {"none", "lost", "working", "ended"} :
                status' = [status EXCEPT ![s] = o]
    /\ UNCHANGED filled

(* An order that is no LIMIT is submitted as it is.                        *)
SubmitDirect == pc = "limit" /\ Submit(MARKET, "returned")

SubmitLimit == pc = "limit" /\ Submit(LIMIT, "dwell")

Dwell ==
    /\ pc = "dwell" /\ pc' = "query"
    /\ UNCHANGED <<at, ack, term, status, filled>>

(* _order_working: the book is unknown, or the order is on it or off it.   *)
Query ==
    /\ pc = "query"
    /\ \/ pc' = "returned"
       \/ pc' = IF status[at] = "working" THEN "cancel" ELSE "returned"
    /\ UNCHANGED <<at, ack, term, status, filled>>

AfterCancel == IF at = LIMIT THEN "repeg" ELSE "market"

FailedCancelAdvances == AfterCancel
FailedCancel         == "returned"

(* _cancel_for_escalation; without an ack there is no id to cancel.        *)
Cancel ==
    /\ pc = "cancel"
    /\ \/ /\ ack = "SUBMITTED" /\ status[at] = "working"
          /\ status' = [status EXCEPT ![at] = "ended"]
          /\ pc' = AfterCancel
       \/ pc' = FailedCancel /\ UNCHANGED status
    /\ UNCHANGED <<at, ack, term, filled>>

(* The risk core approves the peg, or vetoes it: then MARKET is next.      *)
Repeg ==
    /\ pc = "repeg"
    /\ \/ Submit(PEG, "dwell")
       \/ pc' = "market" /\ UNCHANGED <<at, ack, term, status, filled>>

(* A veto returns the ack and the request of the last stage submitted.     *)
Market ==
    /\ pc = "market"
    /\ \/ Submit(MARKET, "returned")
       \/ pc' = "returned" /\ UNCHANGED <<at, ack, term, status, filled>>

(* A quote, a touch or a query raises: nothing in the engine catches it.   *)
Raise ==
    /\ pc \in {"query", "repeg", "market"} /\ pc' = "raised"
    /\ UNCHANGED <<at, ack, term, status, filled>>

Engine ==
    \/ SubmitDirect
    \/ SubmitLimit
    \/ Dwell
    \/ Query
    \/ Cancel
    \/ Repeg
    \/ Market
    \/ Raise

Next == Engine \/ Broker

Spec == Init /\ [][Next]_vars

-----------------------------------------------------------------------------
(* Properties.                                                             *)

Live(s) == status[s] \in {"lost", "working"}

(* At most one order of the request can still fill, whatever is lost, late *)
(* or cancelled (main.py: MARKET is reached only with no order left        *)
(* resting; a failed cancel or an unknown book stops the escalation).      *)
OneLiveOrder == \A s, u \in Stages : Live(s) /\ Live(u) => s = u

(* An order that fills completely is the last one sent: a fill that races  *)
(* the cancel never fills the request twice (main.py: a cancel failure     *)
(* usually means already filled).                                          *)
NothingAfterAFill ==
    \A s, u \in Stages : filled[s] = Qty /\ s < u => status[u] = "none"

(* The ack that is returned belongs to the request that is returned with   *)
(* it, and every earlier order is off the book (main.py: terminal_req      *)
(* produced the returned ack; it is the one record_trade writes).          *)
AnswerIsTheLastOrder ==
    pc = "returned" =>
        /\ term = at /\ ack # "none"
        /\ \A s \in Stages : s # term => ~Live(s)

(* Every stage is for the full quantity, so partial fills before a cancel  *)
(* add up: but each stage that another one follows is at least one short,  *)
(* so the request never executes three times (main.py: the quantity of     *)
(* each stage is that of the request; "cancel + re-peg once").             *)
OverfillBounded == filled[LIMIT] + filled[PEG] + filled[MARKET] <= 3 * Qty - 2

-----------------------------------------------------------------------------
(* The inductive invariant: the stages before the last one are ended and   *)
(* incomplete or were never sent, those after it were never sent, and the  *)
(* engine goes on only from an order it ended itself.                      *)
EscalationInv ==
    /\ \A s \in Stages : s > at => status[s] = "none"
    /\ \A s \in Stages : s < at => status[s] \in {"none", "ended"} /\ filled[s] < Qty
    /\ \A s \in Stages : status[s] = "filled" <=> filled[s] = Qty
    /\ \A s \in Stages : status[s] = "none" => filled[s] = 0
    /\ pc = "limit" => at = 0
    /\ pc \in {"dwell", "query", "cancel"} => at \in {LIMIT, PEG}
    /\ pc = "repeg" => at = LIMIT
    /\ pc = "market" => at \in {LIMIT, PEG}
    /\ pc \in {"repeg", "market"} => status[at] = "ended"
    /\ pc \notin {"limit", "raised"} => term = at /\ ack # "none" /\ at # 0
=============================================================================
