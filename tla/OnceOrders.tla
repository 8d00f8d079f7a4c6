----------------------------- MODULE OnceOrders -----------------------------
(***************************************************************************)
(* What OrderRouter promises its callers, without threads, locks or an     *)
(* audit file: a client order id leads to one order, and to one more each  *)
(* time its answer is forgotten; until then it has one answer for good,    *)
(* and the answer tells the truth of the order.                            *)
(***************************************************************************)
EXTENDS Naturals

CONSTANT Cids    \* client order ids

VARIABLES
    orders,      \* how many orders the broker accepted for each cid
    answer,      \* what submit answers for each cid, "none" so far
    lost         \* how often the answer of a cid was forgotten

vars == <<orders, answer, lost>>

Init ==
    /\ orders = [c \in Cids |-> 0]
    /\ answer = [c \in Cids |-> "none"]
    /\ lost = [c \in Cids |-> 0]

Accept(c) ==
    /\ answer[c] = "none" /\ orders[c] <= lost[c]
    /\ orders' = [orders EXCEPT ![c] = @ + 1]
    /\ UNCHANGED <<answer, lost>>

Truthful(c, a) ==
    \/ a = "SUBMITTED" /\ orders[c] > 0
    \/ a = "REJECTED"  /\ orders[c] <= lost[c]
    \/ a = "UNKNOWN"

Reply(c) ==
    /\ answer[c] = "none"
    /\ \E a \in {"SUBMITTED", "REJECTED", "UNKNOWN"} :
          Truthful(c, a) /\ answer' = [answer EXCEPT ![c] = a]
    /\ UNCHANGED <<orders, lost>>

Forget(C) ==
    /\ answer' = [c \in Cids |-> IF c \in C THEN "none" ELSE answer[c]]
    /\ lost' = [c \in Cids |-> IF c \in C THEN lost[c] + 1 ELSE lost[c]]
    /\ UNCHANGED orders

Next ==
    \/ \E c \in Cids : Accept(c) \/ Reply(c)
    \/ \E C \in SUBSET Cids : Forget(C)

Spec == Init /\ [][Next]_vars
=============================================================================
