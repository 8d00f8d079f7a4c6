----------------------------- MODULE OrderRouter -----------------------------
(***************************************************************************)
(* OrderRouter.submit, the only path to broker.place_order, called by      *)
(* several threads: the lookup of _seen under the global lock, the lock of *)
(* the symbol, the second lookup, the intent line, the order, the ack line *)
(* and the entry in _seen.  Either audit write may raise, the broker may   *)
(* accept, refuse or fail with the order placed or not, and the process    *)
(* may die anywhere; _seen does not survive it, the audit file and the     *)
(* orders at the broker do.                                                *)
(*                                                                         *)
(* The global lock is held for one lookup and nothing blocks under it, so  *)
(* that section is one step.  The broker is MoomooBroker: it does not      *)
(* recognise a client order id it has seen before.                         *)
(***************************************************************************)
EXTENDS Naturals

CONSTANTS
    Callers,           \* threads that call submit
    Cids,              \* client order ids
    Symbols,
    SymbolOf,          \* the symbol of the request behind a cid
    MaxCalls,          \* bound: calls of all threads together
    MaxAuditFailures,  \* bound: audit writes that raise
    MaxCrashes         \* bound: crashes of the process

ASSUME RouterAssumption ==
    /\ "none" \notin Callers
    /\ SymbolOf \in [Cids -> Symbols]
    /\ MaxCalls \in Nat /\ MaxAuditFailures \in Nat /\ MaxCrashes \in Nat

None   == "none"
Acks   == {"SUBMITTED", "REJECTED", "UNKNOWN"}
Stages == {"idle", "enter", "wait", "intent", "place", "ack"}

VARIABLES
    stage,      \* where a caller is in submit
    request,    \* the cid a caller submits
    ack,        \* the ack a caller got from the broker
    holder,     \* the caller that holds a symbol's lock, or None
    seen,       \* OrderRouter._seen
    intents,    \* intent lines in the audit file, per cid
    orders,     \* orders the broker accepted, per cid
    calls, auditFailures, crashes

(* History: how often the ack of a cid was forgotten, for its audit line   *)
(* raised or the process died.                                             *)
VARIABLE forgotten

lineVars  == <<intents, orders>>
countVars == <<calls, auditFailures, crashes>>
vars == <<stage, request, ack, holder, seen, lineVars, countVars, forgotten>>

TypeOK ==
    /\ stage \in [Callers -> Stages]
    /\ request \in [Callers -> Cids]
    /\ ack \in [Callers -> Acks \cup {None}]
    /\ holder \in [Symbols -> Callers \cup {None}]
    /\ seen \in [Cids -> Acks \cup {None}]
    /\ intents \in [Cids -> Nat] /\ orders \in [Cids -> Nat]
    /\ calls \in Nat /\ auditFailures \in Nat /\ crashes \in Nat
    /\ forgotten \in [Cids -> Nat]

Init ==
    /\ stage = [t \in Callers |-> "idle"]
    /\ request \in [Callers -> Cids]
    /\ ack = [t \in Callers |-> None]
    /\ holder = [s \in Symbols |-> None]
    /\ seen = [c \in Cids |-> None]
    /\ intents = [c \in Cids |-> 0] /\ orders = [c \in Cids |-> 0]
    /\ calls = 0 /\ auditFailures = 0 /\ crashes = 0
    /\ forgotten = [c \in Cids |-> 0]

-----------------------------------------------------------------------------
To(t, from, next) ==
    /\ stage[t] = from
    /\ stage' = [stage EXCEPT ![t] = next]

ReleaseNever(t) == UNCHANGED holder
Release(t) ==
    holder' = [holder EXCEPT ![SymbolOf[request[t]]] = None]

Call(t) ==
    /\ To(t, "idle", "enter")
    /\ calls < MaxCalls /\ calls' = calls + 1
    /\ \E c \in Cids : request' = [request EXCEPT ![t] = c]
    /\ UNCHANGED <<ack, holder, seen, lineVars, auditFailures, crashes,
                   forgotten>>

(* Under the global lock: a known cid returns its ack.                     *)
Lookup(t) ==
    /\ \/ /\ seen[request[t]] # None
          /\ To(t, "enter", "idle")
       \/ /\ seen[request[t]] = None
          /\ To(t, "enter", "wait")
    /\ UNCHANGED <<request, ack, holder, seen, lineVars, countVars, forgotten>>

LockFree(t) == holder[SymbolOf[request[t]]] = None

NoRecheck(t) == FALSE
KnownNow(t)  == seen[request[t]] # None

(* The lock of the symbol is taken and _seen is looked up a second time.   *)
Enter(t) ==
    /\ LockFree(t)
    /\ \/ /\ KnownNow(t)
          /\ To(t, "wait", "idle")
          /\ UNCHANGED holder
       \/ /\ ~KnownNow(t)
          /\ To(t, "wait", "intent")
          /\ holder' = [holder EXCEPT ![SymbolOf[request[t]]] = t]
    /\ UNCHANGED <<request, ack, seen, lineVars, countVars, forgotten>>

AuditRaises ==
    /\ auditFailures < MaxAuditFailures
    /\ auditFailures' = auditFailures + 1

IntentLossIgnored(t) == To(t, "intent", "place") /\ UNCHANGED holder
IntentLost(t)        == To(t, "intent", "idle") /\ Release(t)

AuditIntent(t) ==
    /\ \/ /\ To(t, "intent", "place")
          /\ intents' = [intents EXCEPT ![request[t]] = @ + 1]
          /\ UNCHANGED <<holder, auditFailures>>
       \/ AuditRaises /\ IntentLost(t) /\ UNCHANGED intents
    /\ UNCHANGED <<request, ack, seen, orders, calls, crashes, forgotten>>

ExceptionIsSuccess == "SUBMITTED"
OnException        == "UNKNOWN"

(* Accepted; refused; or an exception, with or without an order behind it. *)
PlaceOrder(t) ==
    LET c == request[t] IN
    /\ To(t, "place", "ack")
    /\ \/ /\ ack' = [ack EXCEPT ![t] = "SUBMITTED"]
          /\ orders' = [orders EXCEPT ![c] = @ + 1]
       \/ ack' = [ack EXCEPT ![t] = "REJECTED"] /\ UNCHANGED orders
       \/ /\ ack' = [ack EXCEPT ![t] = OnException]
          /\ orders' \in {orders, [orders EXCEPT ![c] = @ + 1]}
    /\ UNCHANGED <<request, holder, seen, intents, countVars, forgotten>>

(* The ack line and _seen; when the line raises, _seen is left as it was.  *)
Record(t) ==
    LET c == request[t] IN
    /\ To(t, "ack", "idle")
    /\ Release(t)
    /\ ack' = [ack EXCEPT ![t] = None]
    /\ \/ /\ seen' = [seen EXCEPT ![c] = ack[t]]
          /\ UNCHANGED <<auditFailures, forgotten>>
       \/ /\ AuditRaises
          /\ forgotten' = [forgotten EXCEPT ![c] = @ + 1]
          /\ UNCHANGED seen
    /\ UNCHANGED <<request, lineVars, calls, crashes>>

(* The process dies; a new one has an empty _seen and no calls under way.  *)
Crash ==
    /\ crashes < MaxCrashes /\ crashes' = crashes + 1
    /\ stage' = [t \in Callers |-> "idle"]
    /\ ack' = [t \in Callers |-> None]
    /\ holder' = [s \in Symbols |-> None]
    /\ seen' = [c \in Cids |-> None]
    /\ forgotten' = [c \in Cids |-> forgotten[c] + 1]
    /\ UNCHANGED <<request, lineVars, calls, auditFailures>>

Submit(t) ==
    \/ Lookup(t)
    \/ Enter(t)
    \/ AuditIntent(t)
    \/ PlaceOrder(t)
    \/ Record(t)

Next ==
    \/ \E t \in Callers : Call(t) \/ Submit(t)
    \/ Crash

Spec == Init /\ [][Next]_vars

(* A thread inside submit is scheduled.  Python's locks are not fair, and  *)
(* no fairness is asked of them: the calls are finitely many, so in the    *)
(* end nobody else competes for the lock.                                  *)
FairSpec == Spec /\ \A t \in Callers : WF_vars(Submit(t))

-----------------------------------------------------------------------------
(* Properties.                                                             *)

(* Every order has an intent line of its own, written before it: across    *)
(* retries, failures and crashes the audit file never misses an order      *)
(* (router.py: audit first, a failed write halts the order).               *)
AuditedBeforePlaced == \A c \in Cids : orders[c] <= intents[c]

(* A cid leads to one order, and to one more for each ack that was lost:   *)
(* concurrent callers and retries share the first one (router.py: the cid  *)
(* makes retries idempotent, the re-check under the lock of the symbol).   *)
OneOrderUnlessForgotten == \A c \in Cids : orders[c] <= forgotten[c] + 1

(* A cid answered SUBMITTED has an order at the broker, and one answered   *)
(* REJECTED has none unless its ack was forgotten (router.py: an exception *)
(* is UNKNOWN, never success).                                             *)
AnswersAreTrue ==
    \A c \in Cids :
        /\ seen[c] = "SUBMITTED" => orders[c] > 0
        /\ seen[c] = "REJECTED" /\ forgotten[c] = 0 => orders[c] = 0

Inside(t) == stage[t] \in {"intent", "place", "ack"}

(* Orders of one symbol are placed one at a time (router.py: serialized    *)
(* per symbol).                                                            *)
SerializedPerSymbol ==
    \A t, u \in Callers :
        Inside(t) /\ Inside(u) /\ SymbolOf[request[t]] = SymbolOf[request[u]]
            => t = u

(* Every call of submit returns or raises: no thread waits for ever, for   *)
(* the lock is given back on every exit (router.py: with blocks).          *)
EveryCallEnds ==
    \A t \in Callers : stage[t] # "idle" ~> stage[t] = "idle"

(* The router implements what it promises.                                 *)
Once == INSTANCE OnceOrders WITH answer <- seen, lost <- forgotten
RefinesOnce == Once!Spec

-----------------------------------------------------------------------------
(* The inductive invariant: a thread inside holds the lock of its symbol   *)
(* and its cid is unknown; an order without an answer in _seen and without *)
(* an ack in flight is one whose ack was forgotten.                        *)
LockInv ==
    /\ \A t \in Callers : Inside(t) => holder[SymbolOf[request[t]]] = t
    /\ \A t \in Callers : Inside(t) => seen[request[t]] = None
    /\ \A t \in Callers : stage[t] = "ack" <=> ack[t] # None

InFlight(c) == \E t \in Callers : request[t] = c /\ ack[t] # None

OrderInv ==
    /\ OneOrderUnlessForgotten
    /\ \A c \in Cids : seen[c] = None /\ ~InFlight(c) => orders[c] <= forgotten[c]
    /\ \A c \in Cids : seen[c] = "SUBMITTED" => orders[c] > 0
    /\ \A c \in Cids : seen[c] = "REJECTED" => orders[c] <= forgotten[c]
    /\ \A t \in Callers :
          /\ ack[t] = "SUBMITTED" => orders[request[t]] > 0
          /\ ack[t] = "REJECTED" => orders[request[t]] <= forgotten[request[t]]

AuditInv ==
    /\ AuditedBeforePlaced
    /\ \A t \in Callers :
          stage[t] = "place" => orders[request[t]] < intents[request[t]]
=============================================================================
