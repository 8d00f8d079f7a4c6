------------------------------ MODULE RiskCore ------------------------------
(***************************************************************************)
(* risk_core.evaluate for an equity order: the only gate between an order  *)
(* and the router.  The snapshot is fresh, the account PAPER, the symbol   *)
(* allowed and a price known; breached says that the daily loss limit is.  *)
(* The core sees what is held, never what is in flight.                    *)
(***************************************************************************)
EXTENDS Integers

CONSTANTS MaxOrderNotional, MaxPositionQty, MaxGross    \* of RiskConfig

ASSUME CapAssumption ==
    /\ MaxOrderNotional \in Nat /\ MaxPositionQty \in Nat /\ MaxGross \in Nat

Resulting(side, qty, held) == IF side = "BUY" THEN held + qty ELSE held - qty

(* An exit that strictly lowers a long position.                           *)
ReduceOnly(side, qty, held) ==
    side = "SELL" /\ Resulting(side, qty, held) \in 0..(held - 1)

WithinCaps(notional, gross, breached) ==
    /\ ~breached
    /\ notional <= MaxOrderNotional
    /\ gross + notional <= MaxGross

Approved(side, qty, notional, held, gross, breached) ==
    /\ Resulting(side, qty, held) \in 0..MaxPositionQty
    /\ ReduceOnly(side, qty, held) \/ WithinCaps(notional, gross, breached)
=============================================================================
