------------------------------ MODULE Overlay -------------------------------
(***************************************************************************)
(* Option overlays: build_overlay_plan, and _route_overlay, which sends    *)
(* the legs of a plan one by one through the risk core and the router and  *)
(* polls the open orders for the fill of each, over a broker that fills,   *)
(* ends and loses orders between any two calls.                            *)
(*                                                                         *)
(* The gate is open, the overlays are enabled, the shares of the           *)
(* underlying do not change, and no overlay opens stock: none of REGISTRY  *)
(* does.  A leg may be turned down for its premium or the day's loss.      *)
(***************************************************************************)
EXTENDS Integers, Sequences, FiniteSetsExt

CONSTANTS
    Strikes, Expiries,     \* the chain
    Far,                   \* the expiries of long-dated legs (180 days or more)
    MaxLots,               \* bound: round lots of shares held
    MaxContracts,          \* max_option_contracts
    DefaultContracts,      \* option_default_contracts
    Attempts,              \* hedge_confirm_attempts
    MaxPlans, MaxErrors    \* bounds: plans; lost acks and failed queries

ASSUME OverlayAssumption ==
    /\ Strikes \subseteq Nat /\ IsFiniteSet(Strikes)
    /\ Expiries \subseteq Nat /\ IsFiniteSet(Expiries) /\ Far \subseteq Expiries
    /\ \A e \in Expiries \ Far, f \in Far : e < f
    /\ MaxLots \in Nat /\ MaxContracts \in Nat /\ DefaultContracts \in Nat
    /\ Attempts \in Nat /\ MaxPlans \in Nat /\ MaxErrors \in Nat

Near      == Expiries \ Far
Rights    == {"CALL", "PUT"}
Contracts == [right : Rights, strike : Strikes, expiry : Expiries]
Ids       == 1..(2 * MaxPlans)      \* no overlay has more than two legs

LegSpec(side, right, expiries) == [side |-> side, right |-> right, expiries |-> expiries]

(* REGISTRY.  Long legs come first in each.                                *)
Registry ==
    [COVERED_CALL    |-> <<LegSpec("SELL", "CALL", Near)>>,
     PROTECTIVE_PUT  |-> <<LegSpec("BUY", "PUT", Near)>>,
     COLLAR          |-> <<LegSpec("BUY", "PUT", Near), LegSpec("SELL", "CALL", Near)>>,
     BEAR_PUT_SPREAD |-> <<LegSpec("BUY", "PUT", Near), LegSpec("SELL", "PUT", Near)>>,
     CALL_DIAGONAL   |-> <<LegSpec("BUY", "CALL", Far), LegSpec("SELL", "CALL", Near)>>,
     LEAP            |-> <<LegSpec("BUY", "CALL", Far)>>]

Overlays           == DOMAIN Registry
RequiresUnderlying == {"COVERED_CALL", "PROTECTIVE_PUT", "COLLAR"}
SingleExpiry       == {"COLLAR", "BEAR_PUT_SPREAD"}

(* The broker: the legs it accepted, what is left of them, those that      *)
(* work, and the positions; the shares are held in round lots.             *)
VARIABLES order, left, working, next, position, lots

VARIABLES
    pc,           \* "idle", or the next call is for a leg or polls for it
    plan, at,     \* the legs in the order they are sent, and the current one
    shorts,       \* open short contracts of each right in the snapshot
    looks,        \* the polls made for the current leg
    confirmed,    \* the orders of legs that were confirmed
    answer,       \* the action of the last TickResult
    plans, errors

(* History: an ack of the current plan was lost; and so far every plan     *)
(* began with no order working, and every order was filled completely.     *)
VARIABLES lost, calm

brokerVars == <<order, left, working, next, position, lots>>
planVars   == <<plan, shorts, plans>>
vars == <<brokerVars, planVars, pc, at, looks, confirmed, answer, errors, lost, calm>>

Legs == [side : {"BUY", "SELL"}, contract : Contracts, qty : Nat, corr : 1..MaxPlans]
Sent == 1..(next - 1)
Answers == {"none", "OVERLAY_PLACED", "OVERLAY_RESIDUAL_LONG", "REJECTED_BY_RISK",
            "ORDER_UNKNOWN", "ORDER_REJECTED"}

TypeOK ==
    /\ order \in Seq(Legs) /\ left \in Seq(Nat) /\ next \in 1..(Cardinality(Ids) + 1)
    /\ Len(order) = next - 1 /\ Len(left) = next - 1
    /\ \A i \in Sent : left[i] <= order[i].qty
    /\ working \subseteq Sent /\ confirmed \subseteq Sent
    /\ \A i \in working : left[i] > 0
    /\ position \in [Contracts -> Int] /\ lots \in Nat
    /\ pc \in {"idle", "leg", "poll"} /\ plan \in Seq(Legs)
    /\ at \in Nat /\ (pc # "idle" => at \in DOMAIN plan)
    /\ shorts \in [Rights -> Nat] /\ looks \in 0..Attempts
    /\ answer \in Answers /\ plans \in 0..MaxPlans /\ errors \in 0..MaxErrors
    /\ lost \in BOOLEAN /\ calm \in BOOLEAN

Init ==
    /\ order = <<>> /\ left = <<>> /\ working = {} /\ next = 1
    /\ position = [c \in Contracts |-> 0] /\ lots \in 0..MaxLots
    /\ pc = "idle" /\ plan = <<>> /\ at = 0 /\ looks = 0
    /\ shorts = [r \in Rights |-> 0] /\ confirmed = {} /\ answer = "none"
    /\ plans = 0 /\ errors = 0 /\ lost = FALSE /\ calm = TRUE

-----------------------------------------------------------------------------
(* build_overlay_plan.                                                     *)

Least(a, b) == IF a < b THEN a ELSE b

Number(o) == IF o \in RequiresUnderlying THEN Least(lots, MaxContracts)
             ELSE Least(DefaultContracts, MaxContracts)

(* The contracts that the chain selection may come up with.                *)
Selected(o) ==
    LET specs == Registry[o]
    IN  {cs \in [DOMAIN specs -> Contracts] :
            \A i \in DOMAIN specs :
                /\ cs[i].right = specs[i].right /\ cs[i].expiry \in specs[i].expiries
                /\ o \in SingleExpiry => cs[i].expiry = cs[1].expiry}

(* _validate_structure.                                                    *)
Valid(o, cs) ==
    /\ o = "BEAR_PUT_SPREAD" => cs[1].strike > cs[2].strike
    /\ o = "CALL_DIAGONAL"   => /\ cs[1].strike <= cs[2].strike
                                /\ cs[1].expiry > cs[2].expiry

LegsOf(o, cs) ==
    [i \in DOMAIN cs |-> [side |-> Registry[o][i].side, contract |-> cs[i],
                          qty |-> Number(o), corr |-> plans + 1]]

(* The stable sort of one leg or two.                                      *)
First(side, legs) ==
    IF Len(legs) = 2 /\ legs[1].side # side /\ legs[2].side = side
    THEN <<legs[2], legs[1]>> ELSE legs

ShortsFirst(legs) == First("SELL", legs)
LongsFirst(legs)  == First("BUY", legs)

(* AccountSnapshot.short_option_contracts.                                 *)
Held == [c \in Contracts |-> IF position[c] < 0 THEN -position[c] ELSE position[c]]

Quantity(cs)      == SumFunctionOnSet(Held, cs)
Short(right)      == {c \in Contracts : c.right = right /\ position[c] < 0}
OpenShorts(right) == Quantity(Short(right))

Plan ==
    /\ pc = "idle" /\ plans < MaxPlans
    /\ \E o \in Overlays : \E cs \in Selected(o) :
          /\ Number(o) >= 1 /\ Valid(o, cs)
          /\ plan' = LongsFirst(LegsOf(o, cs))
    /\ pc' = "leg" /\ at' = 1 /\ plans' = plans + 1
    /\ shorts' = [r \in Rights |-> OpenShorts(r)]
    /\ confirmed' = {} /\ answer' = "none" /\ looks' = 0
    /\ lost' = FALSE /\ calm' = (calm /\ working = {})
    /\ UNCHANGED <<brokerVars, errors>>

-----------------------------------------------------------------------------
(* The risk core: a short leg is covered by shares or by the long legs of  *)
(* its own plan.                                                           *)

Covers(long, short) ==
    /\ long.right = short.right /\ long.expiry >= short.expiry
    /\ IF short.right = "CALL" THEN long.strike <= short.strike
                               ELSE long.strike >= short.strike

LongCover(leg) ==
    SumFunctionOnSet([i \in DOMAIN plan |-> plan[i].qty],
                     {i \in DOMAIN plan : /\ plan[i].side = "BUY"
                                          /\ Covers(plan[i].contract, leg.contract)})

ShareCover(right) == IF right = "CALL" THEN lots ELSE 0

AvailableInAll(leg) == ShareCover(leg.contract.right) + LongCover(leg)
Available(leg) ==
    ShareCover(leg.contract.right) + LongCover(leg) - shorts[leg.contract.right]

Coverable(leg) == leg.side = "SELL" => Available(leg) >= leg.qty

-----------------------------------------------------------------------------
(* _route_overlay.                                                         *)

Answer(a) == pc' = "idle" /\ answer' = a

(* filled_long: a long leg of the plan was confirmed.                      *)
LongSent   == \E i \in Sent : order[i].side = "BUY" /\ order[i].corr = plans
FilledLong == \E i \in confirmed : order[i].side = "BUY"

Fails(a) == Answer(IF FilledLong THEN "OVERLAY_RESIDUAL_LONG" ELSE a)

Accepted(leg) ==
    /\ order' = Append(order, leg) /\ left' = Append(left, leg.qty)
    /\ working' = working \cup {next} /\ next' = next + 1
    /\ UNCHANGED <<position, lots>>

RejectedByRisk ==
    /\ pc = "leg" /\ Fails("REJECTED_BY_RISK")
    /\ UNCHANGED <<brokerVars, planVars, at, looks, confirmed, errors, lost, calm>>

(* The acks that end a plan.                                               *)
NotPlaced == {"REJECTED", "UNKNOWN"}

AckedWith(ack) ==
    IF ack \in NotPlaced
    THEN Fails(IF ack = "UNKNOWN" THEN "ORDER_UNKNOWN" ELSE "ORDER_REJECTED")
         /\ UNCHANGED <<at, looks>>
    ELSE pc' = "poll" /\ looks' = 0 /\ UNCHANGED <<at, answer>>

SendLeg ==
    /\ pc = "leg" /\ Coverable(plan[at])
    /\ \/ Accepted(plan[at]) /\ AckedWith("SUBMITTED") /\ UNCHANGED <<errors, lost>>
       \/ UNCHANGED brokerVars /\ AckedWith("REJECTED") /\ UNCHANGED <<errors, lost>>
       \/ /\ errors < MaxErrors /\ errors' = errors + 1 /\ lost' = TRUE
          /\ Accepted(plan[at]) \/ UNCHANGED brokerVars
          /\ AckedWith("UNKNOWN")
    /\ UNCHANGED <<planVars, confirmed, calm>>

Advance ==
    IF at < Len(plan) THEN pc' = "leg" /\ at' = at + 1 /\ UNCHANGED answer
    ELSE Answer("OVERLAY_PLACED") /\ UNCHANGED at

(* _confirm_hedge_fill: one look, and Attempts more.                       *)
NeverTired == FALSE
Tired      == looks = Attempts

Done(seen) == seen = "off the book"

Poll ==
    /\ pc = "poll"
    /\ \E seen \in {"working", "off the book", "unknown"} :
          /\ IF seen = "unknown" THEN errors < MaxErrors /\ errors' = errors + 1
             ELSE (seen = "working" <=> next - 1 \in working) /\ UNCHANGED errors
          /\ \/ /\ Done(seen) /\ confirmed' = confirmed \cup {next - 1}
                /\ Advance /\ UNCHANGED looks
             \/ ~Done(seen) /\ Tired /\ Advance /\ UNCHANGED <<confirmed, looks>>
             \/ /\ ~Done(seen) /\ ~Tired /\ looks' = Least(looks + 1, Attempts)
                /\ UNCHANGED <<pc, at, answer, confirmed>>
    /\ UNCHANGED <<brokerVars, planVars, lost, calm>>

(* An exception or a crash leaves the plan where it is.                    *)
Abandon ==
    /\ pc # "idle" /\ pc' = "idle" /\ answer' = "none"
    /\ UNCHANGED <<brokerVars, planVars, at, looks, confirmed, errors, lost, calm>>

-----------------------------------------------------------------------------
(* The broker.                                                             *)

Fill(i) ==
    /\ \E q \in 1..left[i] :
          /\ left' = [left EXCEPT ![i] = @ - q]
          /\ working' = IF q = left[i] THEN working \ {i} ELSE working
          /\ position' = [position EXCEPT ![order[i].contract] =
                              @ + (IF order[i].side = "BUY" THEN q ELSE -q)]
    /\ UNCHANGED <<order, next, lots, planVars, pc, at, looks, confirmed,
                   answer, errors, lost, calm>>

(* The end of the day, a halt, or the exchange ends an order.              *)
Lapse(i) ==
    /\ working' = working \ {i} /\ calm' = FALSE
    /\ UNCHANGED <<order, left, next, position, lots, planVars, pc, at, looks,
                   confirmed, answer, errors, lost>>

-----------------------------------------------------------------------------
Engine == RejectedByRisk \/ SendLeg \/ Poll

Next ==
    \/ Plan
    \/ Engine
    \/ Abandon
    \/ \E i \in working : Fill(i) \/ Lapse(i)

Spec == Init /\ [][Next]_vars

(* A plan is one call, which runs until it returns or raises.              *)
FairSpec == Spec /\ WF_vars(Engine)

-----------------------------------------------------------------------------
(* Properties.                                                             *)

(* A short leg reaches the broker only when shares cover it, or after a    *)
(* long leg of its plan that covers it did, whichever acks get lost        *)
(* (main.py: "a short is only ever placed after its cover is acked").      *)
CoverIsPlaced ==
    \A i \in Sent : order[i].side = "SELL" =>
        \/ order[i].qty <= ShareCover(order[i].contract.right)
        \/ \E j \in 1..(i - 1) :
              /\ order[j].side = "BUY" /\ order[j].corr = order[i].corr
              /\ Covers(order[j].contract, order[i].contract)

(* A leg that counts as confirmed works no more, failed queries or not     *)
(* (main.py: None must never be treated as filled).                        *)
ConfirmedIsDone == confirmed \cap working = {}

(* OVERLAY_PLACED means that the broker has every leg; an answer that a    *)
(* later leg failed means that no short leg was sent, and a residual long  *)
(* that a long leg left the book -- unless an ack of the plan was lost.    *)
AnswersAreTrue ==
    LET mine == {i \in Sent : order[i].corr = plans}
    IN  /\ answer = "OVERLAY_PLACED" =>
              \A k \in DOMAIN plan : \E i \in mine : order[i] = plan[k]
        /\ answer \in {"OVERLAY_RESIDUAL_LONG", "REJECTED_BY_RISK", "ORDER_REJECTED"}
              /\ ~lost => \A i \in mine : order[i].side = "BUY"
        /\ answer = "OVERLAY_RESIDUAL_LONG" =>
              \E i \in mine : order[i].side = "BUY" /\ i \notin working

(* What is short is covered by shares or by longs of its right.            *)
Covered ==
    \A r \in Rights :
        \A S \in SUBSET Short(r) :
            Quantity(S) <= ShareCover(r)
                + Quantity({c \in Contracts : position[c] > 0 /\ \E s \in S : Covers(c, s)})

(* When all orders fill completely and no plan begins while one works,     *)
(* overlays that are stacked upon each other never add up to a naked short *)
(* (risk_core.py: available < need).                                       *)
CoveredAtRest == calm /\ working = {} /\ pc = "idle" => Covered

(* Every plan ends, however long its orders rest.                          *)
PlansEnd == pc # "idle" ~> pc = "idle"
=============================================================================
