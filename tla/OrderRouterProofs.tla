------------------------- MODULE OrderRouterProofs -------------------------
(***************************************************************************)
(* Proofs about OrderRouter for any threads, cids and bounds.              *)
(***************************************************************************)
EXTENDS OrderRouter, TLAPS

(* Each submit step moves one thread on; who is not t stays where he is.   *)
LEMMA InitTypes == Init => TypeOK
  BY RouterAssumption DEF Init, TypeOK, Stages, Acks

LEMMA StepTypes == TypeOK /\ [Next]_vars => TypeOK'
  <1> SUFFICES ASSUME TypeOK, [Next]_vars PROVE TypeOK'
    OBVIOUS
  <1> USE RouterAssumption DEF TypeOK, Stages, Acks
  <1>1. ASSUME NEW t \in Callers, Call(t) PROVE TypeOK'
    BY <1>1 DEF Call, To, lineVars
  <1>2. ASSUME NEW t \in Callers, Lookup(t) PROVE TypeOK'
    BY <1>2 DEF Lookup, To, lineVars, countVars
  <1>3. ASSUME NEW t \in Callers, Enter(t) PROVE TypeOK'
    BY <1>3 DEF Enter, To, lineVars, countVars
  <1>4. ASSUME NEW t \in Callers, AuditIntent(t) PROVE TypeOK'
    BY <1>4 DEF AuditIntent, IntentLost, To, Release, AuditRaises
  <1>5. ASSUME NEW t \in Callers, PlaceOrder(t) PROVE TypeOK'
    BY <1>5 DEF PlaceOrder, OnException, To, countVars
  <1>6. ASSUME NEW t \in Callers, Record(t) PROVE TypeOK'
    BY <1>6 DEF Record, To, Release, AuditRaises, lineVars
  <1>7. CASE Crash
    BY <1>7 DEF Crash, lineVars
  <1>8. CASE UNCHANGED vars
    BY <1>8 DEF vars, lineVars, countVars
  <1> QED
    BY <1>1, <1>2, <1>3, <1>4, <1>5, <1>6, <1>7, <1>8 DEF Next, Submit

(* Type correctness: the variables of the router keep their types, so every *)
(* ack a thread holds or _seen stores is one of the three router.py knows.  *)
THEOREM RouterTypes == Spec => []TypeOK
  BY InitTypes, StepTypes, PTL DEF Spec

(* The lock of a symbol is held by the one thread inside, and a cid does not *)
(* become known while a thread is inside with it.                          *)
LEMMA StepLock ==
  TypeOK /\ LockInv /\ [Next]_vars => LockInv'
  <1> SUFFICES ASSUME TypeOK, LockInv, [Next]_vars PROVE LockInv'
    OBVIOUS
  <1> USE RouterAssumption DEF TypeOK, LockInv, Inside, None, Stages, Acks
  <1>1. ASSUME NEW t \in Callers, Call(t) PROVE LockInv'
    BY <1>1 DEF Call, To, lineVars
  <1>2. ASSUME NEW t \in Callers, Lookup(t) PROVE LockInv'
    BY <1>2 DEF Lookup, To, lineVars, countVars
  <1>3. ASSUME NEW t \in Callers, Enter(t) PROVE LockInv'
    BY <1>3 DEF Enter, LockFree, KnownNow, To, lineVars, countVars
  <1>4. ASSUME NEW t \in Callers, AuditIntent(t) PROVE LockInv'
    BY <1>4 DEF AuditIntent, IntentLost, To, Release, AuditRaises
  <1>5. ASSUME NEW t \in Callers, PlaceOrder(t) PROVE LockInv'
    BY <1>5 DEF PlaceOrder, OnException, To, countVars
  <1>6. ASSUME NEW t \in Callers, Record(t) PROVE LockInv'
    BY <1>6 DEF Record, To, Release, AuditRaises, lineVars
  <1>7. CASE Crash
    BY <1>7 DEF Crash, lineVars
  <1>8. CASE UNCHANGED vars
    BY <1>8 DEF vars, lineVars, countVars
  <1> QED
    BY <1>1, <1>2, <1>3, <1>4, <1>5, <1>6, <1>7, <1>8 DEF Next, Submit

(* An order comes with an ack, and an ack ends up in _seen or is forgotten. *)
LEMMA StepOrder ==
  TypeOK /\ LockInv /\ OrderInv /\ [Next]_vars => OrderInv'
  <1> SUFFICES ASSUME TypeOK, LockInv, OrderInv, [Next]_vars PROVE OrderInv'
    OBVIOUS
  <1> USE RouterAssumption DEF TypeOK, LockInv, OrderInv, OneOrderUnlessForgotten, InFlight, Inside, None, Stages, Acks
  <1>1. ASSUME NEW t \in Callers, Call(t) PROVE OrderInv'
    BY <1>1 DEF Call, To, lineVars
  <1>2. ASSUME NEW t \in Callers, Lookup(t) PROVE OrderInv'
    BY <1>2 DEF Lookup, To, lineVars, countVars
  <1>3. ASSUME NEW t \in Callers, Enter(t) PROVE OrderInv'
    BY <1>3 DEF Enter, LockFree, KnownNow, To, lineVars, countVars
  <1>4. ASSUME NEW t \in Callers, AuditIntent(t) PROVE OrderInv'
    BY <1>4 DEF AuditIntent, IntentLost, To, Release, AuditRaises
  <1>5. ASSUME NEW t \in Callers, PlaceOrder(t) PROVE OrderInv'
    BY <1>5, SMTT(30) DEF PlaceOrder, OnException, To, countVars
  <1>6. ASSUME NEW t \in Callers, Record(t) PROVE OrderInv'
    BY <1>6 DEF Record, To, Release, AuditRaises, lineVars
  <1>7. CASE Crash
    BY <1>7 DEF Crash, lineVars
  <1>8. CASE UNCHANGED vars
    BY <1>8 DEF vars, lineVars, countVars
  <1> QED
    BY <1>1, <1>2, <1>3, <1>4, <1>5, <1>6, <1>7, <1>8 DEF Next, Submit

(* The intent line is one ahead of the orders while a thread places.        *)
LEMMA StepAudit ==
  TypeOK /\ LockInv /\ AuditInv /\ [Next]_vars => AuditInv'
  <1> SUFFICES ASSUME TypeOK, LockInv, AuditInv, [Next]_vars PROVE AuditInv'
    OBVIOUS
  <1> USE RouterAssumption DEF TypeOK, LockInv, AuditInv, AuditedBeforePlaced, Inside, None, Stages, Acks
  <1>1. ASSUME NEW t \in Callers, Call(t) PROVE AuditInv'
    BY <1>1 DEF Call, To, lineVars
  <1>2. ASSUME NEW t \in Callers, Lookup(t) PROVE AuditInv'
    BY <1>2 DEF Lookup, To, lineVars, countVars
  <1>3. ASSUME NEW t \in Callers, Enter(t) PROVE AuditInv'
    BY <1>3 DEF Enter, LockFree, KnownNow, To, lineVars, countVars
  <1>4. ASSUME NEW t \in Callers, AuditIntent(t) PROVE AuditInv'
    BY <1>4 DEF AuditIntent, IntentLost, To, Release, AuditRaises
  <1>5. ASSUME NEW t \in Callers, PlaceOrder(t) PROVE AuditInv'
    BY <1>5 DEF PlaceOrder, OnException, To, countVars
  <1>6. ASSUME NEW t \in Callers, Record(t) PROVE AuditInv'
    BY <1>6 DEF Record, To, Release, AuditRaises, lineVars
  <1>7. CASE Crash
    BY <1>7 DEF Crash, lineVars
  <1>8. CASE UNCHANGED vars
    BY <1>8 DEF vars, lineVars, countVars
  <1> QED
    BY <1>1, <1>2, <1>3, <1>4, <1>5, <1>6, <1>7, <1>8 DEF Next, Submit

LEMMA RouterInvariant == Spec => [](TypeOK /\ LockInv /\ OrderInv /\ AuditInv)
  <1>1. Init => TypeOK /\ LockInv /\ OrderInv /\ AuditInv
    <2> SUFFICES ASSUME Init PROVE TypeOK /\ LockInv /\ OrderInv /\ AuditInv
      OBVIOUS
    <2>1. TypeOK
      BY InitTypes
    <2>2. LockInv
      BY DEF Init, LockInv, Inside, None
    <2>3. OrderInv
      BY DEF Init, OrderInv, OneOrderUnlessForgotten, None
    <2>4. AuditInv
      BY DEF Init, AuditInv, AuditedBeforePlaced
    <2> QED
      BY <2>1, <2>2, <2>3, <2>4
  <1> QED
    BY <1>1, StepTypes, StepLock, StepOrder, StepAudit, PTL DEF Spec

(* Every order at the broker has an intent line in the audit file: no retry, *)
(* audit failure or crash gets an order past the audit (router.py, E18/R16). *)
THEOREM OrdersAreAudited == Spec => []AuditedBeforePlaced
  <1>1. AuditInv => AuditedBeforePlaced
    BY DEF AuditInv
  <1> QED
    BY <1>1, RouterInvariant, PTL

(* A cid leads to one order plus one for each forgotten ack, for any number  *)
(* of threads that submit it at the same time or again (router.py, R8).      *)
THEOREM OrdersAreCounted == Spec => []OneOrderUnlessForgotten
  <1>1. OrderInv => OneOrderUnlessForgotten
    BY DEF OrderInv
  <1> QED
    BY <1>1, RouterInvariant, PTL

(* What _seen answers is true of the order at the broker.                    *)
THEOREM AnswersTellTheTruth == Spec => []AnswersAreTrue
  <1>1. TypeOK /\ OrderInv => AnswersAreTrue
    BY DEF TypeOK, OrderInv, AnswersAreTrue
  <1> QED
    BY <1>1, RouterInvariant, PTL

(* Two threads are never inside with orders of one symbol (router.py, E9).   *)
THEOREM SymbolsAreSerialized == Spec => []SerializedPerSymbol
  <1>1. LockInv => SerializedPerSymbol
    BY DEF LockInv, SerializedPerSymbol
  <1> QED
    BY <1>1, RouterInvariant, PTL

-----------------------------------------------------------------------------
(* Refinement.  PlaceOrder is Accept when there is an order and a stutter    *)
(* when there is none, Record is Reply or Forget, Crash forgets every cid,   *)
(* and no other step is seen by OnceOrders.                                  *)

LEMMA OnceInit == Init => Once!Init
  BY DEF Init, Once!Init, None

LEMMA OnceStep ==
  TypeOK /\ LockInv /\ OrderInv /\ [Next]_vars => [Once!Next]_Once!vars
  <1> SUFFICES ASSUME TypeOK, LockInv, OrderInv, [Next]_vars
               PROVE  [Once!Next]_Once!vars
    OBVIOUS
  <1>1. ASSUME NEW t \in Callers, Call(t) \/ Lookup(t) \/ Enter(t) \/ AuditIntent(t)
        PROVE  UNCHANGED Once!vars
    BY <1>1 DEF Call, Lookup, Enter, AuditIntent, Once!vars, lineVars
  <1>2. ASSUME NEW t \in Callers, PlaceOrder(t) PROVE [Once!Next]_Once!vars
    <2> DEFINE c == request[t]
    <2>1. c \in Cids
      BY DEF TypeOK
    <2>2. seen[c] = "none" /\ ~InFlight(c)
      BY <1>2 DEF TypeOK, LockInv, Inside, InFlight, PlaceOrder, To, None
    <2>3. orders[c] <= forgotten[c]
      BY <2>1, <2>2 DEF OrderInv, None
    <2>4. UNCHANGED <<seen, forgotten>>
      BY <1>2 DEF PlaceOrder
    <2>5. CASE UNCHANGED orders
      BY <2>4, <2>5 DEF Once!vars
    <2>6. CASE orders' = [orders EXCEPT ![c] = @ + 1]
      <3>1. Once!Accept(c)
        BY <2>2, <2>3, <2>4, <2>6 DEF Once!Accept
      <3> QED
        BY <3>1, <2>1 DEF Once!Next
    <2> QED
      BY <1>2, <2>5, <2>6 DEF PlaceOrder
  <1>3. ASSUME NEW t \in Callers, Record(t) PROVE [Once!Next]_Once!vars
    <2> DEFINE c == request[t]
    <2>1. c \in Cids /\ ack[t] \in Acks
      BY <1>3 DEF TypeOK, LockInv, Record, To, None, Acks
    <2>2. seen[c] = "none"
      BY <1>3 DEF LockInv, Inside, Record, To, None
    <2>3. CASE seen' = [seen EXCEPT ![c] = ack[t]] /\ UNCHANGED forgotten
      <3>1. Once!Truthful(c, ack[t])
        BY <2>1 DEF OrderInv, Once!Truthful, Acks
      <3>2. Once!Reply(c)
        BY <1>3, <2>1, <2>2, <2>3, <3>1 DEF Once!Reply, Record, lineVars, Acks
      <3> QED
        BY <3>2, <2>1 DEF Once!Next
    <2>4. CASE forgotten' = [forgotten EXCEPT ![c] = @ + 1] /\ UNCHANGED seen
      <3>1. Once!Forget({c})
        BY <1>3, <2>1, <2>2, <2>4 DEF Once!Forget, Record, lineVars, TypeOK
      <3> QED
        BY <3>1, <2>1 DEF Once!Next
    <2> QED
      BY <1>3, <2>3, <2>4 DEF Record
  <1>4. CASE Crash
    <2>1. Once!Forget(Cids)
      BY <1>4 DEF Crash, Once!Forget, lineVars, None
    <2> QED
      BY <2>1 DEF Once!Next
  <1>5. CASE UNCHANGED vars
    BY <1>5 DEF vars, lineVars, Once!vars
  <1> QED
    BY <1>1, <1>2, <1>3, <1>4, <1>5 DEF Next, Submit

(* OrderRouter implements OnceOrders: seen from the caller and the broker,   *)
(* submit with its threads, two lookups and locks is the atomic object.      *)
THEOREM RouterRefinesOnce == Spec => RefinesOnce
  BY OnceInit, OnceStep, RouterInvariant, PTL DEF Spec, RefinesOnce, Once!Spec
=============================================================================
