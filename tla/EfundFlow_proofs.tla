-------------------------- MODULE EfundFlow_proofs --------------------------
(***************************************************************************)
(* PO_COMPLETE means that eFUND is locked, for any owners, signers,        *)
(* thresholds, handlers and failures, however many orders an owner comes   *)
(* to have and however stale the lists and answers a handler works with.   *)
(***************************************************************************)
EXTENDS EfundFlow, SequenceTheorems, FiniteSetTheorems, WellFoundedInduction, TLAPS

\* The last order of a list: PoId's CHOOSE has something to choose.
LEMMA LastOfList ==
  ASSUME NEW n \in Nat, NEW ids \in SUBSET (1 .. n), ids # {}
  PROVE  \E o \in ids : \A p \in ids : p <= o
<1> DEFINE Above == {k \in 0 .. n : n - k \in ids}
           Less == OpToRel(<, Nat)
<1>0. \A p \in ids : n - p \in Above
  <2> TAKE p \in ids
  <2>1. n - p \in 0 .. n /\ n - (n - p) = p
    OBVIOUS
  <2>2. n - (n - p) \in ids
    BY <2>1
  <2> QED
    BY <2>1, <2>2
<1>1. Above \subseteq Nat /\ Above # {}
  <2>1. PICK p : p \in ids
    OBVIOUS
  <2>2. n - p \in Above
    BY <1>0, <2>1
  <2> QED
    BY <2>2
<1>2. PICK k \in Above : \A j \in Above : ~ (<<j, k>> \in Less)
  <2> HIDE DEF Above, Less
  <2>1. IsWellFoundedOn(Less, Nat)
    BY NatLessThanWellFounded DEF Less
  <2> QED
    BY <1>1, <2>1, WFMin
<1>3. \A j \in Above : ~ (j < k)
  BY <1>1, <1>2 DEF OpToRel
<1>4. \A p \in ids : p <= n - k
  <2> TAKE p \in ids
  <2>1. n - p \in Above
    BY <1>0
  <2>2. ~ (n - p < k)
    BY <1>3, <2>1
  <2>3. p \in Nat /\ k \in Nat
    BY <1>1
  <2> QED
    BY <2>2, <2>3
<1> QED
  BY <1>2, <1>4

\* What PoId returns for a list that is not empty is one of its orders.
LEMMA PoIdOfList ==
  ASSUME NEW n \in Nat, NEW ids \in SUBSET (1 .. n), NEW old, ids # {}
  PROVE  PoId(ids, old) \in ids
BY LastOfList DEF PoId

---------------------------------------------------------------------------
(* The inductive invariant. *)

States == {"RAISED", "ACCEPTED", "COMPLETED"}
Order == [purchaser : Wallets, accepts : SUBSET Signers, state : States]

\* What the steps need to know of the values.
Shapes ==
  /\ DOMAIN eFundStatus = Wallets /\ DOMAIN eFundPoId = Wallets
  /\ DOMAIN pc = Handlers /\ DOMAIN at = Handlers /\ DOMAIN pos = Handlers
  /\ DOMAIN asked = Handlers
  /\ orders \in Seq(Order)
  /\ \A tx \in mempool : /\ tx.kind = "raise" => tx.who \in Wallets
                         /\ tx.kind = "accept" => tx.who \in Signers
  /\ \A h \in Handlers : pc[h] \in {"askOrder", "raised"} => at[h] \in Wallets

\* A list a handler works with names orders of the chain, which are never withdrawn.
Listed == \A h \in Handlers : pos[h] \subseteq DOMAIN orders

IsOrderOf(o, w) == o \in DOMAIN orders /\ orders[o].purchaser = w

\* A wallet being processed has an order of its own ...
Processing == \A w \in Wallets : eFundStatus[w] = PO_PROCESSING => IsOrderOf(eFundPoId[w], w)

\* ... and a handler asks about one of the wallet it is at, even when the wallet's order has
\* become another one since.
AsksItsOwn == \A h \in Handlers : pc[h] = "askOrder" => IsOrderOf(asked[h], at[h])

CompletedAreLocked ==
  \A o \in DOMAIN orders : orders[o].state = "COMPLETED" => orders[o].purchaser \in locked

PurchaseInv ==
  Shapes /\ Listed /\ Processing /\ AsksItsOwn /\ CompletedAreLocked /\ CompleteMeansLocked

\* Before the first block no wallet, order or handler has anything to be wrong about.
THEOREM PurchaseInit == Init => PurchaseInv
BY DEF Init, PurchaseInv, Shapes, Listed, Processing, AsksItsOwn, CompletedAreLocked,
       CompleteMeansLocked, NOT_WHITELISTED, PO_PROCESSING, PO_COMPLETE

---------------------------------------------------------------------------
(* The steps. *)

\* What an enterprise wallet leaves behind: each purchaser in its list has the last of its
\* orders there.
LEMMA AcceptKeeps ==
  ASSUME PurchaseInv, NEW h \in Handlers, AcceptOrders(h)
  PROVE  PurchaseInv'
<1> DEFINE ids == pos[h]
           purchaser(w) == {o \in ids : orders[o].purchaser = w}
<1>1. /\ eFundStatus' = [w \in Wallets |-> IF purchaser(w) # {} THEN PO_PROCESSING
                                                               ELSE eFundStatus[w]]
      /\ eFundPoId' = [w \in Wallets |-> PoId(purchaser(w), eFundPoId[w])]
      /\ UNCHANGED <<orders, locked, pos, asked>>
      /\ at[h] \in Signers
      /\ Move(h, "signers", "signers", at[h] + 1)
  BY DEF AcceptOrders, localVars, chainVars
<1>2. ids \subseteq DOMAIN orders
  BY DEF PurchaseInv, Listed
<1>3. ASSUME NEW w \in Wallets, purchaser(w) # {}
      PROVE  IsOrderOf(PoId(purchaser(w), eFundPoId[w]), w)
  <2>1. DOMAIN orders = 1 .. Len(orders) /\ Len(orders) \in Nat
    BY DEF PurchaseInv, Shapes
  <2>2. purchaser(w) \in SUBSET (1 .. Len(orders))
    BY <1>2, <2>1
  <2>3. PoId(purchaser(w), eFundPoId[w]) \in purchaser(w)
    <3> HIDE DEF purchaser
    <3> QED
      BY <1>3, <2>1, <2>2, PoIdOfList
  <2> QED
    BY <1>2, <2>3 DEF IsOrderOf
<1>4. Processing'
  <2> SUFFICES ASSUME NEW w \in Wallets, eFundStatus'[w] = PO_PROCESSING
               PROVE  IsOrderOf(eFundPoId'[w], w)
    BY <1>1 DEF Processing, IsOrderOf
  <2>1. CASE purchaser(w) # {}
    BY <1>1, <1>3, <2>1
  <2>2. CASE purchaser(w) = {}
    <3>1. eFundStatus[w] = PO_PROCESSING /\ eFundPoId'[w] = eFundPoId[w]
      BY <1>1, <2>2 DEF PoId
    <3> QED
      BY <3>1 DEF PurchaseInv, Processing
  <2> QED
    BY <2>1, <2>2
<1>5. CompleteMeansLocked'
  BY <1>1 DEF PurchaseInv, CompleteMeansLocked, PO_PROCESSING, PO_COMPLETE
<1>6. Listed' /\ AsksItsOwn' /\ CompletedAreLocked'
  BY <1>1 DEF PurchaseInv, Shapes, Listed, AsksItsOwn, IsOrderOf, CompletedAreLocked, Move
<1>7. Shapes'
  <2>1. \A tx \in mempool' : /\ tx.kind = "raise" => tx.who \in Wallets
                             /\ tx.kind = "accept" => tx.who \in Signers
    BY <1>1 DEF PurchaseInv, Shapes, AcceptOrders, SendTx, NoSend
  <2> QED
    BY <1>1, <2>1 DEF PurchaseInv, Shapes, Move
<1> QED
  BY <1>4, <1>5, <1>6, <1>7 DEF PurchaseInv

\* A completed order is an order of the same purchaser.
LEMMA OrderCompleted ==
  ASSUME NEW r \in Order
  PROVE  LET o == [r EXCEPT !.state = "COMPLETED"]
         IN  o \in Order /\ o.purchaser = r.purchaser
BY DEF Order, States

\* A tx in a block: orders are added and accepted, and none completes or changes hands.
LEMMA ExecuteKeeps ==
  ASSUME PurchaseInv, NEW tx \in mempool, Execute(tx)
  PROVE  PurchaseInv'
<1>1. /\ orders' \in Seq(Order)
      /\ DOMAIN orders \subseteq DOMAIN orders'
      /\ \A o \in DOMAIN orders :
           /\ orders'[o].purchaser = orders[o].purchaser
           /\ orders'[o].state = "COMPLETED" => orders[o].state = "COMPLETED"
      /\ \A o \in DOMAIN orders' \ DOMAIN orders : orders'[o].state # "COMPLETED"
  <2>1. CASE tx.kind = "raise" /\ tx.who \in whitelisted
    <3> DEFINE new == [purchaser |-> tx.who, accepts |-> {}, state |-> "RAISED"]
    <3>1. orders' = Append(orders, new)
      BY <2>1 DEF Execute
    <3>2. new \in Order /\ orders \in Seq(Order)
      BY <2>1 DEF PurchaseInv, Shapes, Order, States
    <3> HIDE DEF new
    <3>3. /\ orders' \in Seq(Order)
          /\ DOMAIN orders = 1 .. Len(orders) /\ DOMAIN orders' = 1 .. Len(orders) + 1
          /\ \A o \in 1 .. Len(orders) : orders'[o] = orders[o]
          /\ orders'[Len(orders) + 1] = new
      BY <3>1, <3>2
    <3>4. new.state = "RAISED"
      BY DEF new
    <3> QED
      BY <3>2, <3>3, <3>4
  <2>2. CASE tx.kind = "accept" /\ \A o \in tx.ids : /\ orders[o].state = "RAISED"
                                                     /\ tx.who \notin orders[o].accepts
    <3>1. orders' = [o \in DOMAIN orders |->
                       IF o \in tx.ids
                       THEN [orders[o] EXCEPT
                               !.accepts = @ \cup {tx.who},
                               !.state = IF Cardinality(orders[o].accepts) + 1 >= Threshold
                                         THEN "ACCEPTED" ELSE @]
                       ELSE orders[o]]
      BY <2>2 DEF Execute
    <3>2. tx.who \in Signers /\ orders \in Seq(Order)
      BY <2>2 DEF PurchaseInv, Shapes
    <3>3. DOMAIN orders' = DOMAIN orders
      BY <3>1
    <3>4. ASSUME NEW o \in DOMAIN orders
          PROVE  /\ orders'[o] \in Order
                 /\ orders'[o].purchaser = orders[o].purchaser
                 /\ orders'[o].state \in {"ACCEPTED", orders[o].state}
      <4>1. orders[o] \in Order
        BY <3>2
      <4>2. CASE o \notin tx.ids
        BY <3>1, <4>1, <4>2
      <4>3. CASE o \in tx.ids
        <5>1. PICK new \in {"ACCEPTED", orders[o].state} :
                orders'[o] = [orders[o] EXCEPT !.accepts = @ \cup {tx.who}, !.state = new]
          BY <3>1, <4>3
        <5> DEFINE r == orders[o]
        <5>2. orders'[o] = [purchaser |-> r.purchaser, accepts |-> r.accepts \cup {tx.who},
                            state |-> new]
          <6> HIDE DEF r
          <6>1. r \in Order
            BY <4>1 DEF r
          <6>2. orders'[o] = [r EXCEPT !.accepts = @ \cup {tx.who}, !.state = new]
            BY <5>1 DEF r
          <6> QED
            BY <6>1, <6>2 DEF Order
        <5>3. /\ r.purchaser \in Wallets /\ r.accepts \in SUBSET Signers
              /\ r.state \in States
          BY <4>1 DEF Order
        <5>4. new \in States
          BY <5>1, <5>3 DEF States
        <5> QED
          BY <3>2, <5>1, <5>2, <5>3, <5>4, ZenonT(20) DEF Order
      <4> QED
        BY <4>2, <4>3
    <3>5. orders' \in Seq(Order)
      <4>1. DOMAIN orders' = 1 .. Len(orders) /\ Len(orders) \in Nat
        BY <3>2, <3>3
      <4>2. orders' = [o \in 1 .. Len(orders) |-> orders'[o]]
        BY <3>1, <3>3, <4>1
      <4> HIDE <3>1
      <4> QED
        BY <3>3, <3>4, <4>1, <4>2, SeqDef
    <3> QED
      BY <3>3, <3>4, <3>5
  <2>3. CASE orders' = orders
    BY <2>3 DEF PurchaseInv, Shapes
  <2> QED
    BY <2>1, <2>2, <2>3 DEF Execute
<1>2. /\ UNCHANGED <<eFundStatus, eFundPoId, pc, at, pos, asked, locked>>
      /\ mempool' \subseteq mempool
  BY DEF Execute, walletVars, localVars
<1> QED
  BY <1>1, <1>2 DEF PurchaseInv, Shapes, Listed, IsOrderOf, Processing, AsksItsOwn,
                    CompletedAreLocked, CompleteMeansLocked

\* A completed order's eFUND is locked in the same step.
LEMMA CompleteKeeps ==
  ASSUME PurchaseInv, NEW o \in 1 .. MaxOrders, CompleteOrder(o)
  PROVE  PurchaseInv'
<1>1. /\ o \in DOMAIN orders
      /\ orders' = [orders EXCEPT ![o].state = "COMPLETED"]
      /\ locked' = locked \cup {orders[o].purchaser}
      /\ UNCHANGED <<eFundStatus, eFundPoId, pc, at, pos, asked, mempool>>
  BY DEF CompleteOrder, walletVars, localVars
<1>2. orders \in Seq(Order)
  BY DEF PurchaseInv, Shapes
<1>3. /\ DOMAIN orders' = DOMAIN orders
      /\ \A p \in DOMAIN orders :
           /\ orders'[p] \in Order
           /\ orders'[p].purchaser = orders[p].purchaser
           /\ p # o => orders'[p].state = orders[p].state
  <2>1. /\ DOMAIN orders' = DOMAIN orders
        /\ \A p \in DOMAIN orders : orders[p] \in Order
    BY <1>1, <1>2
  <2>2. orders'[o] = [orders[o] EXCEPT !.state = "COMPLETED"]
    BY <1>1
  <2>3. orders'[o] \in Order /\ orders'[o].purchaser = orders[o].purchaser
    BY <1>1, <2>1, <2>2, OrderCompleted
  <2>4. \A p \in DOMAIN orders : p # o => orders'[p] = orders[p]
    BY <1>1
  <2> QED
    BY <2>1, <2>3, <2>4
<1>4. orders' \in Seq(Order)
  <2>1. DOMAIN orders' = 1 .. Len(orders) /\ Len(orders) \in Nat
    BY <1>2, <1>3
  <2>2. orders' = [p \in 1 .. Len(orders) |-> orders'[p]]
    BY <1>1, <1>3, <2>1
  <2> QED
    BY <1>3, <2>1, <2>2, SeqDef
<1> QED
  BY <1>1, <1>3, <1>4 DEF PurchaseInv, Shapes, Listed, IsOrderOf, Processing, AsksItsOwn,
                         CompletedAreLocked, CompleteMeansLocked

\* The other steps of a handler, and a handler that ends at a query that rejects.
LEMMA HandlerKeeps ==
  ASSUME PurchaseInv, NEW h \in Handlers, Handler(h) \/ Abort(h)
  PROVE  PurchaseInv'
<1> USE DEF PurchaseInv, Shapes, Listed, IsOrderOf, Processing, AsksItsOwn,
            CompletedAreLocked, CompleteMeansLocked, Step, Move, walletVars, localVars, chainVars,
            NOT_WHITELISTED, WHITELIST_TX_SENT, WHITELISTED, PO_TX_SENT, PO_PROCESSING,
            PO_COMPLETE
<1>1. CASE NewBlock(h)
  BY <1>1, EfundAssumption DEF NewBlock
<1>2. CASE SkipWallet(h)
  BY <1>2, EfundAssumption DEF SkipWallet
<1>3. CASE CollectWallet(h)
  BY <1>3, EfundAssumption DEF CollectWallet
<1>4. CASE StartStep(h)
  BY <1>4, EfundAssumption, SMTT(20) DEF StartStep
<1>5. CASE CheckWhitelisted(h)
  BY <1>5, EfundAssumption DEF CheckWhitelisted
<1>6. CASE RaiseOrder(h)
  BY <1>6, EfundAssumption DEF RaiseOrder, SendTx, Fail
<1>7. CASE OrderRaised(h)
  BY <1>7, EfundAssumption DEF OrderRaised, NoSend
<1>8. CASE CheckPoStatus(h)
  BY <1>8, EfundAssumption DEF CheckPoStatus, Completes
<1>9. CASE WhitelistAddresses(h)
  BY <1>9, EfundAssumption DEF WhitelistAddresses, SendTx, NoSend, Fail
<1>10. CASE ListOrders(h)
  BY <1>10, EfundAssumption DEF ListOrders, Raised
<1>11. CASE AcceptOrders(h)
  BY <1>11, AcceptKeeps
<1>12. CASE SkipSigner(h)
  BY <1>12, EfundAssumption DEF SkipSigner
<1>13. CASE SignersDone(h)
  BY <1>13, EfundAssumption DEF SignersDone
<1>14. CASE SkipOwner(h)
  BY <1>14, EfundAssumption DEF SkipOwner
<1>15. CASE StartRegister(h)
  BY <1>15, EfundAssumption DEF StartRegister
<1>16. CASE CanRegister(h)
  BY <1>16, EfundAssumption DEF CanRegister
<1>17. CASE Register(h)
  BY <1>17, EfundAssumption DEF Register, SendTx, Fail
<1>18. CASE RegTxSent(h)
  BY <1>18, EfundAssumption DEF RegTxSent, NoSend
<1>19. CASE AskId(h)
  BY <1>19, EfundAssumption DEF AskId
<1>20. CASE AnswerId(h)
  BY <1>20, EfundAssumption DEF AnswerId
<1>21. CASE SetId(h)
  BY <1>21, EfundAssumption DEF SetId
<1>22. CASE Record(h)
  BY <1>22, EfundAssumption DEF Record, SendTx, NoSend, Fail
<1>23. CASE OwnersDone(h)
  BY <1>23, EfundAssumption DEF OwnersDone
<1>24. CASE Abort(h)
  BY <1>24, EfundAssumption DEF Abort, Fail
<1> QED
  BY <1>1, <1>2, <1>3, <1>4, <1>5, <1>6, <1>7, <1>8, <1>9, <1>10, <1>11, <1>12, <1>13,
     <1>14, <1>15, <1>16, <1>17, <1>18, <1>19, <1>20, <1>21, <1>22, <1>23, <1>24 DEF
     Handler

\* The invariant is kept by every step, whatever handlers are in progress.
THEOREM PurchaseNext == PurchaseInv /\ [Next]_vars => PurchaseInv'
<1> SUFFICES ASSUME PurchaseInv, [Next]_vars
             PROVE  PurchaseInv'
  OBVIOUS
<1>1. ASSUME NEW h \in Handlers, Handler(h) \/ Abort(h)
      PROVE  PurchaseInv'
  BY <1>1, HandlerKeeps
<1>2. ASSUME NEW tx \in mempool, Execute(tx)
      PROVE  PurchaseInv'
  BY <1>2, ExecuteKeeps
<1>3. ASSUME NEW o \in 1 .. MaxOrders, CompleteOrder(o)
      PROVE  PurchaseInv'
  BY <1>3, CompleteKeeps
<1>4. CASE Upgrade \/ UNCHANGED vars
  BY <1>4 DEF Upgrade, vars, walletVars, localVars, chainVars, PurchaseInv, Shapes, Listed,
              IsOrderOf, Processing, AsksItsOwn, CompletedAreLocked, CompleteMeansLocked
<1> QED
  BY <1>1, <1>2, <1>3, <1>4 DEF Next

\* An owner is taken to have its eFUND only when the chain has locked it: checkPoStatus asks
\* about an order of the owner's, and the chain locks eFUND in the step that completes one.
THEOREM PurchaseCompleteMeansLocked == Spec => []CompleteMeansLocked
<1>1. PurchaseInv => CompleteMeansLocked
  BY DEF PurchaseInv
<1> QED
  BY <1>1, PurchaseInit, PurchaseNext, PTL DEF Spec

---------------------------------------------------------------------------
(* Types.  That a list or a question names orders within the bound needs the orders still to
   come of the mempool in the account; where a handler is, what it awaits. *)

Raises == {tx \in mempool : tx.kind = "raise"}

Bounded == IsFiniteSet(Raises) /\ Len(orders) + Cardinality(Raises) <= MaxOrders

AtWallet ==
  \A h \in Handlers :
    pc[h] \in {"askWhitelisted", "raised", "askOrder", "canRegister", "register", "registered",
              "askId", "answeredId"} => at[h] \in Wallets

\* Where the handlers are; and the values.
Places ==
  /\ pc \in [Handlers -> PcStates]
  /\ at \in [Handlers -> 1 .. NumWallets + NumSigners + 1]
  /\ AtWallet

Values ==
  /\ eFundStatus \in [Wallets -> NOT_WHITELISTED .. PO_COMPLETE]
  /\ eFundPoId \in [Wallets -> 0 .. MaxOrders]
  /\ regTxSent \in [Wallets -> BOOLEAN]
  /\ regId \in [Wallets -> BOOLEAN]
  /\ whitelistWallets \in [Handlers -> SUBSET Wallets]
  /\ pos \in [Handlers -> SUBSET (1 .. MaxOrders)]
  /\ asked \in [Handlers -> (0 .. MaxOrders) \cup {1}]
  /\ sawUpgrade \in [Handlers -> BOOLEAN]
  /\ upgraded \in BOOLEAN
  /\ locked \subseteq Wallets
  /\ failures \in 0 .. MaxFailures

\* The orders raised and those still to come stay within the bound.
LEMMA BoundedNext ==
  ASSUME PurchaseInv, Bounded, [Next]_vars
  PROVE  Bounded'
<1>0. MaxOrders \in Nat /\ Len(orders) \in Nat /\ Cardinality(Raises) \in Nat
  BY EfundAssumption, FS_CardinalityType DEF PurchaseInv, Shapes, Bounded
<1>1. ASSUME Len(orders') = Len(orders), Raises' = Raises
      PROVE  Bounded'
  BY <1>1 DEF Bounded
<1>2. ASSUME NEW h \in Handlers, RaiseOrder(h)
      PROVE  Bounded'
  <2> DEFINE new == [kind |-> "raise", who |-> at[h], by |-> h]
  <2>1. Len(orders) + Cardinality(Raises) < MaxOrders /\ orders' = orders
    BY <1>2 DEF RaiseOrder, Raises, chainVars
  <2>2. new.kind = "raise" /\ (mempool' = mempool \/ mempool' = mempool \cup {new})
    BY <1>2 DEF RaiseOrder, SendTx
  <2> HIDE DEF new
  <2>3. Raises' = Raises \/ Raises' = Raises \cup {new}
    BY <2>2 DEF Raises
  <2>4. IsFiniteSet(Raises)
    BY DEF Bounded
  <2>5. /\ IsFiniteSet(Raises \cup {new})
        /\ \/ Cardinality(Raises \cup {new}) = Cardinality(Raises)
           \/ Cardinality(Raises \cup {new}) = Cardinality(Raises) + 1
    BY <2>4, FS_AddElement
  <2>6. /\ IsFiniteSet(Raises')
        /\ \/ Cardinality(Raises') = Cardinality(Raises)
           \/ Cardinality(Raises') = Cardinality(Raises) + 1
    <3>1. CASE Raises' = Raises
      BY <2>4, <3>1
    <3>2. CASE Raises' = Raises \cup {new}
      BY <2>5, <3>2
    <3> QED
      BY <2>3, <3>1, <3>2
  <2> QED
    BY <1>0, <2>1, <2>6 DEF Bounded
<1>3. ASSUME NEW tx \in mempool, Execute(tx)
      PROVE  Bounded'
  <2>1. mempool' = mempool \ {tx}
    BY <1>3 DEF Execute
  <2>2. CASE tx.kind = "raise"
    <3>1. Raises' = Raises \ {tx} /\ tx \in Raises
      BY <2>1, <2>2 DEF Raises
    <3>2. IsFiniteSet(Raises') /\ Cardinality(Raises') = Cardinality(Raises) - 1
      BY <3>1, FS_RemoveElement DEF Bounded
    <3>3. Len(orders') <= Len(orders) + 1 /\ Len(orders') \in Nat
      BY <1>3, <2>2 DEF Execute, PurchaseInv, Shapes
    <3> QED
      BY <1>0, <3>2, <3>3 DEF Bounded
  <2>3. CASE tx.kind # "raise"
    <3>1. Raises' = Raises
      BY <2>1, <2>3 DEF Raises
    <3>2. DOMAIN orders' = DOMAIN orders
      BY <1>3, <2>3 DEF Execute
    <3>3. orders \in Seq(Order) /\ orders' \in Seq(Order)
      BY <1>3, ExecuteKeeps DEF PurchaseInv, Shapes
    <3>4. Len(orders') = Len(orders)
      BY <3>2, <3>3
    <3> QED
      BY <1>1, <3>1, <3>4
  <2> QED
    BY <2>2, <2>3
<1>4. ASSUME NEW o \in 1 .. MaxOrders, CompleteOrder(o)
      PROVE  Bounded'
  <2>1. mempool' = mempool /\ DOMAIN orders' = DOMAIN orders
    BY <1>4 DEF CompleteOrder
  <2>2. orders \in Seq(Order) /\ orders' \in Seq(Order)
    BY <1>4, CompleteKeeps DEF PurchaseInv, Shapes
  <2>3. Len(orders') = Len(orders)
    BY <2>1, <2>2
  <2> QED
    BY <1>1, <2>1, <2>3 DEF Raises
<1>5. ASSUME NEW h \in Handlers, Handler(h) \/ Abort(h), ~RaiseOrder(h)
      PROVE  Bounded'
  <2>1. orders' = orders
    BY <1>5 DEF Handler, chainVars, NewBlock, SkipWallet, CollectWallet, StartStep, CheckWhitelisted, RaiseOrder, OrderRaised, CheckPoStatus, WhitelistAddresses, ListOrders, AcceptOrders, SkipSigner, SignersDone, SkipOwner, StartRegister, CanRegister, Register, RegTxSent, AskId, AnswerId, SetId, Record, OwnersDone, Abort
  <2>2. \/ mempool' = mempool
        \/ \E tx : tx.kind # "raise" /\ mempool' = mempool \cup {tx}
    BY <1>5 DEF Handler, SendTx, NoSend, NewBlock, SkipWallet, CollectWallet, StartStep, CheckWhitelisted, RaiseOrder, OrderRaised, CheckPoStatus, WhitelistAddresses, ListOrders, AcceptOrders, SkipSigner, SignersDone, SkipOwner, StartRegister, CanRegister, Register, RegTxSent, AskId, AnswerId, SetId, Record, OwnersDone, Abort
  <2> QED
    BY <1>1, <2>1, <2>2 DEF Raises
<1>6. CASE Upgrade \/ UNCHANGED vars
  BY <1>1, <1>6 DEF Upgrade, vars, chainVars, Raises
<1> QED
  BY <1>2, <1>3, <1>4, <1>5, <1>6 DEF Next

\* A handler goes from place to place.
LEMMA PlacesNext ==
  ASSUME Places, NEW h \in Handlers, Handler(h) \/ Abort(h)
  PROVE  Places'
<1>1. NumWallets \in Nat /\ NumSigners \in Nat
  BY EfundAssumption
<1> USE DEF Places, AtWallet, PcStates, Wallets, Signers
<1>2. ASSUME NEW from, NEW to \in PcStates, Step(h, from, to),
             to \notin {"wallets", "idle", "owners", "listOrders", "signers"} => at[h] \in Wallets
      PROVE  Places'
  BY <1>2 DEF Step
<1>3. ASSUME NEW from, NEW to \in {"wallets", "idle", "owners", "listOrders", "signers"},
             NEW n \in 1 .. NumWallets + NumSigners + 1, Move(h, from, to, n)
      PROVE  Places'
  BY <1>3 DEF Move
<1>4. \A k \in Wallets \cup Signers : k + 1 \in 1 .. NumWallets + NumSigners + 1
  BY <1>1
<1>5. 1 \in 1 .. NumWallets + NumSigners + 1
  BY <1>1
<1>6. CASE NewBlock(h)
  BY <1>1, <1>2, <1>3, <1>4, <1>5, <1>6 DEF NewBlock
<1>7. CASE SkipWallet(h)
  BY <1>1, <1>2, <1>3, <1>4, <1>5, <1>7 DEF SkipWallet
<1>8. CASE CollectWallet(h)
  BY <1>1, <1>2, <1>3, <1>4, <1>5, <1>8 DEF CollectWallet
<1>9. CASE StartStep(h)
  BY <1>1, <1>2, <1>3, <1>4, <1>5, <1>9 DEF StartStep
<1>10. CASE CheckWhitelisted(h)
  <2>1. at[h] \in Wallets
    BY <1>10 DEF CheckWhitelisted, Move, Step
  <2> QED
    BY <1>1, <1>2, <1>3, <1>4, <1>5, <1>10, <2>1 DEF CheckWhitelisted
<1>11. CASE RaiseOrder(h)
  BY <1>1, <1>2, <1>3, <1>4, <1>5, <1>11 DEF RaiseOrder
<1>12. CASE OrderRaised(h)
  <2>1. at[h] \in Wallets
    BY <1>12 DEF OrderRaised, Move, Step
  <2> QED
    BY <1>1, <1>2, <1>3, <1>4, <1>5, <1>12, <2>1 DEF OrderRaised
<1>13. CASE CheckPoStatus(h)
  <2>1. at[h] \in Wallets
    BY <1>13 DEF CheckPoStatus, Move, Step
  <2> QED
    BY <1>1, <1>2, <1>3, <1>4, <1>5, <1>13, <2>1 DEF CheckPoStatus
<1>14. CASE WhitelistAddresses(h)
  BY <1>1, <1>2, <1>3, <1>4, <1>5, <1>14 DEF WhitelistAddresses
<1>15. CASE ListOrders(h)
  BY <1>1, <1>2, <1>3, <1>4, <1>5, <1>15 DEF ListOrders
<1>16. CASE AcceptOrders(h)
  BY <1>1, <1>2, <1>3, <1>4, <1>5, <1>16 DEF AcceptOrders
<1>17. CASE SkipSigner(h)
  BY <1>1, <1>2, <1>3, <1>4, <1>5, <1>17 DEF SkipSigner
<1>18. CASE SignersDone(h)
  BY <1>1, <1>2, <1>3, <1>4, <1>5, <1>18 DEF SignersDone
<1>19. CASE SkipOwner(h)
  BY <1>1, <1>2, <1>3, <1>4, <1>5, <1>19 DEF SkipOwner
<1>20. CASE StartRegister(h)
  BY <1>1, <1>2, <1>3, <1>4, <1>5, <1>20 DEF StartRegister
<1>21. CASE CanRegister(h)
  <2>1. at[h] \in Wallets
    BY <1>21 DEF CanRegister, Move, Step
  <2> QED
    BY <1>1, <1>2, <1>3, <1>4, <1>5, <1>21, <2>1 DEF CanRegister
<1>22. CASE Register(h)
  <2>1. at[h] \in Wallets
    BY <1>22 DEF Register, Move, Step
  <2> QED
    BY <1>1, <1>2, <1>3, <1>4, <1>5, <1>22, <2>1 DEF Register
<1>23. CASE RegTxSent(h)
  <2>1. at[h] \in Wallets
    BY <1>23 DEF RegTxSent, Move, Step
  <2> QED
    BY <1>1, <1>2, <1>3, <1>4, <1>5, <1>23, <2>1 DEF RegTxSent
<1>24. CASE AskId(h)
  BY <1>1, <1>2, <1>3, <1>4, <1>5, <1>24 DEF AskId
<1>25. CASE AnswerId(h)
  <2>1. at[h] \in Wallets
    BY <1>25 DEF AnswerId, Move, Step
  <2> QED
    BY <1>1, <1>2, <1>3, <1>4, <1>5, <1>25, <2>1 DEF AnswerId
<1>26. CASE SetId(h)
  <2>1. at[h] \in Wallets
    BY <1>26 DEF SetId, Move, Step
  <2> QED
    BY <1>1, <1>2, <1>3, <1>4, <1>5, <1>26, <2>1 DEF SetId
<1>27. CASE Record(h)
  BY <1>1, <1>2, <1>3, <1>4, <1>5, <1>27 DEF Record
<1>28. CASE OwnersDone(h)
  BY <1>1, <1>2, <1>3, <1>4, <1>5, <1>28 DEF OwnersDone
<1>29. CASE Abort(h)
  BY <1>1, <1>2, <1>3, <1>4, <1>5, <1>29 DEF Abort
<1> QED
  BY <1>6, <1>7, <1>8, <1>9, <1>10, <1>11, <1>12, <1>13, <1>14, <1>15, <1>16, <1>17,
     <1>18, <1>19, <1>20, <1>21, <1>22, <1>23, <1>24, <1>25, <1>26, <1>27, <1>28, <1>29
     DEF Handler

\* What a handler writes is of its type.
LEMMA ValuesNext ==
  ASSUME PurchaseInv, Bounded, Places, Values, NEW h \in Handlers, Handler(h) \/ Abort(h)
  PROVE  Values'
<1>1. /\ MaxOrders \in Nat /\ MaxFailures \in Nat
      /\ Len(orders) \in 0 .. MaxOrders /\ DOMAIN orders = 1 .. Len(orders)
  BY EfundAssumption, FS_CardinalityType DEF PurchaseInv, Shapes, Bounded
<1> USE DEF Values, Places, AtWallet, Step, Move, walletVars, localVars, chainVars,
            NOT_WHITELISTED, WHITELIST_TX_SENT, WHITELISTED, PO_TX_SENT, PO_PROCESSING, PO_COMPLETE
<1>2. CASE NewBlock(h)
  BY <1>1, <1>2 DEF NewBlock
<1>3. CASE SkipWallet(h)
  BY <1>1, <1>3 DEF SkipWallet
<1>4. CASE CollectWallet(h)
  BY <1>1, <1>4 DEF CollectWallet
<1>5. CASE StartStep(h)
  BY <1>1, <1>5 DEF StartStep
<1>6. CASE CheckWhitelisted(h)
  <2>1. eFundStatus' \in {eFundStatus, [eFundStatus EXCEPT ![at[h]] = WHITELISTED]}
    BY <1>6 DEF CheckWhitelisted
  <2>2. eFundStatus' \in [Wallets -> NOT_WHITELISTED .. PO_COMPLETE]
    BY <2>1
  <2> QED
    BY <1>6, <2>2 DEF CheckWhitelisted
<1>7. CASE RaiseOrder(h)
  BY <1>1, <1>7 DEF RaiseOrder, SendTx, Fail
<1>8. CASE OrderRaised(h)
  BY <1>1, <1>8 DEF OrderRaised, NoSend
<1>9. CASE CheckPoStatus(h)
  <2>1. eFundStatus' \in {eFundStatus, [eFundStatus EXCEPT ![at[h]] = PO_COMPLETE]}
    BY <1>9 DEF CheckPoStatus
  <2>2. eFundStatus' \in [Wallets -> NOT_WHITELISTED .. PO_COMPLETE]
    BY <2>1
  <2> QED
    BY <1>1, <1>9, <2>2 DEF CheckPoStatus
<1>10. CASE WhitelistAddresses(h)
  BY <1>1, <1>10, SMTT(20) DEF WhitelistAddresses, SendTx, NoSend, Fail
<1>11. CASE ListOrders(h)
  BY <1>1, <1>11 DEF ListOrders, Raised
<1>12. CASE AcceptOrders(h)
  <2> DEFINE purchaser(w) == {o \in pos[h] : orders[o].purchaser = w}
  <2>1. \A w \in Wallets : purchaser(w) \in SUBSET (1 .. Len(orders))
    BY <1>1 DEF PurchaseInv, Listed
  <2>2. \A w \in Wallets : purchaser(w) # {} => PoId(purchaser(w), eFundPoId[w]) \in 1 .. MaxOrders
    <3> SUFFICES ASSUME NEW w \in Wallets, purchaser(w) # {}
                 PROVE  PoId(purchaser(w), eFundPoId[w]) \in 1 .. MaxOrders
      OBVIOUS
    <3>1. purchaser(w) \in SUBSET (1 .. Len(orders)) /\ Len(orders) \in Nat
      BY <1>1, <2>1
    <3> HIDE DEF purchaser
    <3>2. PoId(purchaser(w), eFundPoId[w]) \in purchaser(w)
      BY <3>1, PoIdOfList
    <3> QED
      BY <1>1, <3>1, <3>2
  <2>3. \A w \in Wallets : purchaser(w) = {} => PoId(purchaser(w), eFundPoId[w]) = eFundPoId[w]
    BY DEF PoId
  <2>4. /\ eFundPoId' = [w \in Wallets |-> PoId(purchaser(w), eFundPoId[w])]
        /\ eFundStatus' = [w \in Wallets |-> IF purchaser(w) # {} THEN PO_PROCESSING
                                                               ELSE eFundStatus[w]]
        /\ UNCHANGED <<regTxSent, regId, localVars, chainVars, upgraded>>
        /\ failures' \in 0 .. MaxFailures
    BY <1>1, <1>12 DEF AcceptOrders, SendTx, NoSend, Fail
  <2> HIDE DEF purchaser
  <2>5. eFundPoId' \in [Wallets -> 0 .. MaxOrders]
    BY <1>1, <2>2, <2>3, <2>4
  <2>6. eFundStatus' \in [Wallets -> NOT_WHITELISTED .. PO_COMPLETE]
    BY <2>4
  <2> QED
    BY <2>4, <2>5, <2>6
<1>13. CASE SkipSigner(h)
  BY <1>1, <1>13 DEF SkipSigner
<1>14. CASE SignersDone(h)
  BY <1>1, <1>14 DEF SignersDone
<1>15. CASE SkipOwner(h)
  BY <1>1, <1>15 DEF SkipOwner
<1>16. CASE StartRegister(h)
  BY <1>1, <1>16 DEF StartRegister
<1>17. CASE CanRegister(h)
  BY <1>1, <1>17 DEF CanRegister
<1>18. CASE Register(h)
  BY <1>1, <1>18 DEF Register, SendTx, Fail
<1>19. CASE RegTxSent(h)
  BY <1>1, <1>19 DEF RegTxSent, NoSend
<1>20. CASE AskId(h)
  BY <1>1, <1>20 DEF AskId
<1>21. CASE AnswerId(h)
  BY <1>1, <1>21 DEF AnswerId
<1>22. CASE SetId(h)
  BY <1>1, <1>22 DEF SetId
<1>23. CASE Record(h)
  BY <1>1, <1>23 DEF Record, SendTx, NoSend, Fail
<1>24. CASE OwnersDone(h)
  BY <1>1, <1>24 DEF OwnersDone
<1>25. CASE Abort(h)
  BY <1>1, <1>25 DEF Abort, Fail
<1> QED
  BY <1>2, <1>3, <1>4, <1>5, <1>6, <1>7, <1>8, <1>9, <1>10, <1>11, <1>12, <1>13, <1>14,
     <1>15, <1>16, <1>17, <1>18, <1>19, <1>20, <1>21, <1>22, <1>23, <1>24, <1>25 DEF
     Handler

TypeInv == PurchaseInv /\ Bounded /\ Places /\ Values

\* An empty mempool, idle handlers and no orders.
LEMMA TypeInvInit == Init => TypeInv
<1> SUFFICES ASSUME Init PROVE TypeInv
  OBVIOUS
<1>1. PurchaseInv
  BY PurchaseInit
<1>2. Bounded
  <2>1. Raises = {} /\ Len(orders) = 0
    BY DEF Init, Raises
  <2> QED
    BY <2>1, FS_EmptySet, EfundAssumption DEF Bounded
<1>3. Places
  BY EfundAssumption DEF Init, Places, AtWallet, PcStates
<1>4. Values
  BY EfundAssumption DEF Init, Values, NOT_WHITELISTED, PO_COMPLETE
<1> QED
  BY <1>1, <1>2, <1>3, <1>4 DEF TypeInv

\* Each step keeps the account, the places and the values.
LEMMA TypeInvNext == TypeInv /\ [Next]_vars => TypeInv'
<1> SUFFICES ASSUME TypeInv, [Next]_vars PROVE Places' /\ Values'
  BY PurchaseNext, BoundedNext DEF TypeInv
<1>1. CASE \E h \in Handlers : Handler(h) \/ Abort(h)
  BY <1>1, PlacesNext, ValuesNext DEF TypeInv
<1>2. ASSUME NEW tx \in mempool, Execute(tx)
      PROVE  Places' /\ Values'
  BY <1>2 DEF TypeInv, Execute, Places, AtWallet, Values, walletVars, localVars
<1>3. ASSUME NEW o \in 1 .. MaxOrders, CompleteOrder(o)
      PROVE  Places' /\ Values'
  <2>1. orders[o].purchaser \in Wallets
    <3>1. o \in DOMAIN orders /\ orders \in Seq(Order)
      BY <1>3 DEF TypeInv, PurchaseInv, Shapes, CompleteOrder
    <3>2. orders[o] \in Order
      BY <3>1
    <3> QED
      BY <3>2 DEF Order
  <2> QED
    BY <1>3, <2>1 DEF TypeInv, CompleteOrder, Places, AtWallet, Values, walletVars, localVars
<1>4. CASE Upgrade \/ UNCHANGED vars
  BY <1>4 DEF TypeInv, Upgrade, vars, Places, AtWallet, Values, walletVars, localVars, chainVars
<1> QED
  BY <1>1, <1>2, <1>3, <1>4 DEF Next

\* The types of the flow's state; the order a wallet is being processed with exists
\* (processEfundPos, checkPoStatus).
THEOREM PurchaseTypeOK == Spec => []TypeOK
<1>1. TypeInv => TypeOK
  <2> SUFFICES ASSUME TypeInv PROVE TypeOK
    OBVIOUS
  <2>1. \A w \in Wallets : eFundStatus[w] = PO_PROCESSING => eFundPoId[w] \in DOMAIN orders
    BY DEF TypeInv, PurchaseInv, Processing, IsOrderOf
  <2> QED
    BY <2>1 DEF TypeInv, Places, Values, TypeOK
<1> QED
  BY <1>1, TypeInvInit, TypeInvNext, PTL DEF Spec

---------------------------------------------------------------------------
(* One handler at a time: an owner raises one order. *)

OrdersOf(w) == {o \in DOMAIN orders : orders[o].purchaser = w}
RaisesOf(w) == {tx \in mempool : tx.kind = "raise" /\ tx.who = w}

AtMostOne(S) == \A x, y \in S : x = y

\* There is at most one order of an owner, on chain or on its way; and none before the wallet
\* has come to raise it.
Raising(w) == \E h \in Handlers : pc[h] = "raised" /\ at[h] = w
OneOrder ==
  \A w \in Wallets :
    /\ AtMostOne(OrdersOf(w)) /\ AtMostOne(RaisesOf(w))
    /\ OrdersOf(w) = {} \/ RaisesOf(w) = {}
    /\ eFundStatus[w] < PO_TX_SENT /\ ~Raising(w) => OrdersOf(w) = {} /\ RaisesOf(w) = {}

\* A handler's wallet is as it found it, and so are those it has collected.
AsFound ==
  \A h \in Handlers :
    /\ pc[h] = "raised" => eFundStatus[at[h]] = WHITELISTED
    /\ pc[h] = "askWhitelisted" => eFundStatus[at[h]] = WHITELIST_TX_SENT
    /\ pc[h] \in {"wallets", "askWhitelisted", "raised", "askOrder"} =>
         \A w \in whitelistWallets[h] : w < at[h] /\ eFundStatus[w] = NOT_WHITELISTED

OrderInv == OneOrder /\ AsFound

\* The handler's own steps.
LEMMA HandlerOneOrder ==
  ASSUME TypeInv, OrderInv, NEW h, Handlers = {h}, Handler(h) \/ Abort(h)
  PROVE  OrderInv'
<1>0. /\ at[h] \in Nat /\ pc \in [Handlers -> PcStates] /\ DOMAIN at = Handlers
      /\ eFundStatus \in [Wallets -> 0 .. 5] /\ whitelistWallets \in [Handlers -> SUBSET Wallets]
      /\ pc[h] \in {"askWhitelisted", "raised", "askOrder"} => at[h] \in Wallets
      /\ Wallets \subseteq Nat
  BY EfundAssumption DEF TypeInv, Places, AtWallet, Values, NOT_WHITELISTED, PO_COMPLETE, Wallets
<1>1. orders' = orders
  BY DEF Handler, chainVars, NewBlock, SkipWallet, CollectWallet, StartStep, CheckWhitelisted, RaiseOrder, OrderRaised, CheckPoStatus, WhitelistAddresses, ListOrders, AcceptOrders, SkipSigner, SignersDone, SkipOwner, StartRegister, CanRegister, Register, RegTxSent, AskId, AnswerId, SetId, Record, OwnersDone, Abort
<1> USE DEF OrderInv, OneOrder, AsFound, Raising, OrdersOf, RaisesOf, AtMostOne, Step, Move,
            walletVars, localVars, chainVars, NOT_WHITELISTED, WHITELIST_TX_SENT, WHITELISTED,
            PO_TX_SENT, PO_PROCESSING, PO_COMPLETE
<1>2. CASE NewBlock(h)
  BY <1>0, <1>1, <1>2 DEF NewBlock
<1>3. CASE SkipWallet(h)
  <2>1. mempool' = mempool /\ at[h] \in Wallets /\ pc'[h] = "wallets" /\ at'[h] = at[h] + 1
    BY <1>0, <1>3 DEF SkipWallet
  <2>2. AsFound'
    BY <1>0, <1>3, <2>1 DEF SkipWallet
  <2>3. OneOrder'
    BY <1>0, <1>1, <1>3, <2>1 DEF SkipWallet
  <2> QED
    BY <2>2, <2>3
<1>4. CASE CollectWallet(h)
  <2>1. mempool' = mempool /\ at[h] \in Wallets /\ pc'[h] = "wallets" /\ at'[h] = at[h] + 1
    BY <1>0, <1>4 DEF CollectWallet
  <2>2. AsFound'
    BY <1>0, <1>4, <2>1 DEF CollectWallet
  <2>3. OneOrder'
    BY <1>0, <1>1, <1>4, <2>1 DEF CollectWallet
  <2> QED
    BY <2>2, <2>3
<1>5. CASE StartStep(h)
  BY <1>0, <1>1, <1>5 DEF StartStep
<1>6. CASE CheckWhitelisted(h)
  <2>1. mempool' = mempool /\ at[h] \in Wallets /\ pc'[h] = "wallets" /\ at'[h] = at[h] + 1
    BY <1>0, <1>6 DEF CheckWhitelisted
  <2>2. AsFound'
    BY <1>0, <1>6, <2>1 DEF CheckWhitelisted
  <2>3. OneOrder'
    BY <1>0, <1>1, <1>6, <2>1 DEF CheckWhitelisted
  <2> QED
    BY <2>2, <2>3
<1>7. CASE RaiseOrder(h)
  BY <1>0, <1>1, <1>7 DEF RaiseOrder, SendTx, Fail
<1>8. CASE OrderRaised(h)
  <2>1. mempool' = mempool /\ at[h] \in Wallets /\ pc'[h] = "wallets" /\ at'[h] = at[h] + 1
    BY <1>0, <1>8 DEF OrderRaised, NoSend
  <2>2. AsFound'
    BY <1>0, <1>8, <2>1 DEF OrderRaised, NoSend
  <2>3. OneOrder'
    BY <1>0, <1>1, <1>8, <2>1 DEF OrderRaised, NoSend
  <2> QED
    BY <2>2, <2>3
<1>9. CASE CheckPoStatus(h)
  <2>1. mempool' = mempool /\ at[h] \in Wallets /\ pc'[h] = "wallets" /\ at'[h] = at[h] + 1
    BY <1>0, <1>9 DEF CheckPoStatus, Completes
  <2>2. AsFound'
    BY <1>0, <1>9, <2>1 DEF CheckPoStatus, Completes
  <2>3. OneOrder'
    BY <1>0, <1>1, <1>9, <2>1 DEF CheckPoStatus, Completes
  <2> QED
    BY <2>2, <2>3
<1>10. CASE WhitelistAddresses(h)
  BY <1>0, <1>1, <1>10 DEF WhitelistAddresses, SendTx, NoSend, Fail
<1>11. CASE ListOrders(h)
  BY <1>0, <1>1, <1>11 DEF ListOrders, Raised
<1>12. CASE AcceptOrders(h)
  BY <1>0, <1>1, <1>12 DEF AcceptOrders, SendTx, NoSend, Fail
<1>13. CASE SkipSigner(h)
  BY <1>0, <1>1, <1>13 DEF SkipSigner
<1>14. CASE SignersDone(h)
  BY <1>0, <1>1, <1>14 DEF SignersDone
<1>15. CASE SkipOwner(h)
  BY <1>0, <1>1, <1>15 DEF SkipOwner, Registering
<1>16. CASE StartRegister(h)
  BY <1>0, <1>1, <1>16 DEF StartRegister, Registering
<1>17. CASE CanRegister(h)
  BY <1>0, <1>1, <1>17 DEF CanRegister
<1>18. CASE Register(h)
  BY <1>0, <1>1, <1>18 DEF Register, SendTx, Fail
<1>19. CASE RegTxSent(h)
  BY <1>0, <1>1, <1>19 DEF RegTxSent, NoSend
<1>20. CASE AskId(h)
  BY <1>0, <1>1, <1>20 DEF AskId
<1>21. CASE AnswerId(h)
  BY <1>0, <1>1, <1>21 DEF AnswerId
<1>22. CASE SetId(h)
  BY <1>0, <1>1, <1>22 DEF SetId
<1>23. CASE Record(h)
  BY <1>0, <1>1, <1>23 DEF Record, Registering, SendTx, NoSend, Fail
<1>24. CASE OwnersDone(h)
  BY <1>0, <1>1, <1>24 DEF OwnersDone
<1>25. CASE Abort(h)
  BY <1>0, <1>1, <1>25 DEF Abort, Fail
<1> QED
  BY <1>2, <1>3, <1>4, <1>5, <1>6, <1>7, <1>8, <1>9, <1>10, <1>11, <1>12, <1>13, <1>14,
     <1>15, <1>16, <1>17, <1>18, <1>19, <1>20, <1>21, <1>22, <1>23, <1>24, <1>25 DEF
     Handler

\* An order arrives, is accepted, is completed: it stays the owner's, and the only one.
LEMMA ChainOneOrder ==
  ASSUME TypeInv, OrderInv, NEW tx, NEW o,
         (tx \in mempool /\ Execute(tx)) \/ CompleteOrder(o) \/ Upgrade \/ UNCHANGED vars
  PROVE  OrderInv'
<1>1. /\ UNCHANGED <<eFundStatus, pc, at, whitelistWallets>>
      /\ mempool' \subseteq mempool
  BY DEF Execute, CompleteOrder, Upgrade, vars, walletVars, localVars
<1>2. orders \in Seq(Order)
  BY DEF TypeInv, PurchaseInv, Shapes
<1>3. ASSUME \A w \in Wallets : OrdersOf(w)' = OrdersOf(w)
      PROVE  OrderInv'
  BY <1>1, <1>3 DEF OrderInv, OneOrder, AsFound, Raising, RaisesOf, AtMostOne
<1>4. CASE tx \in mempool /\ Execute(tx) /\ tx.kind = "raise" /\ tx.who \in whitelisted
  <2> DEFINE new == [purchaser |-> tx.who, accepts |-> {}, state |-> "RAISED"]
             n == Len(orders) + 1
  <2>1. orders' = Append(orders, new) /\ new.purchaser = tx.who /\ mempool' = mempool \ {tx}
    BY <1>4 DEF Execute
  <2> HIDE DEF new
  <2>2. /\ DOMAIN orders' = DOMAIN orders \cup {n} /\ n \notin DOMAIN orders
        /\ orders'[n] = new /\ \A k \in DOMAIN orders : orders'[k] = orders[k]
    BY <1>2, <2>1
  <2> HIDE DEF n
  <2>3. ASSUME NEW w \in Wallets, w # tx.who
        PROVE  OrdersOf(w)' = OrdersOf(w) /\ RaisesOf(w)' = RaisesOf(w)
    BY <2>1, <2>2, <2>3 DEF OrdersOf, RaisesOf
  <2>4. ASSUME tx.who \in Wallets
        PROVE  /\ tx \in RaisesOf(tx.who) /\ OrdersOf(tx.who) = {}
               /\ OrdersOf(tx.who)' = {n} /\ RaisesOf(tx.who)' = {}
    <3>1. tx \in RaisesOf(tx.who)
      BY <1>4 DEF RaisesOf
    <3>2. OrdersOf(tx.who) = {} /\ AtMostOne(RaisesOf(tx.who))
      BY <2>4, <3>1 DEF OrderInv, OneOrder
    <3>3. OrdersOf(tx.who)' = {n}
      BY <2>1, <2>2, <3>2 DEF OrdersOf
    <3>4. RaisesOf(tx.who)' = {}
      BY <2>1, <3>1, <3>2 DEF RaisesOf, AtMostOne
    <3> QED
      BY <3>1, <3>2, <3>3, <3>4
  <2>5. AsFound'
    BY <1>1 DEF OrderInv, AsFound
  <2>6. OneOrder'
    BY <1>1, <2>3, <2>4 DEF OrderInv, OneOrder, Raising, AtMostOne
  <2> QED
    BY <2>5, <2>6 DEF OrderInv
<1>5. CASE Execute(tx) /\ ~(tx.kind = "raise" /\ tx.who \in whitelisted)
  <2>1. /\ DOMAIN orders' = DOMAIN orders
        /\ \A k \in DOMAIN orders : orders'[k].purchaser = orders[k].purchaser
    <3>1. CASE tx.kind = "accept" /\ \A k \in tx.ids : /\ orders[k].state = "RAISED"
                                                       /\ tx.who \notin orders[k].accepts
      <4>1. orders' = [k \in DOMAIN orders |->
                         IF k \in tx.ids
                         THEN [orders[k] EXCEPT
                                 !.accepts = @ \cup {tx.who},
                                 !.state = IF Cardinality(orders[k].accepts) + 1 >= Threshold
                                           THEN "ACCEPTED" ELSE @]
                         ELSE orders[k]]
        BY <1>5, <3>1 DEF Execute
      <4>2. \A k \in DOMAIN orders : orders[k] \in Order
        BY <1>2
      <4> QED
        BY <4>1, <4>2 DEF Order
    <3>2. CASE orders' = orders
      BY <3>2
    <3> QED
      BY <1>5, <3>1, <3>2 DEF Execute
  <2> QED
    BY <1>3, <2>1 DEF OrdersOf
<1>6. CASE CompleteOrder(o)
  <2>1. orders' = [orders EXCEPT ![o].state = "COMPLETED"] /\ o \in DOMAIN orders
    BY <1>6 DEF CompleteOrder
  <2>2. \A k \in DOMAIN orders : orders[k] \in Order
    BY <1>2
  <2>3. /\ DOMAIN orders' = DOMAIN orders
        /\ \A k \in DOMAIN orders : orders'[k].purchaser = orders[k].purchaser
    BY <2>1, <2>2 DEF Order
  <2> QED
    BY <1>3, <2>3 DEF OrdersOf
<1>7. CASE Upgrade \/ UNCHANGED vars
  BY <1>3, <1>7 DEF Upgrade, vars, chainVars, OrdersOf
<1> QED
  BY <1>4, <1>5, <1>6, <1>7

\* What is alike is counted once.
LEMMA AtMostOneCounts ==
  ASSUME NEW S, AtMostOne(S)
  PROVE  Cardinality(S) \in {0, 1} /\ (S = {} => Cardinality(S) = 0)
<1>1. S = {} \/ \E x : S = {x}
  BY DEF AtMostOne
<1> QED
  BY <1>1, FS_EmptySet, FS_Singleton

\* Without overlap an owner raises one purchase order, whatever fails: the status has moved on
\* before the next block looks at it (purchaseEfund).
THEOREM SerialOneOrderEach == ASSUME NEW h, Handlers = {h} PROVE Spec => []OneOrderEach
<1>1. Init => OrderInv
  BY DEF Init, OrderInv, OneOrder, AsFound, OrdersOf, RaisesOf, AtMostOne
<1>2. TypeInv /\ OrderInv /\ [Next]_vars => OrderInv'
  <2> SUFFICES ASSUME TypeInv, OrderInv, [Next]_vars PROVE OrderInv'
    OBVIOUS
  <2>1. CASE \E g \in Handlers : Handler(g) \/ Abort(g)
    BY <2>1, HandlerOneOrder
  <2>2. CASE (\E tx \in mempool : Execute(tx)) \/ (\E o \in 1 .. MaxOrders : CompleteOrder(o))
    BY <2>2, ChainOneOrder
  <2>3. CASE Upgrade \/ UNCHANGED vars
    BY <2>3, ChainOneOrder
  <2> QED
    BY <2>1, <2>2, <2>3 DEF Next
<1>3. OrderInv => OneOrderEach
  <2> SUFFICES ASSUME OrderInv, NEW w \in Wallets
               PROVE  Cardinality(OrdersOf(w)) + Cardinality(RaisesOf(w)) <= 1
    BY DEF OneOrderEach, OrdersOf, RaisesOf
  <2> QED
    BY AtMostOneCounts DEF OrderInv, OneOrder
<1> QED
  BY <1>1, <1>2, <1>3, TypeInvInit, TypeInvNext, PTL DEF Spec

---------------------------------------------------------------------------
(* One handler at a time: an owner registers once. *)

RegistersOf(w) == {tx \in mempool : tx.kind = "register" /\ tx.who = w}

\* There is at most one registration of an owner, on chain or on its way; and none before
\* the wallet has come to send it.
Registered(w) == \E h \in Handlers : pc[h] = "registered" /\ at[h] = w
RegistrationInv ==
  /\ registrations \in [Wallets -> {0, 1}]
  /\ \A w \in Wallets :
       /\ AtMostOne(RegistersOf(w))
       /\ registrations[w] = 0 \/ RegistersOf(w) = {}
       /\ ~regTxSent[w] /\ ~Registered(w) => registrations[w] = 0 /\ RegistersOf(w) = {}
  /\ \A h \in Handlers :
       pc[h] \in {"canRegister", "register", "registered"} => ~regTxSent[at[h]]

\* Only its own registration, noted before the handler goes on, adds to an owner's.
LEMMA HandlerOneRegistration ==
  ASSUME TypeInv, RegistrationInv, NEW h, Handlers = {h}, Handler(h) \/ Abort(h)
  PROVE  RegistrationInv'
<1>1. /\ pc \in [Handlers -> PcStates] /\ DOMAIN at = Handlers
      /\ regTxSent \in [Wallets -> BOOLEAN]
      /\ pc[h] \in {"canRegister", "register", "registered"} => at[h] \in Wallets
  BY DEF TypeInv, Places, AtWallet, Values
<1>2. registrations' = registrations
  BY DEF Handler, chainVars, NewBlock, SkipWallet, CollectWallet, StartStep, CheckWhitelisted, RaiseOrder,
         OrderRaised, CheckPoStatus, WhitelistAddresses, ListOrders,
         AcceptOrders, SkipSigner, SignersDone, SkipOwner, StartRegister,
         CanRegister, Register, RegTxSent, AskId, AnswerId, SetId, Record,
         OwnersDone, Abort
<1> USE DEF RegistrationInv, Registered, RegistersOf, AtMostOne, Step, Move, walletVars,
            localVars, chainVars
<1>3. CASE NewBlock(h)
  BY <1>1, <1>2, <1>3 DEF NewBlock
<1>4. CASE SkipWallet(h)
  BY <1>1, <1>2, <1>4 DEF SkipWallet
<1>5. CASE CollectWallet(h)
  BY <1>1, <1>2, <1>5 DEF CollectWallet
<1>6. CASE StartStep(h)
  BY <1>1, <1>2, <1>6 DEF StartStep
<1>7. CASE CheckWhitelisted(h)
  BY <1>1, <1>2, <1>7 DEF CheckWhitelisted
<1>8. CASE RaiseOrder(h)
  BY <1>1, <1>2, <1>8 DEF RaiseOrder, SendTx, Fail
<1>9. CASE OrderRaised(h)
  BY <1>1, <1>2, <1>9 DEF OrderRaised, NoSend
<1>10. CASE CheckPoStatus(h)
  BY <1>1, <1>2, <1>10 DEF CheckPoStatus
<1>11. CASE WhitelistAddresses(h)
  BY <1>1, <1>2, <1>11 DEF WhitelistAddresses, SendTx, NoSend, Fail
<1>12. CASE ListOrders(h)
  BY <1>1, <1>2, <1>12 DEF ListOrders
<1>13. CASE AcceptOrders(h)
  BY <1>1, <1>2, <1>13 DEF AcceptOrders, SendTx, NoSend, Fail
<1>14. CASE SkipSigner(h)
  BY <1>1, <1>2, <1>14 DEF SkipSigner
<1>15. CASE SignersDone(h)
  BY <1>1, <1>2, <1>15 DEF SignersDone
<1>16. CASE SkipOwner(h)
  BY <1>1, <1>2, <1>16 DEF SkipOwner, Registering
<1>17. CASE StartRegister(h)
  BY <1>1, <1>2, <1>17 DEF StartRegister, Registering
<1>18. CASE CanRegister(h)
  BY <1>1, <1>2, <1>18 DEF CanRegister
<1>19. CASE Register(h)
  BY <1>1, <1>2, <1>19 DEF Register, SendTx, Fail
<1>20. CASE RegTxSent(h)
  BY <1>1, <1>2, <1>20 DEF RegTxSent, NoSend
<1>21. CASE AskId(h)
  BY <1>1, <1>2, <1>21 DEF AskId
<1>22. CASE AnswerId(h)
  BY <1>1, <1>2, <1>22 DEF AnswerId
<1>23. CASE SetId(h)
  BY <1>1, <1>2, <1>23 DEF SetId
<1>24. CASE Record(h)
  BY <1>1, <1>2, <1>24 DEF Record, Registering, SendTx, NoSend, Fail
<1>25. CASE OwnersDone(h)
  BY <1>1, <1>2, <1>25 DEF OwnersDone
<1>26. CASE Abort(h)
  BY <1>1, <1>2, <1>26 DEF Abort, Fail
<1> QED
  BY <1>3, <1>4, <1>5, <1>6, <1>7, <1>8, <1>9, <1>10, <1>11, <1>12, <1>13, <1>14, <1>15,
     <1>16, <1>17, <1>18, <1>19, <1>20, <1>21, <1>22, <1>23, <1>24, <1>25, <1>26 DEF
     Handler

\* Without overlap an owner registers once, though canRegister is asked an await before the
\* registration is sent, and the CLI does not ask.
THEOREM SerialOneRegistration == ASSUME NEW h, Handlers = {h} PROVE Spec => []OneRegistration
<1>1. Init => RegistrationInv
  BY DEF Init, RegistrationInv, RegistersOf, AtMostOne
<1>2. TypeInv /\ RegistrationInv /\ [Next]_vars => RegistrationInv'
  <2> SUFFICES ASSUME TypeInv, RegistrationInv, [Next]_vars PROVE RegistrationInv'
    OBVIOUS
  <2>1. CASE \E g \in Handlers : Handler(g) \/ Abort(g)
    BY <2>1, HandlerOneRegistration
  <2>2. ASSUME NEW tx \in mempool, Execute(tx)
        PROVE  RegistrationInv'
    <3>1. /\ UNCHANGED <<regTxSent, pc, at>> /\ mempool' = mempool \ {tx}
          /\ registrations' = IF tx.kind = "register"
                              THEN [registrations EXCEPT ![tx.who] = @ + 1] ELSE registrations
      BY <2>2 DEF Execute, walletVars
    <3>2. CASE tx.kind = "register"
      <4>1. ASSUME NEW w \in Wallets, w # tx.who
            PROVE  RegistersOf(w)' = RegistersOf(w) /\ registrations'[w] = registrations[w]
        BY <3>1, <3>2, <4>1 DEF RegistersOf, RegistrationInv
      <4>2. ASSUME tx.who \in Wallets
            PROVE  /\ tx \in RegistersOf(tx.who) /\ RegistersOf(tx.who)' = {}
                   /\ registrations[tx.who] = 0 /\ registrations'[tx.who] = 1
        <5>1. tx \in RegistersOf(tx.who)
          BY <3>2 DEF RegistersOf
        <5>2. registrations[tx.who] = 0 /\ AtMostOne(RegistersOf(tx.who))
          BY <4>2, <5>1 DEF RegistrationInv
        <5>3. RegistersOf(tx.who)' = {}
          BY <3>1, <5>1, <5>2 DEF RegistersOf, AtMostOne
        <5>4. registrations'[tx.who] = 1
          BY <3>1, <3>2, <4>2, <5>2 DEF RegistrationInv
        <5> QED
          BY <5>1, <5>2, <5>3, <5>4
      <4>3. registrations' \in [Wallets -> {0, 1}]
        BY <3>1, <3>2, <4>1, <4>2 DEF RegistrationInv
      <4> QED
        BY <3>1, <4>1, <4>2, <4>3 DEF RegistrationInv, Registered, AtMostOne
    <3>3. CASE tx.kind # "register"
      <4>1. \A w \in Wallets : RegistersOf(w)' = RegistersOf(w)
        BY <3>1, <3>3 DEF RegistersOf
      <4> QED
        BY <3>1, <3>3, <4>1 DEF RegistrationInv, Registered, AtMostOne
    <3> QED
      BY <3>2, <3>3
  <2>3. CASE (\E o \in 1 .. MaxOrders : CompleteOrder(o)) \/ Upgrade \/ UNCHANGED vars
    BY <2>3 DEF CompleteOrder, Upgrade, vars, walletVars, chainVars, RegistrationInv, Registered,
                RegistersOf, AtMostOne
  <2> QED
    BY <2>1, <2>2, <2>3 DEF Next
<1>3. RegistrationInv => OneRegistration
  <2> SUFFICES ASSUME RegistrationInv, NEW w \in Wallets
               PROVE  registrations[w] + Cardinality(RegistersOf(w)) <= 1
    BY DEF OneRegistration, RegistersOf
  <2> QED
    BY AtMostOneCounts DEF RegistrationInv
<1> QED
  BY <1>1, <1>2, <1>3, TypeInvInit, TypeInvNext, PTL DEF Spec
=============================================================================
