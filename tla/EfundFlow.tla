----------------------------- MODULE EfundFlow -----------------------------
(***************************************************************************)
(* How BEACON and WrkChain owners get their enterprise FUND and spend it:  *)
(* whitelisting, purchase order, acceptance by the enterprise signers,     *)
(* registration, records (tx_runner: modules/enterprise.mjs, beacon.mjs,   *)
(* wrkchain.mjs, driven from every block by runner/actions.mjs).           *)
(*                                                                         *)
(* A handler is one block's run of #eFundActions, #beaconActions and       *)
(* #wrkChainActions.  Block handlers are not serialised, so several may be *)
(* at different awaits of this code at once; each action is the code from  *)
(* one await to the next.  The enterprise, beacon and wrkchain modules of  *)
(* the chain are external, modelled by what the runner asks of them.       *)
(*                                                                         *)
(* Whether a wallet's pendingTxs is empty is a free choice here: TxQueue   *)
(* is the model of that queue.                                             *)
(***************************************************************************)
EXTENDS Integers, Sequences, FiniteSets

CONSTANTS
  NumWallets,    \* the owners in the order of #wallets.byType: BEACONs, then WrkChains
  LateWallets,   \* owners whose eFundActionFromBlock is the upgrade height
  WrkChains,     \* owners that register a WrkChain rather than a BEACON
  EarlyUpgrade,  \* the upgrade height is not above that of the first block owners act on
  NumSigners,    \* the enterprise wallets, in order
  Threshold,     \* acceptances an order needs
  Handlers,      \* block handlers that may be in progress at once
  Failures,      \* what may fail: "sendTx", "query"
  MaxOrders,     \* bound: purchase orders raised
  MaxFailures    \* bound: how often something fails

Wallets == 1 .. NumWallets
Signers == 1 .. NumSigners

ASSUME EfundAssumption ==
  /\ {NumWallets, NumSigners, MaxOrders, MaxFailures} \subseteq Nat
  /\ LateWallets \subseteq Wallets /\ WrkChains \subseteq Wallets
  /\ \A w \in WrkChains, v \in Wallets \ WrkChains : v < w
  /\ EarlyUpgrade \in BOOLEAN
  /\ Failures \subseteq {"sendTx", "query"}
  /\ Threshold \in Signers

VARIABLES
  eFundStatus,   \* Wallet.#eFundStatus, an EFUND_ACTION_STEP
  eFundPoId,     \* Wallet.#eFundPoId
  regTxSent,     \* Wallet.#beaconOrWrkChainRegTxSent
  regId,         \* Wallet.#beaconOrWrkChainId (as: is it known)
  pc, at,        \* each handler's await, and the wallet or signer it is at
  whitelistWallets,  \* runActions' list of wallets to whitelist
  pos,           \* the raised purchase orders a handler read
  asked,         \* what a handler's query is about, or what it answered
  sawUpgrade,    \* whether the height passed to runActions was past the upgrade
  mempool,       \* txs broadcast, not yet in a block
  whitelisted, orders, locked, registrations, recorded,  \* the chain's modules
  upgraded,      \* the upgrade height is reached
  failures       \* sendTx calls that failed so far

walletVars == <<eFundStatus, eFundPoId, regTxSent, regId>>
localVars  == <<whitelistWallets, pos, asked, sawUpgrade>>
chainVars  == <<whitelisted, orders, locked, registrations, recorded>>
vars == <<walletVars, pc, at, localVars, mempool, chainVars, upgraded, failures>>

---------------------------------------------------------------------------

\* EFUND_ACTION_STEP
NOT_WHITELISTED   == 0
WHITELIST_TX_SENT == 1
WHITELISTED       == 2
PO_TX_SENT        == 3
PO_PROCESSING     == 4
PO_COMPLETE       == 5

PcStates == {"idle", "wallets", "askWhitelisted", "raised", "askOrder", "listOrders",
             "signers", "owners", "canRegister", "register", "registered", "askId",
             "answeredId"}

TxKinds == {"whitelist", "raise", "accept", "register", "record"}

Init ==
  /\ eFundStatus = [w \in Wallets |-> NOT_WHITELISTED]
  /\ eFundPoId = [w \in Wallets |-> 0]
  /\ regTxSent = [w \in Wallets |-> FALSE]
  /\ regId = [w \in Wallets |-> FALSE]
  /\ pc = [h \in Handlers |-> "idle"]
  /\ at = [h \in Handlers |-> 1]
  /\ whitelistWallets = [h \in Handlers |-> {}]
  /\ pos = [h \in Handlers |-> {}]
  /\ asked = [h \in Handlers |-> 0]
  /\ sawUpgrade = [h \in Handlers |-> FALSE]
  /\ mempool = {}
  /\ whitelisted = {}
  /\ orders = <<>>
  /\ locked = {}
  /\ registrations = [w \in Wallets |-> 0]
  /\ recorded = {}
  /\ upgraded = EarlyUpgrade
  /\ failures = 0

\* Handler h, at `from`, goes on to `to` without moving to another wallet.
Step(h, from, to) ==
  /\ pc[h] = from
  /\ pc' = [pc EXCEPT ![h] = to]
  /\ UNCHANGED at

\* ... to the loop `to`, at its position n.
Move(h, from, to, n) ==
  /\ pc[h] = from
  /\ pc' = [pc EXCEPT ![h] = to]
  /\ at' = [at EXCEPT ![h] = n]

Fail(what) ==
  /\ what \in Failures
  /\ failures < MaxFailures
  /\ failures' = failures + 1

\* sendTx: the tx reaches the mempool, or the call fails; the caller cannot tell.
SendTx(tx) ==
  \/ mempool' = mempool \cup {tx} /\ UNCHANGED failures
  \/ Fail("sendTx") /\ UNCHANGED mempool

NoSend == UNCHANGED <<mempool, failures>>

---------------------------------------------------------------------------
(* Enterprise.runActions: the loop over the owners. *)

\* A new block starts a handler at its first owner.
NewBlock(h) ==
  /\ Move(h, "idle", "wallets", 1)
  /\ whitelistWallets' = [whitelistWallets EXCEPT ![h] = {}]
  /\ sawUpgrade' = [sawUpgrade EXCEPT ![h] = upgraded]
  /\ UNCHANGED <<walletVars, pos, asked, mempool, chainVars, upgraded, failures>>

\* A query rejects, and the handler ends there; only checkWhitelistedWalletStatus catches.
Abort(h) ==
  /\ Fail("query")
  /\ \E from \in {"askOrder", "listOrders", "owners", "canRegister", "askId"} :
       Move(h, from, "idle", 1)
  /\ whitelistWallets' = [whitelistWallets EXCEPT ![h] = {}]
  /\ pos' = [pos EXCEPT ![h] = {}]
  /\ asked' = [asked EXCEPT ![h] = 0]
  /\ UNCHANGED <<walletVars, sawUpgrade, mempool, chainVars, upgraded>>

\* The owner's turn is still to come: half of them start at the upgrade height.
Waiting(h, w) == w \in LateWallets /\ ~sawUpgrade[h]

\* Nothing to do for this owner: too early, order being processed, done, or a purchase
\* held back by a tx still pending.
SkipWallet(h) ==
  /\ at[h] \in Wallets
  /\ \/ Waiting(h, at[h])
     \/ eFundStatus[at[h]] \in {WHITELISTED, PO_TX_SENT, PO_COMPLETE}
  /\ Move(h, "wallets", "wallets", at[h] + 1)
  /\ UNCHANGED <<walletVars, localVars, mempool, chainVars, upgraded, failures>>

CollectWallet(h) ==
  /\ at[h] \in Wallets
  /\ ~Waiting(h, at[h])
  /\ eFundStatus[at[h]] = NOT_WHITELISTED
  /\ whitelistWallets' = [whitelistWallets EXCEPT ![h] = @ \cup {at[h]}]
  /\ Move(h, "wallets", "wallets", at[h] + 1)
  /\ UNCHANGED <<walletVars, pos, asked, sawUpgrade, mempool, chainVars, upgraded, failures>>

\* The other statuses each await something first.
StartStep(h) ==
  /\ at[h] \in Wallets
  /\ ~Waiting(h, at[h])
  /\ \/ /\ eFundStatus[at[h]] = WHITELIST_TX_SENT
        /\ Step(h, "wallets", "askWhitelisted")
        /\ UNCHANGED asked
     \/ /\ eFundStatus[at[h]] = PO_PROCESSING
        /\ Step(h, "wallets", "askOrder")
        /\ asked' = [asked EXCEPT ![h] = eFundPoId[at[h]]]
  /\ UNCHANGED <<walletVars, whitelistWallets, pos, sawUpgrade, mempool, chainVars, upgraded,
                 failures>>

\* checkWhitelistedWalletStatus(), when the node has answered (or failed to).
CheckWhitelisted(h) ==
  /\ Move(h, "askWhitelisted", "wallets", at[h] + 1)
  /\ IF at[h] \in whitelisted
     THEN eFundStatus' = [eFundStatus EXCEPT ![at[h]] = WHITELISTED]
     ELSE UNCHANGED eFundStatus
  /\ UNCHANGED <<eFundPoId, regTxSent, regId, localVars, mempool, chainVars, upgraded,
                 failures>>

\* purchaseEfund() up to the end of its sendTx ...
RaiseOrder(h) ==
  /\ at[h] \in Wallets
  /\ ~Waiting(h, at[h])
  /\ eFundStatus[at[h]] = WHITELISTED
  /\ Len(orders) + Cardinality({tx \in mempool : tx.kind = "raise"}) < MaxOrders
  /\ Step(h, "wallets", "raised")
  /\ SendTx([kind |-> "raise", who |-> at[h], by |-> h])
  /\ UNCHANGED <<walletVars, localVars, chainVars, upgraded>>

\* Mutant: the status stays at WHITELISTED.
OrderRaisedUnmarked(h) ==
  /\ Move(h, "raised", "wallets", at[h] + 1)
  /\ NoSend
  /\ UNCHANGED <<walletVars, localVars, chainVars, upgraded>>

\* ... and the rest, which runs whatever became of the tx: sendTx never throws.
OrderRaised(h) ==
  /\ Move(h, "raised", "wallets", at[h] + 1)
  /\ eFundStatus' = [eFundStatus EXCEPT ![at[h]] = PO_TX_SENT]
  /\ NoSend
  /\ UNCHANGED <<eFundPoId, regTxSent, regId, localVars, chainVars, upgraded>>

\* Mutants: an accepted order is taken for a completed one; a completed one is missed.
CompletesEarly(state) == state \in {"ACCEPTED", "COMPLETED"}
CompletesNever(state) == FALSE

\* The answer that completes the wallet's purchase.
Completes(state) == state = "COMPLETED"

\* checkPoStatus(): about the order that was asked for, whichever the wallet's is by now.
CheckPoStatus(h) ==
  /\ Move(h, "askOrder", "wallets", at[h] + 1)
  /\ IF Completes(orders[asked[h]].state)
     THEN eFundStatus' = [eFundStatus EXCEPT ![at[h]] = PO_COMPLETE]
     ELSE UNCHANGED eFundStatus
  /\ asked' = [asked EXCEPT ![h] = 0]
  /\ UNCHANGED <<eFundPoId, regTxSent, regId, whitelistWallets, pos, sawUpgrade, mempool,
                 chainVars, upgraded, failures>>

---------------------------------------------------------------------------
(* Enterprise.runActions: whitelistAddresses and processEfundPos. *)

\* The loop is over: whitelist what it collected, the statuses first.
WhitelistAddresses(h) ==
  LET ws == whitelistWallets[h]
  IN  /\ at[h] > NumWallets
      /\ Move(h, "wallets", "listOrders", 1)
      /\ eFundStatus' = [w \in Wallets |-> IF w \in ws THEN WHITELIST_TX_SENT
                                                       ELSE eFundStatus[w]]
      /\ IF ws = {} THEN NoSend
         ELSE SendTx([kind |-> "whitelist", who |-> ws, by |-> h])
      /\ UNCHANGED <<eFundPoId, regTxSent, regId, localVars, chainVars, upgraded>>

Raised == {o \in DOMAIN orders : orders[o].state = "RAISED"}

\* The answer to the query for raised orders.
ListOrders(h) ==
  /\ Move(h, "listOrders", "signers", 1)
  /\ pos' = [pos EXCEPT ![h] = Raised]
  /\ UNCHANGED <<walletVars, whitelistWallets, asked, sawUpgrade, mempool, chainVars, upgraded,
                 failures>>

\* Mutant: the order's id is not noted.
PoIdKept(ids, old) == old

\* A purchaser's order id after the loop over the orders: its last one.
PoId(ids, old) ==
  IF ids # {} THEN CHOOSE o \in ids : \A p \in ids : p <= o ELSE old

\* One enterprise wallet accepts every order of the list in one tx; the purchasers are
\* marked before it is sent.  Simulating the tx fails if one of its messages would.
AcceptOrders(h) ==
  LET ids == pos[h]
      signer == at[h]
      purchaser(w) == {o \in ids : orders[o].purchaser = w}
      acceptable == \A o \in ids : orders[o].state = "RAISED" /\ signer \notin orders[o].accepts
  IN  /\ signer \in Signers
      /\ ids # {}
      /\ Move(h, "signers", "signers", signer + 1)
      /\ eFundStatus' = [w \in Wallets |-> IF purchaser(w) # {} THEN PO_PROCESSING
                                                                ELSE eFundStatus[w]]
      /\ eFundPoId' = [w \in Wallets |-> PoId(purchaser(w), eFundPoId[w])]
      /\ IF acceptable THEN SendTx([kind |-> "accept", who |-> signer, ids |-> ids])
                       ELSE NoSend
      /\ UNCHANGED <<regTxSent, regId, localVars, chainVars, upgraded>>

\* An enterprise wallet with a pending tx sits this block out.
SkipSigner(h) ==
  /\ at[h] \in Signers
  /\ pos[h] # {}
  /\ Move(h, "signers", "signers", at[h] + 1)
  /\ UNCHANGED <<walletVars, localVars, mempool, chainVars, upgraded, failures>>

SignersDone(h) ==
  /\ at[h] > NumSigners \/ pos[h] = {}
  /\ Move(h, "signers", "owners", 1)
  /\ UNCHANGED <<walletVars, localVars, mempool, chainVars, upgraded, failures>>

---------------------------------------------------------------------------
(* Beacon.runActions and WrkChain.runActions: the loop over the owners. *)

Registering(w) == ~regTxSent[w] /\ eFundStatus[w] = PO_COMPLETE

\* A WrkChain registers through the CLI from the upgrade height on; the height was passed
\* to WrkChain.runActions at some time between the handler's start and now.
UsesCli(h, w) == {(w \in WrkChains) /\ seen : seen \in {sawUpgrade[h], upgraded}}

\* An owner that is not ready to register, or whose registration is held back by a
\* pending tx, is passed over.
SkipOwner(h) ==
  /\ at[h] \in Wallets
  /\ \/ Registering(at[h]) /\ FALSE \in UsesCli(h, at[h])
     \/ ~Registering(at[h]) /\ ~regTxSent[at[h]] /\ ~regId[at[h]]
  /\ Move(h, "owners", "owners", at[h] + 1)
  /\ UNCHANGED <<walletVars, localVars, mempool, chainVars, upgraded, failures>>

\* register() asks the chain first; registerUsingCli() does not.
StartRegister(h) ==
  /\ at[h] \in Wallets
  /\ Registering(at[h])
  /\ \E cli \in UsesCli(h, at[h]) :
       Step(h, "owners", IF cli THEN "register" ELSE "canRegister")
  /\ UNCHANGED <<walletVars, localVars, mempool, chainVars, upgraded, failures>>

\* canRegister(): eFUND is locked for the owner and nothing is registered yet.
CanRegister(h) ==
  /\ IF at[h] \in locked /\ registrations[at[h]] = 0
     THEN Step(h, "canRegister", "register")
     ELSE Move(h, "canRegister", "owners", at[h] + 1)
  /\ UNCHANGED <<walletVars, localVars, mempool, chainVars, upgraded, failures>>

Register(h) ==
  /\ Step(h, "register", "registered")
  /\ SendTx([kind |-> "register", who |-> at[h], by |-> h])
  /\ UNCHANGED <<walletVars, localVars, chainVars, upgraded>>

\* Mutant: the registration is not noted.
RegTxSentNot(h) ==
  /\ Move(h, "registered", "owners", at[h] + 1)
  /\ NoSend
  /\ UNCHANGED <<walletVars, localVars, chainVars, upgraded>>

\* ... and the flag, whatever became of the tx.
RegTxSent(h) ==
  /\ Move(h, "registered", "owners", at[h] + 1)
  /\ regTxSent' = [regTxSent EXCEPT ![at[h]] = TRUE]
  /\ NoSend
  /\ UNCHANGED <<eFundStatus, eFundPoId, regId, localVars, chainVars, upgraded>>

\* getAndSetIdForWallet(): the query, the node's answer, and the id (0 while unknown).
AskId(h) ==
  /\ at[h] \in Wallets
  /\ regTxSent[at[h]] /\ ~regId[at[h]]
  /\ Step(h, "owners", "askId")
  /\ UNCHANGED <<walletVars, localVars, mempool, chainVars, upgraded, failures>>

AnswerId(h) ==
  /\ Step(h, "askId", "answeredId")
  /\ asked' = [asked EXCEPT ![h] = IF registrations[at[h]] > 0 THEN 1 ELSE 0]
  /\ UNCHANGED <<walletVars, whitelistWallets, pos, sawUpgrade, mempool, chainVars, upgraded,
                 failures>>

SetId(h) ==
  /\ Move(h, "answeredId", "owners", at[h] + 1)
  /\ regId' = [regId EXCEPT ![at[h]] = asked[h] > 0]
  /\ asked' = [asked EXCEPT ![h] = 0]
  /\ UNCHANGED <<eFundStatus, eFundPoId, regTxSent, whitelistWallets, pos, sawUpgrade, mempool,
                 chainVars, upgraded, failures>>

\* recordTimestamp(), recordBlock(): every block; of the records that follow the first
\* one on chain nothing more is kept.
Record(h) ==
  /\ at[h] \in Wallets
  /\ ~Registering(at[h])
  /\ regId[at[h]]
  /\ Move(h, "owners", "owners", at[h] + 1)
  /\ IF at[h] \in recorded THEN NoSend ELSE SendTx([kind |-> "record", who |-> at[h]])
  /\ UNCHANGED <<walletVars, localVars, chainVars, upgraded>>

OwnersDone(h) ==
  /\ at[h] > NumWallets
  /\ Move(h, "owners", "idle", 1)
  /\ pos' = [pos EXCEPT ![h] = {}]
  /\ UNCHANGED <<walletVars, whitelistWallets, asked, sawUpgrade, mempool, chainVars, upgraded,
                 failures>>

---------------------------------------------------------------------------
(* The chain. *)

\* The effect of a tx in a block; a tx with a failing message has none.
Execute(tx) ==
  /\ mempool' = mempool \ {tx}
  /\ whitelisted' = whitelisted \cup (IF tx.kind = "whitelist" THEN tx.who ELSE {})
  /\ recorded' = recorded \cup (IF tx.kind = "record" THEN {tx.who} ELSE {})
  /\ registrations' = IF tx.kind = "register"
                      THEN [registrations EXCEPT ![tx.who] = @ + 1] ELSE registrations
  /\ orders' =
       CASE tx.kind = "raise" /\ tx.who \in whitelisted ->
              Append(orders, [purchaser |-> tx.who, accepts |-> {}, state |-> "RAISED"])
         [] tx.kind = "accept" /\ \A o \in tx.ids : /\ orders[o].state = "RAISED"
                                                    /\ tx.who \notin orders[o].accepts ->
              [o \in DOMAIN orders |->
                 IF o \in tx.ids
                 THEN [orders[o] EXCEPT
                         !.accepts = @ \cup {tx.who},
                         !.state = IF Cardinality(orders[o].accepts) + 1 >= Threshold
                                   THEN "ACCEPTED" ELSE @]
                 ELSE orders[o]]
         [] OTHER -> orders
  /\ UNCHANGED <<walletVars, pc, at, localVars, locked, upgraded, failures>>

\* An accepted order completes at a block's end: its eFUND is locked for the purchaser.
CompleteOrder(o) ==
  /\ o \in DOMAIN orders
  /\ orders[o].state = "ACCEPTED"
  /\ orders' = [orders EXCEPT ![o].state = "COMPLETED"]
  /\ locked' = locked \cup {orders[o].purchaser}
  /\ UNCHANGED <<walletVars, pc, at, localVars, mempool, whitelisted, registrations,
                 recorded, upgraded, failures>>

\* A newer block's handler has set #height to the upgrade height.
Upgrade ==
  /\ ~upgraded
  /\ upgraded' = TRUE
  /\ UNCHANGED <<walletVars, pc, at, localVars, mempool, chainVars, failures>>

---------------------------------------------------------------------------

Handler(h) ==
  \/ NewBlock(h) \/ SkipWallet(h) \/ CollectWallet(h) \/ StartStep(h)
  \/ CheckWhitelisted(h) \/ RaiseOrder(h) \/ OrderRaised(h) \/ CheckPoStatus(h)
  \/ WhitelistAddresses(h) \/ ListOrders(h) \/ AcceptOrders(h) \/ SkipSigner(h)
  \/ SignersDone(h) \/ SkipOwner(h) \/ StartRegister(h) \/ CanRegister(h)
  \/ Register(h) \/ RegTxSent(h) \/ AskId(h) \/ AnswerId(h) \/ SetId(h) \/ Record(h)
  \/ OwnersDone(h)

Next ==
  \/ \E h \in Handlers : Handler(h) \/ Abort(h)
  \/ \E tx \in mempool : Execute(tx)
  \/ \E o \in 1 .. MaxOrders : CompleteOrder(o)
  \/ Upgrade

Spec == Init /\ [][Next]_vars

\* Blocks keep coming, every await returns, the mempool drains, and a wallet finds its
\* queue empty again and again (TxQueue: KeepsSending).
FairSpec ==
  /\ Spec
  /\ \A h \in Handlers :
       /\ WF_vars(Handler(h))
       /\ \A n \in Wallets : /\ SF_vars(at[h] = n /\ RaiseOrder(h))
                             /\ SF_vars(at[h] = n /\ StartRegister(h))
       /\ \A n \in Signers : SF_vars(at[h] = n /\ AcceptOrders(h))
  /\ \A k \in TxKinds : WF_vars(\E tx \in mempool : tx.kind = k /\ Execute(tx))
  /\ \A o \in 1 .. MaxOrders : WF_vars(CompleteOrder(o))
  /\ WF_vars(Upgrade)

---------------------------------------------------------------------------
(* Properties *)

TypeOK ==
  /\ eFundStatus \in [Wallets -> NOT_WHITELISTED .. PO_COMPLETE]
  /\ eFundPoId \in [Wallets -> 0 .. MaxOrders]
  /\ regTxSent \in [Wallets -> BOOLEAN]
  /\ regId \in [Wallets -> BOOLEAN]
  /\ pc \in [Handlers -> PcStates]
  /\ at \in [Handlers -> 1 .. NumWallets + NumSigners + 1]
  /\ whitelistWallets \in [Handlers -> SUBSET Wallets]
  /\ pos \in [Handlers -> SUBSET (1 .. MaxOrders)]
  /\ asked \in [Handlers -> (0 .. MaxOrders) \cup {1}]
  /\ sawUpgrade \in [Handlers -> BOOLEAN]
  /\ locked \subseteq Wallets
  /\ failures \in 0 .. MaxFailures
  /\ \A w \in Wallets : eFundStatus[w] = PO_PROCESSING => eFundPoId[w] \in DOMAIN orders

\* An owner is taken to have its eFUND only when the chain has locked it, whatever stale
\* order list another handler is still working through (checkPoStatus, processEfundPos).
CompleteMeansLocked ==
  \A w \in Wallets : eFundStatus[w] = PO_COMPLETE => w \in locked

\* An owner raises one purchase order: the status moves on before the next block's run
\* looks at it (purchaseEfund).
OneOrderEach ==
  \A w \in Wallets :
    Cardinality({o \in DOMAIN orders : orders[o].purchaser = w})
      + Cardinality({tx \in mempool : tx.kind = "raise" /\ tx.who = w}) <= 1

\* An owner registers once (canRegister: "hasNum <= 0").
OneRegistration ==
  \A w \in Wallets :
    registrations[w] + Cardinality({tx \in mempool : tx.kind = "register" /\ tx.who = w}) <= 1

\* Every owner gets its eFUND, registers and records, on whichever side of the upgrade
\* it starts, although a signer's tx fails whole when one of its orders was already
\* decided (wallets.mjs: "purchase orders raised, accepted and spent").
EventuallyRecorded == <>(recorded = Wallets)
===========================================================================
