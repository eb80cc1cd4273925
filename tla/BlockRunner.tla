---------------------------- MODULE BlockRunner ----------------------------
(***************************************************************************)
(* What the tx_runner does on each FUND block, from genesis through the    *)
(* upgrade: the custom txs of config.json, the upgrade proposal, the       *)
(* validators' votes, and the message shapes that follow the binary        *)
(* (tx_runner: runner/actions.mjs, modules/gov.mjs; runner/blocks.mjs).    *)
(*                                                                         *)
(* Block events are handled without waiting for the handler of the block   *)
(* before, so several handlers may be at different awaits at once; they    *)
(* share one BlockActions, its #height included.  Each action is the code  *)
(* from one await to the next.                                             *)
(*                                                                         *)
(* The chain is external: a FIFO mempool, x/gov with a voting period       *)
(* counted in blocks and the validators holding all the stake, and the     *)
(* plan that makes the block at UpgradeHeight the first of the new binary. *)
(***************************************************************************)
EXTENDS Integers, Sequences, FiniteSets, Verify

CONSTANTS
  Handlers,       \* block handlers that may be in progress at once
  Validators,     \* the validator wallets
  Upgrade, Text,  \* what the two proposals of the runner's own are about
  CustomGov,      \* the txs.gov entries of config.json
  CustomMsgs,     \* the txs.msgs entries, all signed by one wallet
  SubmitHeight,   \* submit_height of each custom tx
  PassesYes,      \* the custom proposals with passes = "yes"
  MsgsLoaded,     \* loadCustomTxs() returned a `msgs` list
  UpgradeHeight,
  VotingBlocks,   \* the blocks of a voting period
  WarmUp,         \* the height up to which only validators act: 4 in the code
  Prompt,         \* a handler is done, and the mempool emptied, before the next block
  Faults,         \* the kinds of fault the environment may commit
  MaxFaults,      \* bound: how many faults a behaviour contains
  MaxProposals,   \* bound: proposals, from which no further text proposal is sent
  MaxLeft,        \* bound: txs a block leaves in the mempool
  MaxHeight       \* bound: heights from here on are not told apart

FaultKinds == {"query", "script", "answerLost", "rejected", "submit", "sendTx", "halt"}

Customs == CustomGov \cup CustomMsgs

ASSUME RunnerAssumption ==
  /\ {UpgradeHeight, VotingBlocks, WarmUp, MaxFaults, MaxProposals, MaxLeft, MaxHeight} \subseteq
       Nat
  /\ UpgradeHeight <= MaxHeight /\ 0 < MaxHeight
  /\ CustomGov \cap CustomMsgs = {} /\ Customs \cap {Upgrade, Text, "none"} = {}
  /\ {"wallet", "stream"} \cap Validators = {}
  /\ SubmitHeight \in [Customs -> Nat \ {0}] /\ PassesYes \subseteq CustomGov
  /\ MsgsLoaded \in BOOLEAN /\ Prompt \in BOOLEAN
  /\ Faults \subseteq FaultKinds

VARIABLES
  height,             \* BlockActions.#height, shared by the handlers
  proposalSubmitted,  \* BlockActions.#proposalSubmitted
  customDone,         \* BlockActions.#customDone, both kinds
  rejected,           \* history: the custom txs that the node answered with a rejection
  newShape,           \* PaymentStream.streamDenom and Beacon.beaconMetadata are set
  pc,                 \* the await each handler is at
  todo,               \* what is left of the list a handler's loop walks
  item,               \* the custom tx the handler's CLI call is about
  answer,             \* what the CLI call will return
  composed,           \* whether the message being sent has the new shape
  events,             \* NewBlock events not yet delivered
  chainHeight,        \* the last block
  mempool,            \* txs waiting, in order of arrival
  proposals,          \* the proposals on chain; their index is their id
  planned,            \* the upgrade plan is scheduled
  msgsRun,            \* history: the custom msgs executed, in order
  faults              \* faults so far

runnerVars == <<height, proposalSubmitted, customDone, rejected, newShape>>
localVars  == <<todo, item, answer, composed>>
chainVars  == <<events, chainHeight, proposals, planned, msgsRun>>
vars == <<runnerVars, pc, localVars, chainVars, mempool, faults>>

PcStates == {"idle", "checks", "gov", "govSent", "msgs", "msgSent", "validators",
             "submitted", "votes", "others", "compose", "send"}

None == "none"    \* no vote cast yet, no CLI call in progress

Fault(kind) ==
  /\ kind \in Faults
  /\ faults < MaxFaults
  /\ faults' = faults + 1

Goto(h, from, to) ==
  /\ pc[h] = from
  /\ pc' = [pc EXCEPT ![h] = to]

Init ==
  /\ height = 0
  /\ proposalSubmitted = FALSE
  /\ customDone = {}
  /\ rejected = {}
  /\ newShape = FALSE
  /\ pc = [h \in Handlers |-> "idle"]
  /\ todo = [h \in Handlers |-> {}]
  /\ item = [h \in Handlers |-> None]
  /\ answer = [h \in Handlers |-> None]
  /\ composed = [h \in Handlers |-> FALSE]
  /\ events = <<>>
  /\ chainHeight = 0
  /\ mempool = <<>>
  /\ proposals = <<>>
  /\ planned = FALSE
  /\ msgsRun = <<>>
  /\ faults = 0

---------------------------------------------------------------------------
(* Sending. *)

\* A wallet with a tx in the mempool has a committed sequence that CheckTx no longer wants.
Stale(wallets) == \E k \in DOMAIN mempool : mempool[k].by \cap wallets # {}

\* #inNode(): a CLI call for tx, which will return the answer.  The script may fail
\* before it broadcasts, or after.
Cli(h, tx) ==
  \/ /\ ~Stale(tx.by)
     /\ mempool' = Append(mempool, tx)
     /\ \/ answer' = [answer EXCEPT ![h] = "accepted"] /\ UNCHANGED faults
        \/ answer' = [answer EXCEPT ![h] = "null"] /\ Fault("answerLost")
  \/ /\ Stale(tx.by)
     /\ answer' = [answer EXCEPT ![h] = "stale"]
     /\ UNCHANGED <<mempool, faults>>
  \/ /\ Fault(IF tx.what = Upgrade THEN "submit" ELSE "script")
     /\ answer' = [answer EXCEPT ![h] = "null"]
     /\ UNCHANGED mempool
  \/ /\ tx.what # Upgrade
     /\ Fault("rejected")
     /\ answer' = [answer EXCEPT ![h] = "rejected"]
     /\ UNCHANGED mempool

\* sendTx(): the tx reaches the mempool, or the call fails; the caller cannot tell.
SendTx(tx) ==
  \/ mempool' = Append(mempool, tx) /\ UNCHANGED faults
  \/ Fault("sendTx") /\ UNCHANGED mempool

GovTx(v, what) == [kind |-> "proposal", what |-> what, by |-> {v}]
MsgTx(m) == [kind |-> "msg", what |-> m, by |-> {"wallet"}]
VoteTx(id, option) == [kind |-> "vote", what |-> id, option |-> option, by |-> Validators]
ShapedTx(new) == [kind |-> "shaped", new |-> new, by |-> {"stream"}]

---------------------------------------------------------------------------
(* onFundBlock. *)

\* Mutants: switch with the upgrade block; switch two blocks early.
NextBlockUpgradedLate(block) == UpgradeHeight > 0 /\ block >= UpgradeHeight
NextBlockUpgradedEarly(block) == UpgradeHeight > 0 /\ block + 2 >= UpgradeHeight

\* nextBlockUpgraded
NextBlockUpgraded(block) == UpgradeHeight > 0 /\ block + 1 >= UpgradeHeight

\* The synchronous start of a handler: the height, and with it the message shapes.
OnFundBlock(h) ==
  /\ events # <<>>
  /\ Goto(h, "idle", "checks")
  /\ height' = Head(events)
  /\ newShape' = NextBlockUpgraded(Head(events))
  /\ events' = Tail(events)
  /\ UNCHANGED <<proposalSubmitted, customDone, rejected, localVars, chainHeight, proposals,
                 planned, msgsRun, mempool, faults>>

\* A query of checkTxs, checkIbcChannels or getOpenProposals rejects: the handler ends
\* there, and the next block tries again.
Abort(h) ==
  /\ \E at \in {"checks", "validators", "others"} : Goto(h, at, "idle")
  /\ pc[h] = "validators" => proposalSubmitted
  /\ Fault("query")
  /\ UNCHANGED <<runnerVars, localVars, chainVars, mempool>>

\* Mutant: one list for both kinds.
DueCustomTxsBoth(kind) == {i \in Customs \ customDone : height >= SubmitHeight[i]}

\* #dueCustomTxs
DueCustomTxs(kind) == {i \in kind \ customDone : height >= SubmitHeight[i]}

\* The checks, the IBC channels and the sleep are over; customGovTxs makes its list.
StartCustomGov(h) ==
  /\ Goto(h, "checks", "gov")
  /\ todo' = [todo EXCEPT ![h] = DueCustomTxs(CustomGov)]
  /\ UNCHANGED <<runnerVars, item, answer, composed, chainVars, mempool, faults>>

SubmitCustomGov(h) ==
  /\ Goto(h, "gov", "govSent")
  /\ \E i \in todo[h], v \in Validators :
       /\ item' = [item EXCEPT ![h] = i]
       /\ Cli(h, GovTx(v, i))
  /\ UNCHANGED <<runnerVars, todo, composed, chainVars>>

\* Mutants: a submitted tx is not noted as done; whatever the answer, it is.
SettlesNever(h) == FALSE
SettlesAlways(h) == TRUE

\* Whether the answer settles the item whose CLI call returned.
Settles(h) == \/ answer[h] = "accepted"
              \/ answer[h] = "rejected" /\ item[h] \in CustomMsgs

\* The rest of the loop body, of customGovTxs or customMsgTxs.
Answered(h, from, to) ==
  /\ Goto(h, from, to)
  /\ customDone' = IF Settles(h) THEN customDone \cup {item[h]} ELSE customDone
  /\ rejected' = IF answer[h] = "rejected" THEN rejected \cup {item[h]} ELSE rejected
  /\ todo' = [todo EXCEPT ![h] = @ \ {item[h]}]
  /\ item' = [item EXCEPT ![h] = None]
  /\ answer' = [answer EXCEPT ![h] = None]
  /\ UNCHANGED <<height, proposalSubmitted, newShape, composed, chainVars, mempool, faults>>

CustomGovAnswered(h) == Answered(h, "govSent", "gov")

\* customMsgTxs makes its list; without a `msgs` list to read it throws.
StartCustomMsgs(h) ==
  /\ todo[h] = {}
  /\ Goto(h, "gov", IF MsgsLoaded THEN "msgs" ELSE "idle")
  /\ todo' = [todo EXCEPT ![h] = IF MsgsLoaded THEN DueCustomTxs(CustomMsgs) ELSE {}]
  /\ UNCHANGED <<runnerVars, item, answer, composed, chainVars, mempool, faults>>

SubmitCustomMsg(h) ==
  /\ Goto(h, "msgs", "msgSent")
  /\ \E i \in todo[h] :
       /\ item' = [item EXCEPT ![h] = i]
       /\ Cli(h, MsgTx(i))
  /\ UNCHANGED <<runnerVars, todo, composed, chainVars>>

CustomMsgAnswered(h) == Answered(h, "msgSent", "msgs")

CustomMsgsDone(h) ==
  /\ todo[h] = {}
  /\ Goto(h, "msgs", "validators")
  /\ UNCHANGED <<runnerVars, localVars, chainVars, mempool, faults>>

---------------------------------------------------------------------------
(* #validatorActions. *)

SubmitUpgradeProposal(h) ==
  /\ ~proposalSubmitted
  /\ Goto(h, "validators", "submitted")
  /\ \E v \in Validators : Cli(h, GovTx(v, Upgrade))
  /\ UNCHANGED <<runnerVars, todo, item, composed, chainVars>>

\* The flag is set whatever became of the proposal.
ProposalSubmitted(h) ==
  /\ Goto(h, "submitted", "others")
  /\ proposalSubmitted' = TRUE
  /\ answer' = [answer EXCEPT ![h] = None]
  /\ UNCHANGED <<height, customDone, rejected, newShape, todo, item, composed, chainVars,
                 mempool, faults>>

Ends(id) == proposals[id].opened + VotingBlocks
Open == {id \in DOMAIN proposals : chainHeight < Ends(id)}

\* Gov.validatorSubmitOrVote: every open proposal is voted on ...
StartVotes(h) ==
  /\ proposalSubmitted
  /\ Open # {}
  /\ Goto(h, "validators", "votes")
  /\ todo' = [todo EXCEPT ![h] = Open]
  /\ UNCHANGED <<runnerVars, item, answer, composed, chainVars, mempool, faults>>

\* ... and with none open, a text proposal is submitted.
SubmitNewProposal(h) ==
  /\ proposalSubmitted
  /\ Open = {}
  /\ Goto(h, "validators", "others")
  /\ IF Len(proposals) >= MaxProposals
     THEN UNCHANGED <<mempool, faults>>
     ELSE \E v \in Validators : SendTx(GovTx(v, Text))
  /\ UNCHANGED <<runnerVars, localVars, chainVars>>

\* Mutant: without config.json's outcomes.
VoteForNoCustom(id) == IF id = 1 THEN {"yes"} ELSE {"yes", "no"}

\* Gov.voteFor: what the validators may vote on a proposal.
VoteFor(id) ==
  CASE id = 1                            -> {"yes"}
    [] id # 1 /\ proposals[id].what \in CustomGov ->
         {IF proposals[id].what \in PassesYes THEN "yes" ELSE "no"}
    [] OTHER                             -> {"yes", "no"}

\* All validators vote alike on one proposal.
VoteOnProposal(h) ==
  /\ Goto(h, "votes", "votes")
  /\ \E id \in todo[h] :
       /\ todo' = [todo EXCEPT ![h] = @ \ {id}]
       /\ \E option \in VoteFor(id) : SendTx(VoteTx(id, option))
  /\ UNCHANGED <<runnerVars, item, answer, composed, chainVars>>

VotesDone(h) ==
  /\ todo[h] = {}
  /\ Goto(h, "votes", "others")
  /\ UNCHANGED <<runnerVars, localVars, chainVars, mempool, faults>>

---------------------------------------------------------------------------
(* The other wallets, of which the model keeps one message whose shape depends on the
   binary: a stream operation or a BEACON record. *)

Others(h) ==
  /\ Goto(h, "others", IF height > WarmUp THEN "compose" ELSE "idle")
  /\ UNCHANGED <<runnerVars, localVars, chainVars, mempool, faults>>

Compose(h) ==
  /\ Goto(h, "compose", "send")
  /\ composed' = [composed EXCEPT ![h] = newShape]
  /\ UNCHANGED <<runnerVars, todo, item, answer, chainVars, mempool, faults>>

Send(h) ==
  /\ Goto(h, "send", "idle")
  /\ SendTx(ShapedTx(composed[h]))
  /\ composed' = [composed EXCEPT ![h] = FALSE]
  /\ UNCHANGED <<runnerVars, todo, item, answer, chainVars>>

---------------------------------------------------------------------------
(* The chain. *)

\* The positions of the txs of a kind, and a sequence's elements at some positions in order.
OfKind(txs, kind) == {k \in DOMAIN txs : txs[k].kind = kind}

Selected(s, K) ==
  [i \in 1 .. Cardinality(K) |-> s[CHOOSE k \in K : Cardinality({j \in K : j <= k}) = i]]

\* The proposals that a block with these txs opens.
Opened(txs, block) ==
  LET new == Selected(txs, OfKind(txs, "proposal"))
  IN  [k \in DOMAIN new |-> [what |-> new[k].what, opened |-> block, vote |-> None]]

\* The proposals after the block: open ones take the last vote.
WithTxs(txs, block) ==
  LET On(id) == {k \in OfKind(txs, "vote") : txs[k].what = id}
      LastVote(id) == txs[CHOOSE k \in On(id) : \A j \in On(id) : j <= k].option
  IN  [id \in DOMAIN proposals |->
         IF id \in Open /\ On(id) # {} THEN [proposals[id] EXCEPT !.vote = LastVote(id)]
                                       ELSE proposals[id]] \o Opened(txs, block)

\* The custom msgs it executes.
Run(txs) ==
  LET run == Selected(txs, OfKind(txs, "msg"))
  IN  [k \in DOMAIN run |-> run[k].what]

\* The next block includes a prefix of the mempool.  At the upgrade every node restarts
\* after it, and may lose the rest of the mempool and the runner's websocket with it.
NewBlock ==
  LET upgrading == planned /\ chainHeight + 1 = UpgradeHeight
      next == IF chainHeight < MaxHeight THEN chainHeight + 1 ELSE MaxHeight
  IN  /\ events = <<>>
      /\ Prompt => \A h \in Handlers : pc[h] = "idle"
      /\ \E n \in 0 .. Len(mempool) :
           LET txs == SubSeq(mempool, 1, n)
           IN  /\ Len(mempool) - n <= (IF Prompt THEN 0 ELSE MaxLeft)
               /\ proposals' = WithTxs(txs, next)
               /\ msgsRun' = msgsRun \o Run(txs)
               /\ \/ /\ mempool' = SubSeq(mempool, n + 1, Len(mempool))
                     /\ UNCHANGED faults
                  \/ upgrading /\ mempool' = <<>> /\ Fault("halt")
      /\ chainHeight' = next
      /\ planned' = (planned \/ \E id \in DOMAIN proposals' :
                        /\ proposals'[id].what = Upgrade
                        /\ proposals'[id].vote = "yes"
                        /\ proposals'[id].opened + VotingBlocks = chainHeight'
                        /\ chainHeight' < UpgradeHeight)
      /\ \/ events' = <<chainHeight'>>
         \/ upgrading /\ events' = <<>>
      /\ UNCHANGED <<runnerVars, pc, localVars>>

---------------------------------------------------------------------------

HandlerStep(h) ==
  \/ OnFundBlock(h) \/ StartCustomGov(h) \/ SubmitCustomGov(h) \/ CustomGovAnswered(h)
  \/ StartCustomMsgs(h) \/ SubmitCustomMsg(h) \/ CustomMsgAnswered(h) \/ CustomMsgsDone(h)
  \/ SubmitUpgradeProposal(h) \/ ProposalSubmitted(h)
  \/ StartVotes(h) \/ SubmitNewProposal(h) \/ VoteOnProposal(h) \/ VotesDone(h)
  \/ Others(h) \/ Compose(h) \/ Send(h)

Next ==
  \/ \E h \in Handlers : HandlerStep(h) \/ Abort(h)
  \/ NewBlock

Spec == Init /\ [][Next]_vars

\* Blocks keep coming and every await returns.
FairSpec == Spec /\ WF_vars(NewBlock) /\ \A h \in Handlers : WF_vars(HandlerStep(h))

---------------------------------------------------------------------------
(* Properties *)

Whats == CustomGov \cup {Upgrade, Text}

Txs ==
  [kind : {"proposal"}, what : Whats, by : SUBSET Validators]
    \cup [kind : {"msg"}, what : CustomMsgs, by : {{"wallet"}}]
    \cup [kind : {"vote"}, what : Nat, option : {"yes", "no"}, by : {Validators}]
    \cup [kind : {"shaped"}, new : BOOLEAN, by : {{"stream"}}]

\* What a handler's list and its CLI call are about, at each await.
Local(h) ==
  /\ todo[h] \subseteq CASE pc[h] \in {"gov", "govSent"} -> CustomGov
                         [] pc[h] \in {"msgs", "msgSent"} -> CustomMsgs
                         [] pc[h] = "votes" -> DOMAIN proposals
                         [] OTHER -> {}
  /\ item[h] \in CASE pc[h] = "govSent" -> CustomGov
                    [] pc[h] = "msgSent" -> CustomMsgs
                    [] OTHER -> {None}
  /\ answer[h] \in IF pc[h] \in {"govSent", "msgSent", "submitted"}
                   THEN {"accepted", "rejected", "stale", "null"} ELSE {None}

TypeOK ==
  /\ height \in 0 .. chainHeight /\ chainHeight \in 0 .. MaxHeight
  /\ proposalSubmitted \in BOOLEAN /\ newShape \in BOOLEAN /\ planned \in BOOLEAN
  /\ customDone \subseteq Customs /\ rejected \subseteq Customs
  /\ pc \in [Handlers -> PcStates] /\ composed \in [Handlers -> BOOLEAN]
  /\ DOMAIN todo = Handlers /\ DOMAIN item = Handlers /\ DOMAIN answer = Handlers
  /\ \A h \in Handlers : Local(h)
  /\ mempool \in Seq(Txs)
  /\ \A k \in OfKind(mempool, "vote") : mempool[k].what \in DOMAIN proposals
  /\ proposals \in Seq([what : Whats, opened : 1 .. chainHeight, vote : {None, "yes", "no"}])
  /\ msgsRun \in Seq(CustomMsgs)
  /\ events \in Seq(0 .. chainHeight)
  /\ faults \in 0 .. MaxFaults

Decided(id) == chainHeight >= Ends(id)

\* A custom proposal ends as config.json says, whatever other proposals are open and
\* although a vote may fail (README 98: "every validator votes that way").
AsConfigured ==
  \A id \in DOMAIN proposals :
    proposals[id].what \in CustomGov /\ Decided(id) =>
      (proposals[id].vote = "yes") = (proposals[id].what \in PassesYes)

InMempool(i) == {k \in DOMAIN mempool : mempool[k].kind \in {"proposal", "msg"} /\ mempool[k].what = i}
OnChain(i) == {id \in DOMAIN proposals : proposals[id].what = i}
Executed(i) == {k \in DOMAIN msgsRun : msgsRun[k] = i}
Copies(i) == Cardinality(InMempool(i)) + Cardinality(OnChain(i)) + Cardinality(Executed(i))

\* A custom tx reaches the chain once, however often it was tried (customMsgTxs: "Tried
\* again next block only if it never reached the chain").
CustomOnce == \A i \in Customs : Copies(i) <= 1

\* A message reaches a block of the binary whose shape it has: what waits in the mempool
\* when a block is made lands in it (onFundBlock: "Message shapes follow the binary").
ShapesFollowBinary ==
  \A k \in DOMAIN mempool :
    mempool[k].kind = "shaped" => mempool[k].new = (chainHeight + 1 >= UpgradeHeight)

\* However handlers overlap, one composing under the statics that another switched and sending
\* blocks later, and although the restart may lose an event, no message of the new shape can
\* land below the upgrade height (onFundBlock: "switch one block early").
NewShapeNeverEarly ==
  \A k \in DOMAIN mempool :
    mempool[k].kind = "shaped" /\ mempool[k].new => chainHeight + 1 >= UpgradeHeight

\* What the node tells of the custom txs: the end of each proposal, and the msg txs.
Status(id) == CASE ~Decided(id)              -> "VOTING"
                [] proposals[id].vote = "yes" -> "PASSED"
                [] OTHER                      -> "REJECTED"
Proposals == [id \in DOMAIN proposals |-> [metadata |-> proposals[id].what, status |-> Status(id)]]
Responses == [k \in DOMAIN msgsRun |-> [memo |-> msgsRun[k], ok |-> TRUE]]

\* The checks of `make verify` on what the runner did come to pass and stay so, although a
\* query, a script or a send fails on the way: the upgrade ran at its height, each custom
\* proposal ended as configured, and each custom msg is on chain unless the node
\* answered it with a rejection (index.mjs: "the next block tick simply retries"; customGovTxs:
\* "tried again next block"; customMsgTxs: "any other rejection is final").
VerifyPasses ==
  <>[](/\ UpgradeAppliedAt(IF planned /\ chainHeight >= UpgradeHeight THEN UpgradeHeight ELSE 0,
                           UpgradeHeight)
       /\ \A i \in CustomGov : CustomProposal(Proposals, i, i \in PassesYes)
       /\ \A i \in CustomMsgs : CustomMsg(Responses, i, i \notin rejected))

\* The runner takes the upgrade proposal for submitted only when it was (validatorActions:
\* "the upgrade proposal once").
FlagMeansSubmitted == proposalSubmitted => Copies(Upgrade) > 0

\* The upgrade proposal comes to chain (README: the tx_runner "also submits and votes on
\* the upgrade proposal").
UpgradeSubmitted == <>(OnChain(Upgrade) # {})
===========================================================================
