--------------------------- MODULE PaymentStreams ---------------------------
(***************************************************************************)
(* The payment streams of the tx_runner, one per sender/receiver pair,     *)
(* from creation through top-ups, flow updates, claims and cancellations   *)
(* and across the upgrade (modules/stream.mjs, driven by every block       *)
(* through runner/actions.mjs).                                            *)
(*                                                                         *)
(* A handler is one block's #paymentStreamTxs; each action is the code     *)
(* from one await to the next.  The denom of the messages and the list of  *)
(* operations still to be covered are static: every handler shares them.   *)
(*                                                                         *)
(* x/stream is external: the state of each pair's stream, and an upgrade   *)
(* after which a message or a lookup without the denom misses it.          *)
(***************************************************************************)
EXTENDS Integers, Sequences, Verify

CONSTANTS
  NumPairs,       \* sender/receiver pairs
  Handlers,       \* block handlers that may be in progress at once
  UpgradeHeight,
  Prompt,         \* handlers are done, and the mempool empty, before the next block
  Faults,         \* the kinds of fault the environment may commit
  MaxFaults,      \* bound: how many of them a behaviour contains
  MaxHeight       \* bound: heights from here on are not told apart

Pairs == 1 .. NumPairs

\* MsgTypes; ValidRandomMsgTypes in the order of the list.
CREATE == "create"
CLAIM == "claim"
TOPUP == "topup"
UPDATE_FLOW == "update_flow"
CANCEL == "cancel"
ValidRandomMsgTypes == <<TOPUP, UPDATE_FLOW, CANCEL>>
RandomOps == {TOPUP, UPDATE_FLOW, CANCEL}
Ops == RandomOps \cup {CREATE, CLAIM}

ASSUME StreamsAssumption ==
  /\ {UpgradeHeight, MaxHeight, MaxFaults} \subseteq Nat /\ NumPairs \in Nat \ {0}
  /\ 1 < UpgradeHeight /\ UpgradeHeight <= MaxHeight
  /\ Prompt \in BOOLEAN
  /\ Faults \subseteq {"query", "sendTx", "drain", "halt"}

VARIABLES
  streamDenom,   \* PaymentStream.streamDenom: "" or "nund"
  uncoveredOps,  \* PaymentStream.uncoveredOps
  pc, at,        \* each handler's await, and the pair it is at
  streamKey,     \* the denom a handler's lookups are about
  streamFlow, stream,  \* what the lookups answered: Null, or a flow or deposit that is
                       \* "zero" or "some"
  msg,           \* the message a handler is sending
  pending,       \* a block's event is to be delivered
  chainHeight, streams, mempool,   \* the chain
  landed,        \* history: the sides of the upgrade on which a message succeeded
  rejected,      \* history: some tx failed in a block
  lost,          \* history: some message was lost on its way to a block
  sent,          \* history: the operations broadcast since the list was renewed
  faults         \* faults so far

runnerVars == <<streamDenom, uncoveredOps, sent>>
localVars  == <<at, streamKey, streamFlow, stream, msg>>
chainVars  == <<chainHeight, streams, landed, rejected>>
vars == <<runnerVars, pc, localVars, pending, mempool, chainVars, lost, faults>>

Null == "null"
NoMsg == [op |-> Null]

Init ==
  /\ streamDenom = ""
  /\ uncoveredOps = ValidRandomMsgTypes
  /\ pc = [h \in Handlers |-> "idle"]
  /\ at = [h \in Handlers |-> 1]
  /\ streamKey = [h \in Handlers |-> ""]
  /\ streamFlow = [h \in Handlers |-> Null]
  /\ stream = [h \in Handlers |-> Null]
  /\ msg = [h \in Handlers |-> NoMsg]
  /\ pending = FALSE
  /\ chainHeight = 0
  /\ streams = [p \in Pairs |-> "none"]
  /\ mempool = {}
  /\ landed = [op \in Ops |-> {}]
  /\ rejected = FALSE
  /\ lost = FALSE
  /\ sent = {}
  /\ faults = 0

Fault(kind) ==
  /\ kind \in Faults
  /\ faults < MaxFaults
  /\ faults' = faults + 1

Goto(h, from, to) == pc[h] = from /\ pc' = [pc EXCEPT ![h] = to]

---------------------------------------------------------------------------
(* The chain's view of a message and of a lookup. *)

\* Only claim, update and cancel have a denom, which the new binary needs and the old one
\* does not know.
Fits(m, block) ==
  m.op \in {CLAIM, UPDATE_FLOW, CANCEL} =>
    (m.denom = "nund") = (Side(block, UpgradeHeight) = "after")

\* A stream flows until its deposit has run out ("ended"); a last claim empties it.
Applies(m, block) ==
  /\ Fits(m, block)
  /\ CASE m.op = CREATE -> streams[m.pair] = "none"
       [] m.op = CLAIM  -> streams[m.pair] \in {"flowing", "ended"}
       [] OTHER         -> streams[m.pair] # "none"

Effect(m) ==
  CASE m.op \in {CREATE, TOPUP} -> "flowing"
    [] m.op = CANCEL            -> "none"
    [] m.op = CLAIM /\ streams[m.pair] = "ended" -> "empty"
    [] OTHER                    -> streams[m.pair]

Misses(p, key) ==
  streams[p] = "none" \/ (key = "" /\ Side(chainHeight, UpgradeHeight) = "after")

\* sendTx(): simulated on the last block's state, then broadcast; the caller is not told.
SendTx(m) ==
  \/ /\ Applies(m, chainHeight)
     /\ mempool' = mempool \cup {m}
     /\ sent' = sent \cup {m.op}
     /\ UNCHANGED <<lost, faults>>
  \/ /\ ~Applies(m, chainHeight)
     /\ UNCHANGED <<mempool, sent, lost, faults>>
  \/ /\ Fault("sendTx")
     /\ lost' = TRUE
     /\ UNCHANGED <<mempool, sent>>

---------------------------------------------------------------------------
(* The handler. *)

\* Mutant: the list is not renewed.
RenewedNever(denom) == uncoveredOps

\* setStreamDenom(): a new denom starts a new coverage phase.
Renewed(denom) == IF denom # streamDenom THEN ValidRandomMsgTypes ELSE uncoveredOps

\* onFundBlock, its synchronous start.
OnFundBlock(h) ==
  LET denom == IF chainHeight + 1 >= UpgradeHeight THEN "nund" ELSE ""
  IN  /\ pending
      /\ Goto(h, "idle", "started")
      /\ pending' = FALSE
      /\ streamDenom' = denom
      /\ uncoveredOps' = Renewed(denom)
      /\ sent' = IF denom # streamDenom THEN {} ELSE sent
      /\ UNCHANGED <<localVars, mempool, chainVars, lost, faults>>

\* Mutant: the lookup has no denom.
KeyOld(h) == ""

\* The denom the lookups of a pair are made with.
Key(h) == streamDenom

\* The loop comes to pair p, or to its end.
ToPair(h, from, p) ==
  /\ IF p <= NumPairs THEN Goto(h, from, "flow") ELSE Goto(h, from, "idle")
  /\ at' = [at EXCEPT ![h] = IF p <= NumPairs THEN p ELSE 1]
  /\ streamKey' = [streamKey EXCEPT ![h] = IF p <= NumPairs THEN Key(h) ELSE ""]
  /\ streamFlow' = [streamFlow EXCEPT ![h] = Null]
  /\ stream' = [stream EXCEPT ![h] = Null]
  /\ msg' = [msg EXCEPT ![h] = NoMsg]

\* The actions before #paymentStreamTxs are over, and runStreamTxs begins.
RunStreamTxs(h) ==
  /\ ToPair(h, "started", 1)
  /\ UNCHANGED <<runnerVars, pending, mempool, chainVars, lost, faults>>

Message(h, op) == [op |-> op, pair |-> at[h], denom |-> streamDenom, by |-> h]

\* Mutants: a claim whatever the lookups answered; a claim after the handler's own cancel.
ClaimDueAny(h, op, deposit) == op # CANCEL
ClaimDueAfterCancel(h, op, deposit) == streamFlow[h] = "some" /\ deposit = "some"

\* msgClaimStream
ClaimMessage(h) == Message(h, CLAIM)

\* Whether the receiver claims, after the sender's message.
ClaimDue(h, op, deposit) == streamFlow[h] = "some" /\ deposit = "some" /\ op # CANCEL

\* What follows the sender's message, up to the next await.
ThenClaim(h, from, op, deposit) ==
  IF ClaimDue(h, op, deposit)
  THEN /\ Goto(h, from, "claim")
       /\ msg' = [msg EXCEPT ![h] = ClaimMessage(h)]
       /\ stream' = [stream EXCEPT ![h] = deposit]
       /\ UNCHANGED <<at, streamKey, streamFlow>>
  ELSE ToPair(h, from, at[h] + 1)

\* getMsg(op): the sender's message is composed, and its sendTx called.
Compose(h, from, op, deposit) ==
  /\ Goto(h, from, "send")
  /\ msg' = [msg EXCEPT ![h] = Message(h, op)]
  /\ stream' = [stream EXCEPT ![h] = deposit]
  /\ UNCHANGED <<at, streamKey, streamFlow>>

\* A lookup that throws forces a create, whatever it threw for.
ForceCreate(h, from) == Compose(h, from, CREATE, Null) /\ UNCHANGED uncoveredOps

Throws(h) == \/ Misses(at[h], streamKey[h]) /\ UNCHANGED faults
             \/ Fault("query")

\* streamReceiverSenderCurrentFlow() returns or throws.
AnswerFlow(h) ==
  /\ \/ Throws(h) /\ ForceCreate(h, "flow")
     \/ /\ ~Misses(at[h], streamKey[h])
        /\ Goto(h, "flow", "stream")
        /\ streamFlow' = [streamFlow EXCEPT
                            ![h] = IF streams[at[h]] = "flowing" THEN "some" ELSE "zero"]
        /\ UNCHANGED <<uncoveredOps, at, streamKey, stream, msg, faults>>
  /\ UNCHANGED <<streamDenom, sent, pending, mempool, chainVars, lost>>

\* randomStreamSenderMsg(): what is not covered yet comes first, then any operation or none.
RandomOp(op) ==
  IF uncoveredOps # <<>>
  THEN op = Head(uncoveredOps) /\ uncoveredOps' = Tail(uncoveredOps)
  ELSE op \in RandomOps \cup {Null} /\ UNCHANGED uncoveredOps

\* streamByReceiverSender() returns or throws.
AnswerStream(h) ==
  LET deposit == IF streams[at[h]] = "empty" THEN "zero" ELSE "some"
  IN  /\ pc[h] = "stream"
      /\ \/ Throws(h) /\ ForceCreate(h, "stream")
         \/ /\ ~Misses(at[h], streamKey[h])
            /\ UNCHANGED faults
            /\ IF streamFlow[h] = "zero" \/ deposit = "zero"
               THEN Compose(h, "stream", TOPUP, deposit) /\ UNCHANGED uncoveredOps
               ELSE \E op \in RandomOps \cup {Null} :
                      /\ RandomOp(op)
                      /\ IF op = Null THEN ThenClaim(h, "stream", op, deposit)
                         ELSE Compose(h, "stream", op, deposit)
      /\ UNCHANGED <<streamDenom, sent, pending, mempool, chainVars, lost>>

\* The sender's sendTx returns.
SendSender(h) ==
  /\ pc[h] = "send"
  /\ SendTx(msg[h])
  /\ ThenClaim(h, "send", msg[h].op, stream[h])
  /\ UNCHANGED <<streamDenom, uncoveredOps, pending, chainVars>>

\* The receiver's sendTx returns.
SendClaim(h) ==
  /\ pc[h] = "claim"
  /\ SendTx(msg[h])
  /\ ToPair(h, "claim", at[h] + 1)
  /\ UNCHANGED <<streamDenom, uncoveredOps, pending, chainVars>>

---------------------------------------------------------------------------
(* The chain. *)

Settled == Prompt => \A h \in Handlers : pc[h] = "idle"

\* A tx of the block being made.
Execute(m) ==
  /\ Settled
  /\ mempool' = mempool \ {m}
  /\ IF Applies(m, chainHeight + 1)
     THEN /\ streams' = [streams EXCEPT ![m.pair] = Effect(m)]
          /\ landed' = [landed EXCEPT ![m.op] = @ \cup {Side(chainHeight + 1, UpgradeHeight)}]
          /\ UNCHANGED rejected
     ELSE rejected' = TRUE /\ UNCHANGED <<streams, landed>>
  /\ UNCHANGED <<runnerVars, pc, localVars, pending, chainHeight, lost, faults>>

\* The block is made.  At the upgrade the nodes restart after it and may lose the mempool.
NewBlock ==
  /\ Settled /\ ~pending
  /\ \/ (Prompt => mempool = {}) /\ UNCHANGED <<mempool, lost, faults>>
     \/ /\ chainHeight + 1 = UpgradeHeight /\ mempool # {}
        /\ mempool' = {} /\ lost' = TRUE /\ Fault("halt")
  /\ chainHeight' = IF chainHeight < MaxHeight THEN chainHeight + 1 ELSE MaxHeight
  /\ pending' = TRUE
  /\ UNCHANGED <<runnerVars, pc, localVars, streams, landed, rejected>>

\* A deposit runs out.
Drain(p) ==
  /\ streams[p] = "flowing"
  /\ Fault("drain")
  /\ streams' = [streams EXCEPT ![p] = "ended"]
  /\ UNCHANGED <<runnerVars, pc, localVars, pending, mempool, chainHeight, landed, rejected,
                 lost>>

---------------------------------------------------------------------------

Handler(h) ==
  \/ OnFundBlock(h) \/ RunStreamTxs(h) \/ AnswerFlow(h) \/ AnswerStream(h)
  \/ SendSender(h) \/ SendClaim(h)

Next ==
  \/ \E h \in Handlers : Handler(h)
  \/ \E m \in mempool : Execute(m)
  \/ NewBlock
  \/ \E p \in Pairs : Drain(p)

Spec == Init /\ [][Next]_vars

\* Blocks keep coming, every await returns and the mempool drains.  Nothing is assumed of
\* the random choices.
FairSpec ==
  /\ Spec
  /\ WF_vars(NewBlock) /\ WF_vars(\E m \in mempool : Execute(m))
  /\ \A h \in Handlers : WF_vars(Handler(h))

\* Nor does the dice always find the sender something to do (the odds are one in ten).
LuckySpec ==
  /\ FairSpec
  /\ \A h \in Handlers : SF_vars(AnswerStream(h) /\ pc'[h] = "claim")

---------------------------------------------------------------------------
(* Properties *)

IsMessage(m) == m \in [op : Ops, pair : Pairs, denom : {"", "nund"}, by : Handlers]

TypeOK ==
  /\ streamDenom \in {"", "nund"}
  /\ \E n \in 0 .. 3 : uncoveredOps = SubSeq(ValidRandomMsgTypes, n + 1, 3)
  /\ pc \in [Handlers -> {"idle", "started", "flow", "stream", "send", "claim"}]
  /\ at \in [Handlers -> Pairs]
  /\ streamKey \in [Handlers -> {"", "nund"}]
  /\ streamFlow \in [Handlers -> {Null, "zero", "some"}]
  /\ stream \in [Handlers -> {Null, "zero", "some"}]
  /\ \A h \in Handlers :
       IF pc[h] \in {"send", "claim"} THEN IsMessage(msg[h]) ELSE msg[h] = NoMsg
  /\ \A h \in Handlers : pc[h] = "claim" => msg[h].op = CLAIM /\ streamFlow[h] = "some" /\ stream[h] = "some"
  /\ {pending, rejected, lost} \subseteq BOOLEAN
  /\ chainHeight \in 0 .. MaxHeight
  /\ streams \in [Pairs -> {"none", "flowing", "ended", "empty"}]
  /\ \A m \in mempool : IsMessage(m)
  /\ landed \in [Ops -> SUBSET {"before", "after"}]
  /\ sent \subseteq Ops
  /\ faults \in 0 .. MaxFaults

\* While handlers do not overlap, what a lookup showed still holds when the messages that
\* came of it land, deposits running out meanwhile (runStreamTxs: "stream was just
\* cancelled").
NothingRejected == ~rejected

\* With one pair, and unless a message is lost, every stream message succeeds on both sides
\* of the upgrade, on the list alone and whatever the dice say (uncoveredOps: "`make verify`
\* needs every one on both sides").  With two pairs it does not, as ListedUntilSent does not.
StreamsVerified == <>(lost \/ \A op \in Ops : ExpectedMsg(landed[op], FALSE))

\* Receivers go on claiming, across the upgrade too (queryClientV2: not again the "does not
\* exist -> force create -> stream exists" loop).
KeepsClaiming ==
  \A p \in Pairs :
    []<>(\E m \in mempool : m.op = CLAIM /\ m.pair = p /\ Applies(m, chainHeight + 1))

\* An operation leaves the list only by being sent (uncoveredOps: "Sender ops not yet sent
\* in the current phase").
ListedUntilSent ==
  \A op \in RandomOps :
    \/ op \in sent
    \/ \E k \in DOMAIN uncoveredOps : uncoveredOps[k] = op
    \/ \E h \in Handlers : pc[h] = "send" /\ msg[h].op = op
=============================================================================
