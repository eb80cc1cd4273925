------------------------ MODULE PaymentStreams_proofs ------------------------
(***************************************************************************)
(* For any number of pairs, handlers and faults: as long as a handler is   *)
(* done and its messages are in a block before the next one (Prompt), no   *)
(* stream message fails in its block, on either side of the upgrade or     *)
(* across it.  The types hold without that condition too.                  *)
(***************************************************************************)
EXTENDS PaymentStreams, TLAPS

Denoms == {"", "nund"}
Answers == {Null, "zero", "some"}
Messages == [op : Ops, pair : Pairs, denom : Denoms, by : Handlers]
StreamStates == {"none", "flowing", "ended", "empty"}

\* The part of the types that the steps need.
Types ==
  /\ streamDenom \in Denoms
  /\ pc \in [Handlers -> {"idle", "started", "flow", "stream", "send", "claim"}]
  /\ at \in [Handlers -> Pairs]
  /\ DOMAIN msg = Handlers /\ DOMAIN stream = Handlers /\ DOMAIN streamFlow = Handlers
  /\ \A h \in Handlers : pc[h] \in {"send", "claim"} => msg[h] \in Messages
  /\ chainHeight \in Nat
  /\ streams \in [Pairs -> StreamStates]
  /\ mempool \subseteq Messages

Busy(h) == pc[h] # "idle"

\* One handler at a time, on an empty mempool.
Alone ==
  /\ \A h, g \in Handlers : Busy(h) /\ Busy(g) => h = g
  /\ pending => mempool = {} /\ \A h \in Handlers : ~Busy(h)
  /\ \A h \in Handlers : pc[h] = "started" => mempool = {}

\* The denom is that of the next block, and so is a composed message's.
DenomOfNext ==
  /\ ~pending => streamDenom = IF chainHeight + 1 >= UpgradeHeight THEN "nund" ELSE ""
  /\ \A h \in Handlers :
       pc[h] \in {"send", "claim"} => msg[h].denom = streamDenom /\ msg[h].pair = at[h]

\* What is being sent, and what may precede it for the same pair.
Composed ==
  \A h \in Handlers :
    /\ pc[h] = "send" => msg[h].op # CLAIM /\ (msg[h].op = CREATE => stream[h] # "some")
    /\ pc[h] = "claim" => msg[h].op = CLAIM
    /\ Busy(h) => \A m \in mempool : \/ m.pair < at[h]
                                     \/ /\ m.pair = at[h] /\ pc[h] = "claim"
                                        /\ m.op \in {TOPUP, UPDATE_FLOW}

\* Two messages of a pair in the mempool: a claim, and one that leaves its stream be.
Compatible(m, n) == m.op = CLAIM /\ n.op \in {TOPUP, UPDATE_FLOW}

\* Each message fits the next block and its stream, and still will after the others.
AllApply ==
  /\ \A m \in mempool : Applies(m, chainHeight + 1)
  /\ \A m, n \in mempool :
       m.pair = n.pair => m = n \/ Compatible(m, n) \/ Compatible(n, m)

StreamsInv == Types /\ Alone /\ DenomOfNext /\ Composed /\ AllApply /\ ~rejected

---------------------------------------------------------------------------

\* The constants as numbers.
LEMMA Constants ==
  /\ UpgradeHeight \in Nat /\ MaxHeight \in Nat /\ NumPairs \in Nat
  /\ 1 < UpgradeHeight /\ UpgradeHeight <= MaxHeight /\ 1 <= NumPairs
BY StreamsAssumption

\* Nothing has been sent.
LEMMA StreamsInit == Init => StreamsInv
<1> SUFFICES ASSUME Init PROVE StreamsInv
  OBVIOUS
<1>1. at \in [Handlers -> Pairs]
  <2>1. 1 \in Pairs
    BY Constants DEF Pairs
  <2> QED
    BY <2>1 DEF Init
<1>2. streams \in [Pairs -> StreamStates]
  BY DEF Init, StreamStates
<1>3. Types
  BY <1>1, <1>2 DEF Init, Types, Denoms
<1>4. Alone /\ Composed /\ AllApply /\ ~rejected
  BY DEF Init, Alone, Busy, Composed, AllApply
<1>5. ~(chainHeight + 1 >= UpgradeHeight)
  <2>1. chainHeight = 0
    BY DEF Init
  <2> QED
    BY <2>1, Constants
<1>6. DenomOfNext
  BY <1>5 DEF Init, DenomOfNext
<1> QED
  BY <1>3, <1>4, <1>6 DEF StreamsInv

\* What was simulated on the last block applies in the next one: the denom is the next one's.
LEMMA AppliesNext ==
  ASSUME StreamsInv, ~pending, NEW m \in Messages, m.denom = streamDenom, Applies(m, chainHeight)
  PROVE  Applies(m, chainHeight + 1)
<1>1. Fits(m, chainHeight + 1)
  <2>1. CASE chainHeight + 1 >= UpgradeHeight
    <3>1. m.denom = "nund"
      BY <2>1 DEF StreamsInv, DenomOfNext
    <3>2. ~(chainHeight + 1 < UpgradeHeight)
      BY <2>1, Constants DEF StreamsInv, Types
    <3> QED
      BY <3>1, <3>2 DEF Fits, Side
  <2>2. CASE ~(chainHeight + 1 >= UpgradeHeight)
    <3>1. m.denom = ""
      BY <2>2 DEF StreamsInv, DenomOfNext
    <3>2. chainHeight + 1 < UpgradeHeight
      BY <2>2, Constants DEF StreamsInv, Types
    <3> QED
      BY <3>1, <3>2 DEF Fits, Side
  <2> QED
    BY <2>1, <2>2
<1>2. CASE m.op = CREATE
  BY <1>1, <1>2 DEF Applies
<1>3. CASE m.op = CLAIM
  BY <1>1, <1>3 DEF Applies, CREATE, CLAIM
<1>4. CASE m.op # CREATE /\ m.op # CLAIM
  BY <1>1, <1>4 DEF Applies
<1> QED
  BY <1>2, <1>3, <1>4

\* The chain's steps: a message that is executed leaves its stream fit for the other one.
LEMMA ExecuteApplies ==
  ASSUME Prompt, StreamsInv, NEW m \in mempool, Execute(m)
  PROVE  StreamsInv'
<1>1. /\ \A h \in Handlers : ~Busy(h)
      /\ mempool' = mempool \ {m}
      /\ streams' = [streams EXCEPT ![m.pair] = Effect(m)]
      /\ rejected' = rejected
      /\ UNCHANGED <<streamDenom, uncoveredOps, pc, at, msg, stream, streamFlow, pending,
                     chainHeight>>
  BY DEF Execute, Settled, Busy, StreamsInv, AllApply, runnerVars, localVars
<1>2. m \in Messages /\ Applies(m, chainHeight + 1)
  BY DEF StreamsInv, Types, AllApply
<1>3. Effect(m) \in StreamStates
  BY <1>2 DEF Effect, Messages, StreamsInv, Types, StreamStates
<1>4. Types'
  BY <1>1, <1>2, <1>3 DEF StreamsInv, Types, Messages
<1>5. ASSUME NEW n \in mempool', Applies(n, chainHeight + 1)
      PROVE  Applies(n, chainHeight + 1)'
  <2>1. n \in Messages /\ n # m /\ n \in mempool
    BY <1>1, <1>4 DEF Types
  <2>2. CASE n.pair # m.pair
    BY <1>1, <1>2, <1>5, <2>1, <2>2 DEF Applies, Fits, Messages, StreamsInv, Types
  <2>3. CASE n.pair = m.pair
    <3>1. Compatible(m, n) \/ Compatible(n, m)
      BY <2>1, <2>3 DEF StreamsInv, AllApply
    <3>2. streams'[n.pair] = Effect(m) /\ streams[m.pair] \in StreamStates \ {"none"}
      BY <1>1, <1>2, <2>1, <2>3, <3>1
         DEF Messages, StreamsInv, Types, Applies, StreamStates, Compatible, CREATE, CLAIM, TOPUP,
             UPDATE_FLOW, CANCEL
    <3> QED
      BY <1>1, <1>2, <1>5, <2>1, <2>3, <3>1, <3>2
         DEF Compatible, Effect, Applies, Fits, Messages, StreamStates, CREATE, CLAIM, TOPUP,
             UPDATE_FLOW, CANCEL
  <2> QED
    BY <2>2, <2>3
<1>6. AllApply'
  BY <1>1, <1>5 DEF StreamsInv, AllApply, Compatible
<1>7. Alone' /\ DenomOfNext' /\ Composed' /\ ~rejected'
  BY <1>1 DEF StreamsInv, Alone, DenomOfNext, Composed, Busy
<1> QED
  BY <1>4, <1>6, <1>7 DEF StreamsInv
---------------------------------------------------------------------------
(* The handler's steps. *)

\* While a handler is busy it is the only one, and the block's event has been delivered.
LEMMA BusyAlone ==
  ASSUME StreamsInv, NEW h \in Handlers, Busy(h)
  PROVE  ~pending /\ \A g \in Handlers : g # h => pc[g] = "idle"
BY DEF StreamsInv, Alone, Busy

\* A pair is behind the handler when it comes to the next one, or to the end of the list.
LEMMA ToPairKeeps ==
  ASSUME StreamsInv, NEW h \in Handlers, NEW from, NEW p \in Nat \ {0}, Busy(h),
         ToPair(h, from, p), UNCHANGED <<streamDenom, pending, chainHeight, streams, rejected>>,
         mempool' \subseteq Messages, AllApply', \A m \in mempool' : m.pair < p
  PROVE  StreamsInv'
<1>1. ~pending /\ \A g \in Handlers : g # h => pc[g] = "idle"
  BY BusyAlone
<1>2. /\ pc' = [pc EXCEPT ![h] = IF p <= NumPairs THEN "flow" ELSE "idle"]
      /\ at' = [at EXCEPT ![h] = IF p <= NumPairs THEN p ELSE 1]
  BY DEF ToPair, Goto
<1>3. pc' \in [Handlers -> {"idle", "started", "flow", "stream", "send", "claim"}]
  BY <1>2 DEF StreamsInv, Types
<1>4. at' \in [Handlers -> Pairs]
  BY <1>2, Constants DEF StreamsInv, Types, Pairs
<1>5. \A g \in Handlers : pc'[g] \notin {"send", "claim", "started"}
  BY <1>1, <1>2 DEF StreamsInv, Types
<1>6. Types'
  BY <1>3, <1>4, <1>5 DEF StreamsInv, Types, ToPair
<1>7. Alone'
  BY <1>1, <1>2, <1>5 DEF StreamsInv, Types, Alone, Busy
<1>8. DenomOfNext'
  BY <1>5 DEF StreamsInv, DenomOfNext
<1>9. Composed'
  <2>1. ASSUME NEW g \in Handlers, Busy(g)' PROVE g = h /\ p <= NumPairs
    BY <1>1, <1>2, <2>1 DEF Busy, StreamsInv, Types
  <2>2. ASSUME NEW g \in Handlers, Busy(g)', NEW m \in mempool' PROVE m.pair < at'[g]
    BY <1>2, <2>1, <2>2 DEF StreamsInv, Types
  <2> QED
    BY <1>5, <2>2 DEF Composed
<1> QED
  BY <1>6, <1>7, <1>8, <1>9 DEF StreamsInv

\* The sender's message of a pair is the first one, and its claim follows what it allows.
LEMMA SendKeeps ==
  ASSUME StreamsInv, NEW h \in Handlers, pc[h] \in {"send", "claim"}, SendTx(msg[h]),
         UNCHANGED <<chainHeight, streams>>
  PROVE  mempool' \subseteq mempool \cup {msg[h]} /\ mempool' \subseteq Messages /\ AllApply'
<1>1. msg[h] \in Messages /\ mempool' \subseteq mempool \cup {msg[h]}
  BY DEF StreamsInv, Types, SendTx
<1>2. CASE mempool' = mempool
  BY <1>1, <1>2 DEF StreamsInv, Types, AllApply, Applies, Fits
<1>3. CASE mempool' = mempool \cup {msg[h]} /\ Applies(msg[h], chainHeight)
  <2>1. ~pending
    BY BusyAlone DEF Busy
  <2>2. Applies(msg[h], chainHeight + 1)
    BY <1>1, <1>3, <2>1, AppliesNext DEF StreamsInv, DenomOfNext
  <2>3. \A m \in mempool' : Applies(m, chainHeight + 1)
    BY <1>3, <2>2 DEF StreamsInv, AllApply
  <2>4. \A m \in mempool : m.pair = msg[h].pair => Compatible(msg[h], m)
    <3> SUFFICES ASSUME NEW m \in mempool, m.pair = msg[h].pair PROVE Compatible(msg[h], m)
      OBVIOUS
    <3>1. m.pair = at[h] /\ at[h] \in Nat
      <4>1. m.pair = at[h]
        BY DEF StreamsInv, DenomOfNext
      <4>2. at[h] \in Pairs
        BY DEF StreamsInv, Types
      <4> QED
        BY <4>1, <4>2, Constants DEF Pairs
    <3>2. \/ m.pair < at[h]
          \/ pc[h] = "claim" /\ m.op \in {TOPUP, UPDATE_FLOW}
      BY DEF StreamsInv, Composed, Busy
    <3>3. pc[h] = "claim" => msg[h].op = CLAIM
      BY DEF StreamsInv, Composed
    <3> QED
      BY <3>1, <3>2, <3>3 DEF Compatible
  <2>5. \A m, n \in mempool' :
          m.pair = n.pair => m = n \/ Compatible(m, n) \/ Compatible(n, m)
    BY <1>3, <2>4 DEF StreamsInv, AllApply
  <2>6. AllApply'
    BY <2>3, <2>5 DEF AllApply, Applies, Fits
  <2> QED
    BY <1>1, <2>6 DEF StreamsInv, Types
<1> QED
  BY <1>2, <1>3 DEF SendTx

\* A message is composed for a pair none of whose messages are in the mempool.
LEMMA ComposeKeeps ==
  ASSUME StreamsInv, NEW h \in Handlers, NEW from \in {"flow", "stream"}, NEW deposit,
         NEW op \in RandomOps \cup {CREATE}, Compose(h, from, op, deposit),
         op = CREATE => deposit # "some",
         UNCHANGED <<streamDenom, pending, mempool, chainHeight, streams, rejected>>
  PROVE  StreamsInv'
<1>1. pc[h] = from /\ Busy(h)
  BY DEF Compose, Goto, Busy
<1>2. ~pending /\ \A g \in Handlers : g # h => pc[g] = "idle"
  BY <1>1, BusyAlone
<1>3. /\ pc' = [pc EXCEPT ![h] = "send"] /\ at' = at /\ streamFlow' = streamFlow
      /\ msg' = [msg EXCEPT ![h] = Message(h, op)]
      /\ stream' = [stream EXCEPT ![h] = deposit]
  BY DEF Compose, Goto
<1>4. Message(h, op) \in Messages
  BY DEF Message, Messages, StreamsInv, Types, RandomOps, Ops
<1>5. pc'[h] = "send" /\ msg'[h] = Message(h, op) /\ stream'[h] = deposit
  BY <1>3 DEF StreamsInv, Types
<1>6. \A g \in Handlers : g # h => pc'[g] = "idle"
  BY <1>2, <1>3
<1>7. Types'
  BY <1>3, <1>4, <1>5, <1>6 DEF StreamsInv, Types
<1>8. Alone'
  BY <1>2, <1>5, <1>6 DEF Alone, Busy
<1>9. DenomOfNext'
  <2>1. Message(h, op).denom = streamDenom /\ Message(h, op).pair = at[h]
    BY DEF Message
  <2>2. \A g \in Handlers : pc'[g] \in {"send", "claim"} => g = h
    BY <1>6
  <2> QED
    BY <1>3, <1>5, <2>1, <2>2 DEF StreamsInv, DenomOfNext
<1>10. Composed'
  BY <1>1, <1>3, <1>5, <1>6
     DEF StreamsInv, Composed, Busy, Message, RandomOps, CREATE, CLAIM, TOPUP, UPDATE_FLOW, CANCEL
<1>11. AllApply'
  BY DEF StreamsInv, AllApply, Applies, Fits
<1> QED
  BY <1>7, <1>8, <1>9, <1>10, <1>11 DEF StreamsInv

\* The claim follows a message of the same pair that leaves its stream, or none.
LEMMA ThenClaimKeeps ==
  ASSUME StreamsInv, NEW h \in Handlers, NEW from \in {"stream", "send"}, NEW op, NEW deposit,
         ThenClaim(h, from, op, deposit),
         UNCHANGED <<streamDenom, pending, chainHeight, streams, rejected>>,
         mempool' \subseteq Messages, AllApply', \A m \in mempool' : m.pair <= at[h],
         ClaimDue(h, op, deposit) =>
           \A m \in mempool' : m.pair = at[h] => m.op \in {TOPUP, UPDATE_FLOW}
  PROVE  StreamsInv'
<1>1. pc[h] = from /\ Busy(h) /\ at[h] \in Pairs
  BY DEF ThenClaim, ToPair, Goto, Busy, StreamsInv, Types
<1>2. ~pending /\ \A g \in Handlers : g # h => pc[g] = "idle"
  BY <1>1, BusyAlone
<1>3. CASE ~ClaimDue(h, op, deposit)
  <2>1. at[h] + 1 \in Nat \ {0} /\ ToPair(h, from, at[h] + 1)
    BY <1>1, <1>3, Constants DEF Pairs, ThenClaim
  <2>2. \A m \in mempool' : m.pair < at[h] + 1
    BY <1>1, Constants DEF Pairs, Messages
  <2> QED
    BY <1>1, <2>1, <2>2, ToPairKeeps
<1>4. CASE ClaimDue(h, op, deposit)
  <2>1. /\ pc' = [pc EXCEPT ![h] = "claim"] /\ at' = at /\ streamFlow' = streamFlow
        /\ msg' = [msg EXCEPT ![h] = Message(h, CLAIM)]
        /\ stream' = [stream EXCEPT ![h] = deposit]
    BY <1>4 DEF ThenClaim, Goto, ClaimMessage
  <2>2. Message(h, CLAIM) \in Messages
    BY DEF Message, Messages, StreamsInv, Types, Ops
  <2>3. pc'[h] = "claim" /\ msg'[h] = Message(h, CLAIM)
    BY <2>1 DEF StreamsInv, Types
  <2>4. \A g \in Handlers : g # h => pc'[g] = "idle"
    BY <1>2, <2>1
  <2>5. Types'
    BY <2>1, <2>2, <2>3, <2>4 DEF StreamsInv, Types
  <2>6. Alone'
    BY <1>2, <2>3, <2>4 DEF Alone, Busy
  <2>7. DenomOfNext'
    <3>1. Message(h, CLAIM).denom = streamDenom /\ Message(h, CLAIM).pair = at[h]
      BY DEF Message
    <3>2. \A g \in Handlers : pc'[g] \in {"send", "claim"} => g = h
      BY <2>4
    <3> QED
      BY <2>1, <2>3, <3>1, <3>2 DEF StreamsInv, DenomOfNext
  <2>8. Composed'
    <3>1. Message(h, CLAIM).op = CLAIM
      BY DEF Message
    <3>2. ASSUME NEW m \in mempool'
          PROVE  m.pair < at[h] \/ (m.pair = at[h] /\ m.op \in {TOPUP, UPDATE_FLOW})
      BY <1>1, <1>4, Constants DEF Pairs, Messages
    <3> QED
      BY <2>1, <2>3, <2>4, <3>1, <3>2 DEF Composed, Busy
  <2> QED
    BY <2>5, <2>6, <2>7, <2>8 DEF StreamsInv
<1> QED
  BY <1>3, <1>4

\* Before the sender's message of a pair is sent, its messages are those of earlier pairs.
LEMMA EarlierPairs ==
  ASSUME StreamsInv, NEW h \in Handlers, pc[h] \in {"flow", "stream", "send"}
  PROVE  \A m \in mempool : m.pair < at[h]
BY DEF StreamsInv, Composed, Busy

\* A handler's step, up to the next await.
LEMMA HandlerStep ==
  ASSUME StreamsInv, NEW h \in Handlers, Handler(h)
  PROVE  StreamsInv'
<1>1. CASE OnFundBlock(h)
  <2>1. /\ pending /\ ~pending' /\ pc' = [pc EXCEPT ![h] = "started"]
        /\ streamDenom' = IF chainHeight + 1 >= UpgradeHeight THEN "nund" ELSE ""
        /\ UNCHANGED <<at, streamFlow, stream, msg, mempool, chainHeight, streams, rejected>>
    BY <1>1 DEF OnFundBlock, Goto, localVars, chainVars
  <2>2. mempool = {} /\ \A g \in Handlers : pc[g] = "idle"
    BY <2>1 DEF StreamsInv, Alone, Busy
  <2>3. Types'
    BY <2>1, <2>2 DEF StreamsInv, Types, Denoms
  <2>4. Alone' /\ DenomOfNext'
    <3>1. \A g \in Handlers : pc'[g] # "idle" => g = h /\ pc'[g] = "started"
      BY <2>1, <2>2 DEF StreamsInv, Types
    <3>2. Alone'
      BY <2>1, <2>2, <3>1 DEF Alone, Busy
    <3>3. DenomOfNext'
      BY <2>1, <3>1 DEF DenomOfNext
    <3> QED
      BY <3>2, <3>3
  <2>5. Composed' /\ AllApply'
    BY <2>1, <2>2 DEF StreamsInv, Types, Composed, AllApply, Busy
  <2> QED
    BY <2>1, <2>3, <2>4, <2>5 DEF StreamsInv
<1>2. CASE RunStreamTxs(h)
  <2>1. /\ ToPair(h, "started", 1) /\ Busy(h) /\ mempool = {}
        /\ UNCHANGED <<streamDenom, pending, mempool, chainHeight, streams, rejected>>
    BY <1>2 DEF RunStreamTxs, runnerVars, chainVars, ToPair, Goto, Busy, StreamsInv, Alone
  <2> QED
    BY <2>1, ToPairKeeps DEF AllApply
<1>3. CASE AnswerFlow(h)
  <2>1. UNCHANGED <<streamDenom, pending, mempool, chainHeight, streams, rejected>>
    BY <1>3 DEF AnswerFlow, chainVars
  <2>2. CASE Compose(h, "flow", CREATE, Null)
    BY <2>1, <2>2, ComposeKeeps DEF Null
  <2>3. CASE /\ Goto(h, "flow", "stream")
             /\ streamFlow' = [streamFlow EXCEPT
                                 ![h] = IF streams[at[h]] = "flowing" THEN "some" ELSE "zero"]
             /\ UNCHANGED <<at, stream, msg>>
    <3>1. pc[h] = "flow" /\ pc' = [pc EXCEPT ![h] = "stream"]
      BY <2>3 DEF Goto
    <3>2. Types'
      BY <2>1, <2>3, <3>1 DEF StreamsInv, Types
    <3>3. Alone' /\ DenomOfNext'
      BY <2>1, <2>3, <3>1 DEF StreamsInv, Types, Alone, DenomOfNext, Busy
    <3>4. Composed'
      BY <2>1, <2>3, <3>1 DEF StreamsInv, Types, Composed, Busy
    <3>5. AllApply'
      BY <2>1 DEF StreamsInv, AllApply, Applies, Fits
    <3> QED
      BY <2>1, <3>2, <3>3, <3>4, <3>5 DEF StreamsInv
  <2> QED
    BY <1>3, <2>2, <2>3 DEF AnswerFlow, ForceCreate
<1>4. CASE AnswerStream(h)
  <2>1. /\ pc[h] = "stream"
        /\ UNCHANGED <<streamDenom, pending, mempool, chainHeight, streams, rejected>>
    BY <1>4 DEF AnswerStream, chainVars
  <2>2. PICK deposit \in {"zero", "some"}, op \in RandomOps \cup {Null} :
          \/ Compose(h, "stream", CREATE, Null)
          \/ Compose(h, "stream", TOPUP, deposit)
          \/ op = Null /\ ThenClaim(h, "stream", op, deposit)
          \/ op # Null /\ Compose(h, "stream", op, deposit)
    BY <1>4 DEF AnswerStream, ForceCreate
  <2>3. CASE Compose(h, "stream", CREATE, Null)
    BY <2>1, <2>3, ComposeKeeps DEF Null
  <2>4. CASE Compose(h, "stream", TOPUP, deposit)
    BY <2>1, <2>4, ComposeKeeps DEF RandomOps, TOPUP, CREATE
  <2>5. CASE op # Null /\ Compose(h, "stream", op, deposit)
    <3>1. op \in RandomOps /\ op # CREATE
      BY <2>5 DEF RandomOps, TOPUP, UPDATE_FLOW, CANCEL, CREATE
    <3> QED
      BY <2>1, <2>5, <3>1, ComposeKeeps
  <2>6. CASE op = Null /\ ThenClaim(h, "stream", op, deposit)
    <3>1. \A m \in mempool' : m.pair <= at[h] /\ m.pair # at[h]
      BY <2>1, EarlierPairs, Constants DEF StreamsInv, Types, Messages, Pairs
    <3>2. mempool' \subseteq Messages /\ AllApply'
      BY <2>1 DEF StreamsInv, Types, AllApply, Applies, Fits
    <3> QED
      BY <2>1, <2>6, <3>1, <3>2, ThenClaimKeeps
  <2> QED
    BY <2>2, <2>3, <2>4, <2>5, <2>6
<1>5. CASE SendSender(h)
  <2>1. /\ pc[h] = "send" /\ SendTx(msg[h]) /\ ThenClaim(h, "send", msg[h].op, stream[h])
        /\ UNCHANGED <<streamDenom, pending, chainHeight, streams, rejected>>
    BY <1>5 DEF SendSender, chainVars
  <2>2. mempool' \subseteq mempool \cup {msg[h]} /\ mempool' \subseteq Messages /\ AllApply'
    BY <2>1, SendKeeps
  <2>3. msg[h].pair = at[h] /\ msg[h] \in Messages
    BY <2>1 DEF StreamsInv, DenomOfNext, Types
  <2>4. \A m \in mempool' : m.pair <= at[h] /\ (m.pair = at[h] => m = msg[h])
    BY <2>1, <2>2, <2>3, EarlierPairs, Constants DEF Messages, Pairs
  <2>5. ClaimDue(h, msg[h].op, stream[h]) => msg[h].op \in {TOPUP, UPDATE_FLOW}
    BY <2>1, <2>3
       DEF ClaimDue, StreamsInv, Composed, Messages, Ops, RandomOps
  <2> QED
    BY <2>1, <2>2, <2>4, <2>5, ThenClaimKeeps
<1>6. CASE SendClaim(h)
  <2>1. /\ pc[h] = "claim" /\ SendTx(msg[h]) /\ ToPair(h, "claim", at[h] + 1)
        /\ UNCHANGED <<streamDenom, pending, chainHeight, streams, rejected>>
    BY <1>6 DEF SendClaim, chainVars
  <2>2. mempool' \subseteq mempool \cup {msg[h]} /\ mempool' \subseteq Messages /\ AllApply'
    BY <2>1, SendKeeps
  <2>3. Busy(h) /\ at[h] \in Pairs /\ msg[h].pair = at[h]
    BY <2>1 DEF Busy, StreamsInv, Types, DenomOfNext
  <2>4. \A m \in mempool : m.pair < at[h] \/ m.pair = at[h]
    BY <2>3 DEF StreamsInv, Composed
  <2>5. at[h] + 1 \in Nat \ {0} /\ \A m \in mempool' : m.pair < at[h] + 1
    BY <2>2, <2>3, <2>4, Constants DEF Messages, Pairs
  <2> QED
    BY <2>1, <2>2, <2>3, <2>5, ToPairKeeps
<1> QED
  BY <1>1, <1>2, <1>3, <1>4, <1>5, <1>6 DEF Handler

---------------------------------------------------------------------------
(* The chain's other steps, and the theorem. *)

\* A block starts with nothing left to execute.
LEMMA NewBlockKeeps ==
  ASSUME Prompt, StreamsInv, NewBlock
  PROVE  StreamsInv'
<1>1. /\ mempool' = {} /\ pending' /\ \A h \in Handlers : pc[h] = "idle"
      /\ UNCHANGED <<streamDenom, pc, at, streamFlow, stream, msg, streams, rejected>>
  BY DEF NewBlock, Settled, runnerVars, localVars
<1>2. chainHeight' \in Nat
  BY Constants DEF NewBlock, StreamsInv, Types
<1>3. Types'
  BY <1>1, <1>2 DEF StreamsInv, Types
<1>4. Alone' /\ DenomOfNext' /\ Composed' /\ AllApply'
  BY <1>1 DEF Alone, DenomOfNext, Composed, AllApply, Busy
<1> QED
  BY <1>1, <1>3, <1>4 DEF StreamsInv

\* A claim, a top-up, an update or a cancel of a stream that has run out still succeeds.
LEMMA DrainKeeps ==
  ASSUME StreamsInv, NEW p \in Pairs, Drain(p)
  PROVE  StreamsInv'
<1>1. /\ streams[p] = "flowing" /\ streams' = [streams EXCEPT ![p] = "ended"]
      /\ UNCHANGED <<streamDenom, pc, at, streamFlow, stream, msg, pending, mempool,
                     chainHeight, rejected>>
  BY DEF Drain, runnerVars, localVars
<1>2. Types' /\ Alone' /\ DenomOfNext' /\ Composed'
  BY <1>1 DEF StreamsInv, Types, StreamStates, Alone, DenomOfNext, Composed, Busy
<1>3. ASSUME NEW m \in mempool, Applies(m, chainHeight + 1)
      PROVE  Applies(m, chainHeight + 1)'
  BY <1>1, <1>3 DEF StreamsInv, Types, Messages, Applies, Fits, CREATE, CLAIM
<1>4. AllApply'
  BY <1>1, <1>3 DEF StreamsInv, AllApply
<1> QED
  BY <1>1, <1>2, <1>4 DEF StreamsInv

\* Every step.
LEMMA StreamsNext ==
  ASSUME Prompt, StreamsInv, [Next]_vars
  PROVE  StreamsInv'
<1>1. CASE \E h \in Handlers : Handler(h)
  BY <1>1, HandlerStep
<1>2. CASE \E m \in mempool : Execute(m)
  BY <1>2, ExecuteApplies
<1>3. CASE NewBlock
  BY <1>3, NewBlockKeeps
<1>4. CASE \E p \in Pairs : Drain(p)
  BY <1>4, DrainKeeps
<1>5. CASE UNCHANGED vars
  <2>1. UNCHANGED <<streamDenom, pc, at, streamFlow, stream, msg, pending, mempool, chainHeight,
                    streams, rejected>>
    BY <1>5 DEF vars, runnerVars, localVars, chainVars
  <2>2. Types' /\ Alone' /\ DenomOfNext' /\ Composed'
    BY <2>1 DEF StreamsInv, Types, Alone, DenomOfNext, Composed, Busy
  <2>3. AllApply'
    BY <2>1 DEF StreamsInv, AllApply, Applies, Fits
  <2> QED
    BY <2>1, <2>2, <2>3 DEF StreamsInv
<1> QED
  BY <1>1, <1>2, <1>3, <1>4, <1>5 DEF Next

\* While handlers are done, and their messages in a block, before the next block is made, no
\* stream message fails in its block (runStreamTxs and what it makes of its two lookups): for
\* any number of pairs, faults and heights, and across the upgrade.
THEOREM StreamsNothingRejected ==
  ASSUME Prompt
  PROVE  Spec => []NothingRejected
<1>1. StreamsInv /\ [Next]_vars => StreamsInv'
  BY StreamsNext
<1>2. StreamsInv => NothingRejected
  BY DEF StreamsInv, NothingRejected
<1> QED
  BY StreamsInit, <1>1, <1>2, PTL DEF Spec

---------------------------------------------------------------------------
(* The types, however the blocks and the handlers overlap. *)

\* What a handler's await is about.
HeldBy(h) ==
  /\ IF pc[h] \in {"send", "claim"} THEN msg[h] \in Messages ELSE msg[h] = NoMsg
  /\ pc[h] = "claim" => msg[h].op = CLAIM /\ streamFlow[h] = "some" /\ stream[h] = "some"

HandlersOK ==
  /\ pc \in [Handlers -> {"idle", "started", "flow", "stream", "send", "claim"}]
  /\ at \in [Handlers -> Pairs]
  /\ streamKey \in [Handlers -> Denoms]
  /\ streamFlow \in [Handlers -> Answers]
  /\ stream \in [Handlers -> Answers]
  /\ DOMAIN msg = Handlers
  /\ \A h \in Handlers : HeldBy(h)

Listed(ops) == \E n \in 0 .. 3 : ops = SubSeq(ValidRandomMsgTypes, n + 1, 3)

StaticsOK == streamDenom \in Denoms /\ Listed(uncoveredOps)

SentOK == sent \subseteq Ops /\ mempool \subseteq Messages /\ faults \in 0 .. MaxFaults

ChainOK ==
  /\ chainHeight \in 0 .. MaxHeight
  /\ streams \in [Pairs -> StreamStates]
  /\ landed \in [Ops -> SUBSET {"before", "after"}]

FlagsOK == pending \in BOOLEAN /\ rejected \in BOOLEAN /\ lost \in BOOLEAN

StreamTypes == HandlersOK /\ StaticsOK /\ SentOK /\ ChainOK /\ FlagsOK

\* The parts are the type invariant.
LEMMA StreamTypesOK == StreamTypes => TypeOK
<1> SUFFICES ASSUME StreamTypes PROVE TypeOK
  OBVIOUS
<1>1. {pending, rejected, lost} \subseteq BOOLEAN
  BY Zenon DEF StreamTypes, FlagsOK
<1>2. \A m : m \in Messages => IsMessage(m)
  BY DEF IsMessage, Messages, Denoms
<1>3. /\ streamDenom \in {"", "nund"}
      /\ \E n \in 0 .. 3 : uncoveredOps = SubSeq(ValidRandomMsgTypes, n + 1, 3)
  BY Zenon DEF StreamTypes, StaticsOK, Listed, Denoms
<1>4. /\ pc \in [Handlers -> {"idle", "started", "flow", "stream", "send", "claim"}]
      /\ at \in [Handlers -> Pairs]
      /\ streamKey \in [Handlers -> {"", "nund"}]
      /\ streamFlow \in [Handlers -> {Null, "zero", "some"}]
      /\ stream \in [Handlers -> {Null, "zero", "some"}]
  BY Zenon DEF StreamTypes, HandlersOK, Denoms, Answers
<1>5. /\ \A h \in Handlers :
           IF pc[h] \in {"send", "claim"} THEN IsMessage(msg[h]) ELSE msg[h] = NoMsg
      /\ \A h \in Handlers :
           pc[h] = "claim" => msg[h].op = CLAIM /\ streamFlow[h] = "some" /\ stream[h] = "some"
  BY <1>2, Zenon DEF StreamTypes, HandlersOK, HeldBy
<1>6. /\ chainHeight \in 0 .. MaxHeight
      /\ streams \in [Pairs -> {"none", "flowing", "ended", "empty"}]
      /\ landed \in [Ops -> SUBSET {"before", "after"}]
  BY Zenon DEF StreamTypes, ChainOK, StreamStates
<1>7. (\A m \in mempool : IsMessage(m)) /\ sent \subseteq Ops /\ faults \in 0 .. MaxFaults
  BY <1>2, Zenon DEF StreamTypes, SentOK
<1> QED
  BY <1>1, <1>3, <1>4, <1>5, <1>6, <1>7, Zenon DEF TypeOK

\* The list as it is when it has just been renewed.
LEMMA WholeList == Listed(ValidRandomMsgTypes)
<1>1. ValidRandomMsgTypes = SubSeq(ValidRandomMsgTypes, 0 + 1, 3)
  BY DEF ValidRandomMsgTypes
<1> QED
  BY <1>1 DEF Listed

\* The list without its first operation.
LEMMA TailListed ==
  ASSUME NEW ops, Listed(ops), ops # <<>>
  PROVE  Listed(Tail(ops))
<1>1. PICK n \in 0 .. 3 : ops = SubSeq(ValidRandomMsgTypes, n + 1, 3)
  BY DEF Listed
<1>2. n \in 0 .. 2
  BY <1>1 DEF ValidRandomMsgTypes
<1>3. Tail(SubSeq(ValidRandomMsgTypes, n + 1, 3)) = SubSeq(ValidRandomMsgTypes, (n + 1) + 1, 3)
  <2>1. CASE n = 0
    BY <2>1 DEF ValidRandomMsgTypes
  <2>2. CASE n = 1
    BY <2>2 DEF ValidRandomMsgTypes
  <2>3. CASE n = 2
    BY <2>3 DEF ValidRandomMsgTypes
  <2> QED
    BY <1>2, <2>1, <2>2, <2>3
<1>4. n + 1 \in 0 .. 3
  BY <1>2
<1> QED
  BY <1>1, <1>3, <1>4 DEF Listed

\* The first state has the types.
LEMMA StreamTypesInit == Init => StreamTypes
<1> SUFFICES ASSUME Init PROVE StreamTypes
  OBVIOUS
<1>1. 1 \in Pairs /\ 0 \in 0 .. MaxHeight /\ 0 \in 0 .. MaxFaults
  BY Constants, StreamsAssumption DEF Pairs
<1>2. HandlersOK
  BY <1>1 DEF Init, HandlersOK, HeldBy, Denoms, Answers
<1>3. StaticsOK
  BY WholeList DEF Init, StaticsOK, Denoms
<1>4. SentOK /\ ChainOK
  BY <1>1 DEF Init, SentOK, ChainOK, StreamStates
<1>5. FlagsOK
  BY Zenon DEF Init, FlagsOK
<1> QED
  BY <1>2, <1>3, <1>4, <1>5 DEF StreamTypes

---------------------------------------------------------------------------
(* What each part of a handler's step keeps. *)

\* The handler's part, of another handler.
LEMMA HeldByOthers ==
  ASSUME HandlersOK, NEW h \in Handlers, NEW g \in Handlers, g # h,
         pc'[g] = pc[g], msg'[g] = msg[g], streamFlow'[g] = streamFlow[g], stream'[g] = stream[g]
  PROVE  HeldBy(g)'
BY DEF HandlersOK, HeldBy

\* A handler that comes to a pair, or to the end of them.
LEMMA ToPairTyped ==
  ASSUME HandlersOK, streamDenom \in Denoms, NEW h \in Handlers, NEW from, NEW p \in Nat \ {0},
         ToPair(h, from, p)
  PROVE  HandlersOK'
<1>1. /\ pc' = [pc EXCEPT ![h] = IF p <= NumPairs THEN "flow" ELSE "idle"]
      /\ at' = [at EXCEPT ![h] = IF p <= NumPairs THEN p ELSE 1]
      /\ streamKey' = [streamKey EXCEPT ![h] = IF p <= NumPairs THEN streamDenom ELSE ""]
      /\ streamFlow' = [streamFlow EXCEPT ![h] = Null]
      /\ stream' = [stream EXCEPT ![h] = Null]
      /\ msg' = [msg EXCEPT ![h] = NoMsg]
  BY DEF ToPair, Goto, Key
<1>2. pc' \in [Handlers -> {"idle", "started", "flow", "stream", "send", "claim"}]
  BY <1>1 DEF HandlersOK
<1>3. at' \in [Handlers -> Pairs]
  <2>1. (IF p <= NumPairs THEN p ELSE 1) \in Pairs
    BY Constants DEF Pairs
  <2>2. at \in [Handlers -> Pairs]
    BY DEF HandlersOK
  <2> QED
    BY <1>1, <2>1, <2>2
<1>4. /\ streamKey' \in [Handlers -> Denoms]
      /\ streamFlow' \in [Handlers -> Answers]
      /\ stream' \in [Handlers -> Answers]
      /\ DOMAIN msg' = Handlers
  BY <1>1 DEF HandlersOK, Denoms, Answers
<1>5. HeldBy(h)'
  BY <1>1 DEF HandlersOK, HeldBy
<1>6. \A g \in Handlers : HeldBy(g)'
  <2>1. ASSUME NEW g \in Handlers, g # h PROVE HeldBy(g)'
    BY <1>1, <2>1, HeldByOthers DEF HandlersOK
  <2> QED
    BY <1>5, <2>1
<1> QED
  BY <1>2, <1>3, <1>4, <1>6 DEF HandlersOK

\* A handler that has composed a message, with or without what its lookup answered.
LEMMA AwaitsSendTyped ==
  ASSUME HandlersOK, NEW h \in Handlers, NEW to \in {"send", "claim"}, NEW m \in Messages,
         NEW deposit \in Answers,
         pc' = [pc EXCEPT ![h] = to], msg' = [msg EXCEPT ![h] = m],
         stream' = [stream EXCEPT ![h] = deposit], UNCHANGED <<at, streamKey, streamFlow>>,
         to = "claim" => m.op = CLAIM /\ streamFlow[h] = "some" /\ deposit = "some"
  PROVE  HandlersOK'
<1>1. /\ pc' \in [Handlers -> {"idle", "started", "flow", "stream", "send", "claim"}]
      /\ at' \in [Handlers -> Pairs]
      /\ streamKey' \in [Handlers -> Denoms]
      /\ streamFlow' \in [Handlers -> Answers]
      /\ stream' \in [Handlers -> Answers]
      /\ DOMAIN msg' = Handlers
  BY DEF HandlersOK
<1>2. HeldBy(h)'
  BY DEF HandlersOK, HeldBy
<1>3. \A g \in Handlers : HeldBy(g)'
  <2>1. ASSUME NEW g \in Handlers, g # h PROVE HeldBy(g)'
    BY <2>1, HeldByOthers DEF HandlersOK
  <2> QED
    BY <1>2, <2>1
<1> QED
  BY <1>1, <1>3 DEF HandlersOK

\* A message of the handler's, for the pair it is at.
LEMMA MessageTyped ==
  ASSUME HandlersOK, streamDenom \in Denoms, NEW h \in Handlers, NEW op \in Ops
  PROVE  Message(h, op) \in Messages /\ Message(h, op).op = op
BY DEF Message, Messages, HandlersOK

\* The sender's message is composed.
LEMMA ComposeTyped ==
  ASSUME HandlersOK, streamDenom \in Denoms, NEW h \in Handlers, NEW from, NEW op \in Ops,
         NEW deposit \in Answers, Compose(h, from, op, deposit)
  PROVE  HandlersOK'
<1>1. /\ pc' = [pc EXCEPT ![h] = "send"] /\ msg' = [msg EXCEPT ![h] = Message(h, op)]
      /\ stream' = [stream EXCEPT ![h] = deposit] /\ UNCHANGED <<at, streamKey, streamFlow>>
  BY DEF Compose, Goto
<1>2. "send" \in {"send", "claim"} /\ "send" # "claim"
  OBVIOUS
<1> QED
  BY <1>1, <1>2, MessageTyped, AwaitsSendTyped

\* The receiver claims, or the next pair's turn has come.
LEMMA ThenClaimTyped ==
  ASSUME HandlersOK, streamDenom \in Denoms, NEW h \in Handlers, NEW from, NEW op,
         NEW deposit \in Answers, ThenClaim(h, from, op, deposit)
  PROVE  HandlersOK'
<1>1. CASE ClaimDue(h, op, deposit)
  <2>1. /\ pc' = [pc EXCEPT ![h] = "claim"] /\ msg' = [msg EXCEPT ![h] = Message(h, CLAIM)]
        /\ stream' = [stream EXCEPT ![h] = deposit] /\ UNCHANGED <<at, streamKey, streamFlow>>
    BY <1>1 DEF ThenClaim, Goto, ClaimMessage
  <2>2. streamFlow[h] = "some" /\ deposit = "some"
    BY <1>1 DEF ClaimDue
  <2>3. CLAIM \in Ops /\ "claim" \in {"send", "claim"}
    BY DEF Ops
  <2> QED
    BY <2>1, <2>2, <2>3, MessageTyped, AwaitsSendTyped
<1>2. CASE ~ClaimDue(h, op, deposit)
  <2>1. at[h] + 1 \in Nat \ {0}
    BY Constants DEF HandlersOK, Pairs
  <2> QED
    BY <1>2, <2>1, ToPairTyped DEF ThenClaim
<1> QED
  BY <1>1, <1>2

\* A fault is counted up to its bound.
LEMMA FaultCounted ==
  ASSUME faults \in 0 .. MaxFaults, NEW kind, Fault(kind)
  PROVE  faults' \in 0 .. MaxFaults
BY StreamsAssumption DEF Fault

\* What is sent is a message.
LEMMA SendTxTyped ==
  ASSUME SentOK, FlagsOK, NEW m \in Messages, SendTx(m)
  PROVE  SentOK' /\ lost' \in BOOLEAN
<1>1. m.op \in Ops
  BY DEF Messages
<1>2. lost' \in BOOLEAN
  BY Zenon DEF SendTx, FlagsOK
<1>3. sent' \subseteq Ops /\ mempool' \subseteq Messages
  BY <1>1 DEF SendTx, SentOK
<1>4. faults' \in 0 .. MaxFaults
  BY FaultCounted DEF SendTx, SentOK
<1> QED
  BY <1>2, <1>3, <1>4 DEF SentOK

\* The flags and the chain are as they were.
LEMMA FlagsFrame ==
  ASSUME FlagsOK, UNCHANGED <<pending, rejected, lost>>
  PROVE  FlagsOK'
BY Zenon DEF FlagsOK

LEMMA ChainFrame ==
  ASSUME ChainOK, UNCHANGED <<chainHeight, streams, landed>>
  PROVE  ChainOK'
BY DEF ChainOK

LEMMA HandlersFrame ==
  ASSUME HandlersOK, UNCHANGED <<pc, at, streamKey, streamFlow, stream, msg>>
  PROVE  HandlersOK'
BY DEF HandlersOK, HeldBy

LEMMA StaticsFrame ==
  ASSUME StaticsOK, UNCHANGED <<streamDenom, uncoveredOps>>
  PROVE  StaticsOK'
BY DEF StaticsOK

---------------------------------------------------------------------------

\* A handler's step, up to the next await.
LEMMA HandlerTyped ==
  ASSUME StreamTypes, NEW h \in Handlers, Handler(h)
  PROVE  StreamTypes'
<1> USE DEF StreamTypes
<1>0. streamDenom \in Denoms
  BY DEF StaticsOK
<1>1. CASE OnFundBlock(h)
  <2>1. /\ pc[h] = "idle" /\ pc' = [pc EXCEPT ![h] = "started"] /\ pending' = FALSE
        /\ streamDenom' = IF chainHeight + 1 >= UpgradeHeight THEN "nund" ELSE ""
        /\ uncoveredOps' \in {ValidRandomMsgTypes, uncoveredOps}
        /\ sent' \in {{}, sent}
    BY <1>1 DEF OnFundBlock, Goto, Renewed
  <2>2. UNCHANGED <<at, streamKey, streamFlow, stream, msg, mempool, chainHeight, streams, landed,
                    rejected, lost, faults>>
    BY <1>1 DEF OnFundBlock, localVars, chainVars
  <2>3. HandlersOK'
    BY <2>1, <2>2 DEF HandlersOK, HeldBy
  <2>4. StaticsOK'
    BY <2>1, WholeList DEF StaticsOK, Denoms
  <2>5. SentOK'
    BY <2>1, <2>2 DEF SentOK
  <2>6. FlagsOK'
    BY <2>1, <2>2, Zenon DEF FlagsOK
  <2> QED
    BY <2>2, <2>3, <2>4, <2>5, <2>6, ChainFrame
<1>2. CASE RunStreamTxs(h)
  <2>1. /\ ToPair(h, "started", 1)
        /\ UNCHANGED <<streamDenom, uncoveredOps, sent, pending, mempool, chainHeight, streams,
                       landed, rejected, lost, faults>>
    BY <1>2 DEF RunStreamTxs, runnerVars, chainVars
  <2>2. SentOK'
    BY <2>1 DEF SentOK
  <2> QED
    BY <1>0, <2>1, <2>2, ToPairTyped, StaticsFrame, ChainFrame, FlagsFrame
<1>3. CASE AnswerFlow(h)
  <2>1. UNCHANGED <<streamDenom, uncoveredOps, sent, pending, mempool, chainHeight, streams, landed,
                    rejected, lost>>
    BY <1>3 DEF AnswerFlow, ForceCreate, chainVars
  <2>2. SentOK'
    <3>1. faults' \in 0 .. MaxFaults
      BY <1>3, FaultCounted DEF AnswerFlow, Throws, SentOK
    <3> QED
      BY <2>1, <3>1 DEF SentOK
  <2>3. HandlersOK'
    <3>1. CASE Compose(h, "flow", CREATE, Null)
      <4>1. CREATE \in Ops /\ Null \in Answers
        BY DEF Ops, Answers
      <4> QED
        BY <1>0, <3>1, <4>1, ComposeTyped
    <3>2. CASE /\ Goto(h, "flow", "stream")
               /\ streamFlow' = [streamFlow EXCEPT
                                   ![h] = IF streams[at[h]] = "flowing" THEN "some" ELSE "zero"]
               /\ UNCHANGED <<at, streamKey, stream, msg>>
      BY <3>2 DEF HandlersOK, HeldBy, Goto, Answers
    <3> QED
      BY <1>3, <3>1, <3>2 DEF AnswerFlow, ForceCreate
  <2> QED
    BY <2>1, <2>2, <2>3, StaticsFrame, ChainFrame, FlagsFrame
<1>4. CASE AnswerStream(h)
  <2>1. UNCHANGED <<streamDenom, sent, pending, mempool, chainHeight, streams, landed, rejected,
                    lost>>
    BY <1>4 DEF AnswerStream, chainVars
  <2>2. SentOK'
    <3>1. faults' \in 0 .. MaxFaults
      BY <1>4, FaultCounted DEF AnswerStream, Throws, SentOK
    <3> QED
      BY <2>1, <3>1 DEF SentOK
  <2>3. PICK deposit \in {"zero", "some"}, op \in RandomOps \cup {Null} :
          \/ Compose(h, "stream", CREATE, Null)
          \/ Compose(h, "stream", TOPUP, deposit)
          \/ ThenClaim(h, "stream", op, deposit)
          \/ op # Null /\ Compose(h, "stream", op, deposit)
    BY <1>4 DEF AnswerStream, ForceCreate
  <2>4. /\ {CREATE, TOPUP} \subseteq Ops /\ {Null, deposit} \subseteq Answers
        /\ op # Null => op \in Ops
    BY DEF Ops, RandomOps, Answers
  <2>5. HandlersOK'
    BY <1>0, <2>3, <2>4, ComposeTyped, ThenClaimTyped
  <2>6. \/ uncoveredOps' = uncoveredOps
        \/ uncoveredOps # <<>> /\ uncoveredOps' = Tail(uncoveredOps)
    BY <1>4 DEF AnswerStream, ForceCreate, RandomOp
  <2>7. StaticsOK'
    BY <2>1, <2>6, TailListed DEF StaticsOK
  <2> QED
    BY <2>1, <2>2, <2>5, <2>7, ChainFrame, FlagsFrame
<1>5. CASE SendSender(h) \/ SendClaim(h)
  <2>1. /\ pc[h] \in {"send", "claim"} /\ SendTx(msg[h])
        /\ UNCHANGED <<streamDenom, uncoveredOps, pending, chainHeight, streams, landed, rejected>>
    BY <1>5 DEF SendSender, SendClaim, chainVars
  <2>2. msg[h] \in Messages
    BY <2>1 DEF HandlersOK, HeldBy
  <2>3. SentOK' /\ lost' \in BOOLEAN
    BY <2>1, <2>2, SendTxTyped
  <2>4. stream[h] \in Answers /\ at[h] + 1 \in Nat \ {0}
    BY Constants DEF HandlersOK, Pairs
  <2>5. HandlersOK'
    BY <1>0, <1>5, <2>4, ThenClaimTyped, ToPairTyped DEF SendSender, SendClaim
  <2>6. FlagsOK'
    BY <2>1, <2>3, Zenon DEF FlagsOK
  <2> QED
    BY <2>1, <2>3, <2>5, <2>6, StaticsFrame, ChainFrame
<1> QED
  BY <1>1, <1>2, <1>3, <1>4, <1>5 DEF Handler

\* A tx of the block being made.
LEMMA ExecuteTyped ==
  ASSUME StreamTypes, NEW m \in mempool, Execute(m)
  PROVE  StreamTypes'
<1> USE DEF StreamTypes
<1>1. /\ mempool' = mempool \ {m}
      /\ UNCHANGED <<streamDenom, uncoveredOps, sent, pc, at, streamKey, streamFlow, stream, msg,
                     pending, chainHeight, lost, faults>>
  BY DEF Execute, runnerVars, localVars
<1>2. m \in Messages
  BY DEF SentOK
<1>3. SentOK'
  BY <1>1 DEF SentOK
<1>4. rejected' \in BOOLEAN
  BY Zenon DEF Execute, FlagsOK
<1>5. FlagsOK'
  BY <1>1, <1>4, Zenon DEF FlagsOK
<1>6. ChainOK'
  <2>1. CASE UNCHANGED <<streams, landed>>
    BY <1>1, <2>1, ChainFrame
  <2>2. CASE /\ streams' = [streams EXCEPT ![m.pair] = Effect(m)]
             /\ landed' = [landed EXCEPT ![m.op] = @ \cup {Side(chainHeight + 1, UpgradeHeight)}]
    <3>1. Effect(m) \in StreamStates
      BY <1>2 DEF Effect, Messages, ChainOK, StreamStates
    <3>2. Side(chainHeight + 1, UpgradeHeight) \in {"before", "after"}
      BY DEF Side
    <3>3. streams' \in [Pairs -> StreamStates]
      BY <2>2, <3>1 DEF ChainOK
    <3>4. landed' \in [Ops -> SUBSET {"before", "after"}]
      BY <1>2, <2>2, <3>2 DEF ChainOK, Messages
    <3> QED
      BY <1>1, <3>3, <3>4 DEF ChainOK
  <2> QED
    BY <2>1, <2>2 DEF Execute
<1> QED
  BY <1>1, <1>3, <1>5, <1>6, HandlersFrame, StaticsFrame

\* The block is made, or a deposit runs out.
LEMMA ChainTyped ==
  ASSUME StreamTypes, NewBlock \/ \E p \in Pairs : Drain(p)
  PROVE  StreamTypes'
<1> USE DEF StreamTypes
<1>1. UNCHANGED <<streamDenom, uncoveredOps, sent, pc, at, streamKey, streamFlow, stream, msg,
                  landed, rejected>>
  BY DEF NewBlock, Drain, runnerVars, localVars
<1>2. faults' \in 0 .. MaxFaults
  BY FaultCounted DEF NewBlock, Drain, SentOK
<1>3. mempool' \in {mempool, {}}
  BY DEF NewBlock, Drain
<1>4. SentOK'
  BY <1>1, <1>2, <1>3 DEF SentOK
<1>5. pending' \in BOOLEAN /\ lost' \in BOOLEAN
  BY Zenon DEF NewBlock, Drain, FlagsOK
<1>6. FlagsOK'
  BY <1>1, <1>5, Zenon DEF FlagsOK
<1>7. chainHeight' \in 0 .. MaxHeight
  BY Constants DEF NewBlock, Drain, ChainOK
<1>8. streams' \in [Pairs -> StreamStates]
  BY DEF NewBlock, Drain, ChainOK, StreamStates
<1>9. ChainOK'
  BY <1>1, <1>7, <1>8 DEF ChainOK
<1> QED
  BY <1>1, <1>4, <1>6, <1>9, HandlersFrame, StaticsFrame

\* The types hold whatever the number of pairs, handlers and faults, and with handlers of
\* several blocks in progress: a message is held exactly at a sendTx, a claim only after the
\* two lookups have found the stream funded, and what is left of the coverage list is always
\* its end (runStreamTxs, randomStreamSenderMsg, setStreamDenom).
THEOREM StreamsTypeOK == Spec => []TypeOK
<1>1. StreamTypes /\ [Next]_vars => StreamTypes'
  <2> SUFFICES ASSUME StreamTypes, [Next]_vars PROVE StreamTypes'
    OBVIOUS
  <2>1. CASE UNCHANGED vars
    <3>1. UNCHANGED <<streamDenom, uncoveredOps, sent, pc, at, streamKey, streamFlow, stream, msg,
                      pending, mempool, chainHeight, streams, landed, rejected, lost, faults>>
      BY <2>1 DEF vars, runnerVars, localVars, chainVars
    <3>2. SentOK'
      BY <3>1 DEF SentOK, StreamTypes
    <3> QED
      BY <3>1, <3>2, HandlersFrame, StaticsFrame, ChainFrame, FlagsFrame DEF StreamTypes
  <2> QED
    BY <2>1, HandlerTyped, ExecuteTyped, ChainTyped DEF Next
<1> QED
  BY StreamTypesInit, StreamTypesOK, <1>1, PTL DEF Spec
=============================================================================
