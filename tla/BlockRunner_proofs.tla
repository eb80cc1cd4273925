------------------------- MODULE BlockRunner_proofs -------------------------
(***************************************************************************)
(* For every configuration, every bound and any txs.                       *)
(*                                                                         *)
(* However many handlers overlap, however late block events arrive and     *)
(* whatever fails: the types; and no message of the new shape lands below  *)
(* the upgrade height.  While handlers do not overlap, every message has   *)
(* the shape of the block it lands in.  While one handler runs at a time   *)
(* and no answer of a broadcast is lost, a custom tx is sent once.  And if *)
(* besides no submission fails and voting takes more blocks than there may *)
(* be faults, every custom proposal ends as configured.                    *)
(***************************************************************************)
EXTENDS BlockRunner, SequenceTheorems, FiniteSetTheorems, TLAPS

\* The heights are numbers.
LEMMA HeightsAreNat == MaxHeight \in Nat /\ UpgradeHeight \in Nat
BY RunnerAssumption

\* Block n + 1 may include tx, and all of txs.
MayLand(tx, n) == tx.kind = "shaped" /\ tx.new => n + 1 >= UpgradeHeight
AllMayLand(txs, n) == \E S : txs \in Seq(S) /\ \A tx \in S : MayLand(tx, n)

\* The inductive strengthening: what a handler knows of the height is never ahead of the
\* chain, so neither is the shape it switched to, nor a message it composed.
NotAhead ==
  /\ chainHeight \in 0 .. MaxHeight
  /\ events \in Seq(0 .. chainHeight)
  /\ newShape \in BOOLEAN
  /\ newShape => chainHeight + 1 >= UpgradeHeight
  /\ composed \in [Handlers -> BOOLEAN]
  /\ \A h \in Handlers : composed[h] => chainHeight + 1 >= UpgradeHeight
  /\ AllMayLand(mempool, chainHeight)

\* What fits the next block fits the ones after it.
LEMMA HigherLands ==
  ASSUME NEW m \in Nat, NEW n \in Nat, m <= n, m + 1 >= UpgradeHeight
  PROVE  n + 1 >= UpgradeHeight
BY HeightsAreNat

\* A message that fits joins others that do.
LEMMA AppendLands ==
  ASSUME NEW txs, NEW tx, NEW n, AllMayLand(txs, n), MayLand(tx, n)
  PROVE  AllMayLand(Append(txs, tx), n)
<1>1. PICK S : txs \in Seq(S) /\ \A t \in S : MayLand(t, n)
  BY DEF AllMayLand
<1>2. txs \in Seq(S \cup {tx})
  BY <1>1, SeqMonotonic
<1>3. Append(txs, tx) \in Seq(S \cup {tx})
  BY <1>2
<1>4. \A t \in S \cup {tx} : MayLand(t, n)
  BY <1>1
<1> QED
  BY <1>3, <1>4 DEF AllMayLand

\* A block takes a prefix and only raises the height.
LEMMA SuffixLands ==
  ASSUME NEW txs, NEW n \in Nat, NEW next \in Nat, NEW k \in 0 .. Len(txs),
         n <= next, AllMayLand(txs, n)
  PROVE  AllMayLand(SubSeq(txs, k + 1, Len(txs)), next)
<1>1. PICK S : txs \in Seq(S) /\ \A t \in S : MayLand(t, n)
  BY DEF AllMayLand
<1>2. SubSeq(txs, k + 1, Len(txs)) \in Seq(S)
  <2>1. Len(txs) \in Nat /\ \A i \in 1 .. Len(txs) : txs[i] \in S
    BY <1>1
  <2>2. \A i \in k + 1 .. Len(txs) : txs[i] \in S
    BY <2>1
  <2> QED
    BY <2>1, <2>2, SubSeqProperties
<1>3. \A t \in S : MayLand(t, next)
  BY <1>1, HeightsAreNat DEF MayLand
<1> QED
  BY <1>2, <1>3 DEF AllMayLand

\* An empty mempool holds nothing that is early.
LEMMA EmptyLands == ASSUME NEW n PROVE AllMayLand(<<>>, n)
<1>1. \A S : S = {} => <<>> \in Seq(S) /\ \A tx \in S : MayLand(tx, n)
  OBVIOUS
<1>2. \E S : S = {}
  OBVIOUS
<1>3. \E S : <<>> \in Seq(S) /\ \A tx \in S : MayLand(tx, n)
  BY <1>1, <1>2
<1> QED
  BY <1>3 DEF AllMayLand

\* A tx sent either way joins the mempool or does not.
LEMMA SentLands ==
  ASSUME NEW h, NEW tx, MayLand(tx, chainHeight), AllMayLand(mempool, chainHeight),
         Cli(h, tx) \/ SendTx(tx)
  PROVE  AllMayLand(mempool', chainHeight)
<1>1. mempool' = Append(mempool, tx) \/ mempool' = mempool
  BY Zenon DEF Cli, SendTx
<1> QED
  BY <1>1, AppendLands

\* At genesis nothing has the new shape.
LEMMA InitNotAhead == Init => NotAhead
<1> SUFFICES ASSUME Init PROVE NotAhead
  OBVIOUS
<1>1. chainHeight \in 0 .. MaxHeight /\ events \in Seq(0 .. chainHeight)
  BY HeightsAreNat DEF Init
<1>2. AllMayLand(mempool, chainHeight)
  BY EmptyLands DEF Init
<1> QED
  BY <1>1, <1>2 DEF Init, NotAhead

\* A handler knows no height that the chain has not reached.
LEMMA HandlerNotAhead ==
  ASSUME NotAhead, NEW h \in Handlers, HandlerStep(h)
  PROVE  NotAhead'
<1> USE DEF runnerVars, localVars, chainVars
<1>1. CASE OnFundBlock(h)
  <2>1. Head(events) \in 0 .. chainHeight /\ Tail(events) \in Seq(0 .. chainHeight)
    BY <1>1 DEF NotAhead, OnFundBlock
  <2>2. newShape' \in BOOLEAN /\ (newShape' => chainHeight + 1 >= UpgradeHeight)
    BY <1>1, <2>1, HeightsAreNat DEF NotAhead, OnFundBlock, NextBlockUpgraded
  <2>3. events' = Tail(events) /\ UNCHANGED <<chainHeight, composed, mempool>>
    BY <1>1 DEF OnFundBlock
  <2> QED
    BY <2>1, <2>2, <2>3 DEF NotAhead
<1>2. CASE SubmitCustomGov(h) \/ SubmitCustomMsg(h) \/ SubmitUpgradeProposal(h)
           \/ SubmitNewProposal(h) \/ VoteOnProposal(h)
  <2>1. AllMayLand(mempool', chainHeight)
    <3>1. \A v, what : MayLand(GovTx(v, what), chainHeight)
      BY DEF MayLand, GovTx
    <3>2. \A m : MayLand(MsgTx(m), chainHeight)
      BY DEF MayLand, MsgTx
    <3>3. \A id, option : MayLand(VoteTx(id, option), chainHeight)
      BY DEF MayLand, VoteTx
    <3>4. AllMayLand(mempool, chainHeight)
      BY DEF NotAhead
    <3>5. CASE SubmitCustomGov(h)
      <4>1. PICK v \in Validators, i \in todo[h] : Cli(h, GovTx(v, i))
        BY <3>5 DEF SubmitCustomGov
      <4> QED
        BY <4>1, <3>1, <3>4, SentLands
    <3>6. CASE SubmitCustomMsg(h)
      <4>1. PICK i \in todo[h] : Cli(h, MsgTx(i))
        BY <3>6 DEF SubmitCustomMsg
      <4> QED
        BY <4>1, <3>2, <3>4, SentLands
    <3>7. CASE SubmitUpgradeProposal(h)
      <4>1. PICK v \in Validators : Cli(h, GovTx(v, Upgrade))
        BY <3>7 DEF SubmitUpgradeProposal
      <4> QED
        BY <4>1, <3>1, <3>4, SentLands
    <3>8. CASE SubmitNewProposal(h)
      <4>1. UNCHANGED mempool \/ \E v \in Validators : SendTx(GovTx(v, Text))
        BY <3>8 DEF SubmitNewProposal
      <4> QED
        BY <4>1, <3>1, <3>4, SentLands
    <3>9. CASE VoteOnProposal(h)
      <4>1. \E id, option : SendTx(VoteTx(id, option))
        BY <3>9 DEF VoteOnProposal
      <4> QED
        BY <4>1, <3>3, <3>4, SentLands
    <3> QED
      BY <1>2, <3>5, <3>6, <3>7, <3>8, <3>9
  <2>2. UNCHANGED <<chainHeight, events, newShape, composed>>
    BY <1>2 DEF SubmitCustomGov, SubmitCustomMsg, SubmitUpgradeProposal, SubmitNewProposal,
                VoteOnProposal
  <2> QED
    BY <2>1, <2>2 DEF NotAhead
<1>3. CASE StartCustomGov(h) \/ CustomGovAnswered(h) \/ StartCustomMsgs(h)
           \/ CustomMsgAnswered(h) \/ CustomMsgsDone(h) \/ ProposalSubmitted(h)
           \/ StartVotes(h) \/ VotesDone(h) \/ Others(h)
  <2>1. UNCHANGED <<chainHeight, events, newShape, composed, mempool>>
    BY <1>3 DEF StartCustomGov, CustomGovAnswered, StartCustomMsgs, CustomMsgAnswered,
                Answered, CustomMsgsDone, ProposalSubmitted, StartVotes, VotesDone, Others
  <2> QED
    BY <2>1 DEF NotAhead
<1>4. CASE Compose(h)
  BY <1>4 DEF NotAhead, Compose
<1>5. CASE Send(h)
  <2>1. MayLand(ShapedTx(composed[h]), chainHeight)
    BY DEF NotAhead, MayLand, ShapedTx
  <2>2. AllMayLand(mempool', chainHeight)
    BY <1>5, <2>1, SentLands DEF NotAhead, Send
  <2>3. UNCHANGED <<chainHeight, events, newShape>>
    BY <1>5 DEF Send
  <2>4. composed' = [composed EXCEPT ![h] = FALSE]
    BY <1>5 DEF Send
  <2> QED
    BY <2>2, <2>3, <2>4 DEF NotAhead
<1> QED
  BY <1>1, <1>2, <1>3, <1>4, <1>5 DEF HandlerStep

\* A block takes a prefix of the mempool and raises the height.
LEMMA BlockNotAhead ==
  ASSUME NotAhead, NewBlock
  PROVE  NotAhead'
<1>1. /\ chainHeight' = IF chainHeight < MaxHeight THEN chainHeight + 1 ELSE MaxHeight
      /\ events' = <<chainHeight'>> \/ events' = <<>>
      /\ UNCHANGED <<newShape, composed>>
  BY DEF NewBlock, runnerVars, localVars
<1>2. chainHeight' \in 0 .. MaxHeight /\ chainHeight <= chainHeight'
  BY <1>1, HeightsAreNat DEF NotAhead
<1>3. AllMayLand(mempool', chainHeight')
  <2>1. \/ \E k \in 0 .. Len(mempool) : mempool' = SubSeq(mempool, k + 1, Len(mempool))
        \/ mempool' = <<>>
    BY DEF NewBlock
  <2>2. chainHeight \in Nat /\ chainHeight' \in Nat
    BY <1>2 DEF NotAhead
  <2>3. AllMayLand(mempool, chainHeight)
    BY DEF NotAhead
  <2>4. CASE \E k \in 0 .. Len(mempool) : mempool' = SubSeq(mempool, k + 1, Len(mempool))
    <3>1. PICK k \in 0 .. Len(mempool) : mempool' = SubSeq(mempool, k + 1, Len(mempool))
      BY <2>4
    <3>2. AllMayLand(SubSeq(mempool, k + 1, Len(mempool)), chainHeight')
      BY <1>2, <2>2, <2>3, SuffixLands
    <3> QED
      BY <3>1, <3>2
  <2>5. CASE mempool' = <<>>
    BY <2>5, EmptyLands
  <2> QED
    BY <2>1, <2>4, <2>5
<1>4. events' \in Seq(0 .. chainHeight')
  <2>1. \A S, x : x \in S => <<x>> \in Seq(S) /\ <<>> \in Seq(S)
    OBVIOUS
  <2>2. chainHeight' \in 0 .. chainHeight'
    BY <1>2
  <2> QED
    BY <1>1, <2>1, <2>2
<1>5. chainHeight + 1 >= UpgradeHeight => chainHeight' + 1 >= UpgradeHeight
  <2>1. chainHeight \in Nat /\ chainHeight' \in Nat
    BY <1>2 DEF NotAhead
  <2> QED
    BY <1>2, <2>1, HigherLands
<1> QED
  BY <1>1, <1>2, <1>3, <1>4, <1>5 DEF NotAhead

\* Each step keeps the invariant.
LEMMA NextNotAhead ==
  ASSUME NotAhead, [Next]_vars
  PROVE  NotAhead'
<1>1. CASE \E h \in Handlers : HandlerStep(h)
  BY <1>1, HandlerNotAhead
<1>2. CASE \E h \in Handlers : Abort(h)
  BY <1>2 DEF Abort, NotAhead, runnerVars, localVars, chainVars
<1>3. CASE NewBlock
  BY <1>3, BlockNotAhead
<1>4. CASE UNCHANGED vars
  BY <1>4 DEF NotAhead, vars, runnerVars, localVars, chainVars
<1> QED
  BY <1>1, <1>2, <1>3, <1>4 DEF Next

\* However block handlers overlap, whatever fails and whenever events arrive, a message of
\* the new shape cannot land in a block of the old binary (onFundBlock, setStreamDenom,
\* setBeaconMetadata: "switch one block early").
THEOREM RunnerNewShapeNeverEarly == Spec => []NewShapeNeverEarly
<1>1. Init => NotAhead
  BY InitNotAhead
<1>2. NotAhead /\ [Next]_vars => NotAhead'
  BY NextNotAhead
<1>3. NotAhead => NewShapeNeverEarly
  <2> SUFFICES ASSUME NotAhead, NEW k \in DOMAIN mempool
               PROVE  MayLand(mempool[k], chainHeight)
    BY DEF NewShapeNeverEarly, MayLand
  <2>1. PICK S : mempool \in Seq(S) /\ \A tx \in S : MayLand(tx, chainHeight)
    BY DEF NotAhead, AllMayLand
  <2> QED
    BY <2>1
<1> QED
  BY <1>1, <1>2, <1>3, PTL DEF Spec

---------------------------------------------------------------------------
(* Handlers that do not overlap. *)

\* Every message waiting has the shape the runner switched to.
OfShape(tx, new) == tx.kind = "shaped" => tx.new = new
AllOfShape(txs, new) == \E S : txs \in Seq(S) /\ \A tx \in S : OfShape(tx, new)

\* Between the handler of a block and the next block nothing is going on.
AtRest == mempool = <<>> /\ \A h \in Handlers : pc[h] = "idle"

\* The shape is that of the next block.
Fresh == newShape = (chainHeight + 1 >= UpgradeHeight)

\* The inductive strengthening: the shape is fresh unless the handler of this block has yet to
\* start; nobody is sending then, and nothing waits.
InStep ==
  /\ chainHeight \in Nat
  /\ pc \in [Handlers -> PcStates]
  /\ newShape \in BOOLEAN
  /\ DOMAIN composed = Handlers
  /\ Fresh \/ AtRest
  /\ events = <<>> \/ (events = <<chainHeight>> /\ AtRest)
  /\ \A h \in Handlers : pc[h] = "send" => composed[h] = newShape
  /\ AllOfShape(mempool, newShape)

LEMMA AppendOfShape ==
  ASSUME NEW txs, NEW tx, NEW new, AllOfShape(txs, new), OfShape(tx, new)
  PROVE  AllOfShape(Append(txs, tx), new)
<1>1. PICK S : txs \in Seq(S) /\ \A t \in S : OfShape(t, new)
  BY DEF AllOfShape
<1>2. txs \in Seq(S \cup {tx})
  BY <1>1, SeqMonotonic
<1>3. Append(txs, tx) \in Seq(S \cup {tx})
  BY <1>2
<1>4. \A t \in S \cup {tx} : OfShape(t, new)
  BY <1>1
<1> QED
  BY <1>3, <1>4 DEF AllOfShape

LEMMA EmptyOfShape == ASSUME NEW new PROVE AllOfShape(<<>>, new)
<1>1. \A S : S = {} => <<>> \in Seq(S) /\ \A tx \in S : OfShape(tx, new)
  OBVIOUS
<1>2. \E S : S = {}
  OBVIOUS
<1>3. \E S : <<>> \in Seq(S) /\ \A tx \in S : OfShape(tx, new)
  BY <1>1, <1>2
<1> QED
  BY <1>3 DEF AllOfShape

\* A tx sent either way joins the mempool or does not.
LEMMA SentOfShape ==
  ASSUME NEW h, NEW tx, OfShape(tx, newShape), AllOfShape(mempool, newShape),
         Cli(h, tx) \/ SendTx(tx)
  PROVE  AllOfShape(mempool', newShape)
<1>1. mempool' = Append(mempool, tx) \/ mempool' = mempool
  BY Zenon DEF Cli, SendTx
<1> QED
  BY <1>1, AppendOfShape

LEMMA InitInStep == Init => InStep
<1> SUFFICES ASSUME Init PROVE InStep
  OBVIOUS
<1>1. AtRest /\ AllOfShape(mempool, newShape)
  BY EmptyOfShape DEF Init, AtRest
<1>2. chainHeight \in Nat /\ newShape \in BOOLEAN /\ events = <<>>
  BY DEF Init
<1>3. /\ pc \in [Handlers -> PcStates] /\ DOMAIN composed = Handlers
      /\ \A h \in Handlers : pc[h] # "send"
  BY DEF Init, PcStates
<1> QED
  BY <1>1, <1>2, <1>3 DEF InStep

\* A handler under way that does not switch the shape keeps it fresh.
LEMMA StepInStep ==
  ASSUME InStep, NEW h \in Handlers, NEW to \in PcStates, pc[h] # "idle",
         pc' = [pc EXCEPT ![h] = to], UNCHANGED <<chainHeight, events, newShape>>,
         DOMAIN composed' = Handlers, \A g \in Handlers : g # h => composed'[g] = composed[g],
         to = "send" => composed'[h] = newShape,
         AllOfShape(mempool', newShape)
  PROVE  InStep'
<1>1. Fresh /\ events = <<>>
  BY DEF InStep, AtRest
<1>2. Fresh'
  BY <1>1 DEF Fresh
<1>3. pc' \in [Handlers -> PcStates]
  BY DEF InStep
<1>4. \A g \in Handlers : pc'[g] = "send" => composed'[g] = newShape
  BY DEF InStep
<1> QED
  BY <1>1, <1>2, <1>3, <1>4 DEF InStep

\* A handler's step.
LEMMA HandlerInStep ==
  ASSUME UpgradeHeight > 0, InStep, NEW h \in Handlers, HandlerStep(h) \/ Abort(h)
  PROVE  InStep'
<1> USE DEF runnerVars, localVars, chainVars
<1>1. CASE OnFundBlock(h)
  <2>1. events = <<chainHeight>> /\ AtRest /\ Head(events) = chainHeight /\ Tail(events) = <<>>
    <3>1. events = <<chainHeight>> /\ AtRest
      BY <1>1 DEF InStep, OnFundBlock
    <3>2. \A x : Head(<<x>>) = x /\ Tail(<<x>>) = <<>>
      OBVIOUS
    <3> QED
      BY <3>1, <3>2
  <2>2. /\ newShape' = NextBlockUpgraded(chainHeight) /\ events' = <<>>
        /\ pc' = [pc EXCEPT ![h] = "checks"]
        /\ UNCHANGED <<chainHeight, composed, mempool>>
    BY <1>1, <2>1 DEF OnFundBlock, Goto
  <2>3. Fresh' /\ newShape' \in BOOLEAN
    BY <2>2 DEF Fresh, NextBlockUpgraded
  <2>4. AllOfShape(mempool', newShape')
    BY <2>1, <2>2, EmptyOfShape DEF AtRest
  <2>5. pc' \in [Handlers -> PcStates] /\ \A g \in Handlers : pc'[g] # "send"
    BY <2>1, <2>2 DEF InStep, AtRest, PcStates
  <2> QED
    BY <2>2, <2>3, <2>4, <2>5 DEF InStep
<1>2. CASE SubmitCustomGov(h) \/ SubmitCustomMsg(h) \/ SubmitUpgradeProposal(h)
           \/ SubmitNewProposal(h) \/ VoteOnProposal(h)
  <2>1. AllOfShape(mempool', newShape)
    <3>1. \A v, what : OfShape(GovTx(v, what), newShape)
      BY DEF OfShape, GovTx
    <3>2. \A m : OfShape(MsgTx(m), newShape)
      BY DEF OfShape, MsgTx
    <3>3. \A id, option : OfShape(VoteTx(id, option), newShape)
      BY DEF OfShape, VoteTx
    <3>4. AllOfShape(mempool, newShape)
      BY DEF InStep
    <3>5. CASE SubmitCustomGov(h)
      <4>1. PICK v \in Validators, i \in todo[h] : Cli(h, GovTx(v, i))
        BY <3>5 DEF SubmitCustomGov
      <4> QED
        BY <4>1, <3>1, <3>4, SentOfShape
    <3>6. CASE SubmitCustomMsg(h)
      <4>1. PICK i \in todo[h] : Cli(h, MsgTx(i))
        BY <3>6 DEF SubmitCustomMsg
      <4> QED
        BY <4>1, <3>2, <3>4, SentOfShape
    <3>7. CASE SubmitUpgradeProposal(h)
      <4>1. PICK v \in Validators : Cli(h, GovTx(v, Upgrade))
        BY <3>7 DEF SubmitUpgradeProposal
      <4> QED
        BY <4>1, <3>1, <3>4, SentOfShape
    <3>8. CASE SubmitNewProposal(h)
      <4>1. UNCHANGED mempool \/ \E v \in Validators : SendTx(GovTx(v, Text))
        BY <3>8 DEF SubmitNewProposal
      <4> QED
        BY <4>1, <3>1, <3>4, SentOfShape
    <3>9. CASE VoteOnProposal(h)
      <4>1. \E id, option : SendTx(VoteTx(id, option))
        BY <3>9 DEF VoteOnProposal
      <4> QED
        BY <4>1, <3>3, <3>4, SentOfShape
    <3> QED
      BY <1>2, <3>5, <3>6, <3>7, <3>8, <3>9
  <2>2. PICK to \in {"govSent", "msgSent", "submitted", "others", "votes"} :
          pc[h] # "idle" /\ pc' = [pc EXCEPT ![h] = to]
    BY <1>2 DEF SubmitCustomGov, SubmitCustomMsg, SubmitUpgradeProposal, SubmitNewProposal,
                VoteOnProposal, Goto
  <2>3. UNCHANGED <<chainHeight, events, newShape, composed>>
    BY <1>2 DEF SubmitCustomGov, SubmitCustomMsg, SubmitUpgradeProposal, SubmitNewProposal,
                VoteOnProposal
  <2>4. to \in PcStates /\ to # "send" /\ DOMAIN composed' = Handlers
    BY <2>3 DEF PcStates, InStep
  <2> QED
    BY <2>1, <2>2, <2>3, <2>4, StepInStep
<1>3. CASE StartCustomGov(h) \/ CustomGovAnswered(h) \/ StartCustomMsgs(h)
           \/ CustomMsgAnswered(h) \/ CustomMsgsDone(h) \/ ProposalSubmitted(h)
           \/ StartVotes(h) \/ VotesDone(h) \/ Others(h) \/ Abort(h)
  <2>1. UNCHANGED <<chainHeight, events, newShape, composed, mempool>>
    BY <1>3 DEF StartCustomGov, CustomGovAnswered, StartCustomMsgs, CustomMsgAnswered,
                Answered, CustomMsgsDone, ProposalSubmitted, StartVotes, VotesDone, Others, Abort
  <2>2. PICK to \in {"gov", "msgs", "idle", "validators", "others", "votes", "compose"} :
          pc[h] # "idle" /\ pc' = [pc EXCEPT ![h] = to]
    BY <1>3 DEF StartCustomGov, CustomGovAnswered, StartCustomMsgs, CustomMsgAnswered,
                Answered, CustomMsgsDone, ProposalSubmitted, StartVotes, VotesDone, Others, Abort,
                Goto
  <2>3. /\ to \in PcStates /\ to # "send" /\ DOMAIN composed' = Handlers
        /\ AllOfShape(mempool', newShape)
    BY <2>1 DEF PcStates, InStep
  <2> QED
    BY <2>1, <2>2, <2>3, StepInStep
<1>4. CASE Compose(h)
  <2>1. /\ pc[h] # "idle" /\ pc' = [pc EXCEPT ![h] = "send"]
        /\ composed' = [composed EXCEPT ![h] = newShape]
        /\ UNCHANGED <<chainHeight, events, newShape, mempool>>
    BY <1>4 DEF Compose, Goto
  <2>2. /\ "send" \in PcStates /\ DOMAIN composed' = Handlers /\ composed'[h] = newShape
        /\ \A g \in Handlers : g # h => composed'[g] = composed[g]
        /\ AllOfShape(mempool', newShape)
    BY <2>1 DEF PcStates, InStep
  <2> QED
    BY <2>1, <2>2, StepInStep
<1>5. CASE Send(h)
  <2>1. /\ pc[h] = "send" /\ pc' = [pc EXCEPT ![h] = "idle"] /\ SendTx(ShapedTx(composed[h]))
        /\ composed' = [composed EXCEPT ![h] = FALSE]
        /\ UNCHANGED <<chainHeight, events, newShape>>
    BY <1>5 DEF Send, Goto
  <2>2. OfShape(ShapedTx(composed[h]), newShape)
    BY <2>1 DEF InStep, OfShape, ShapedTx
  <2>3. AllOfShape(mempool', newShape)
    BY <2>1, <2>2, SentOfShape DEF InStep
  <2>4. /\ "idle" \in PcStates /\ DOMAIN composed' = Handlers
        /\ \A g \in Handlers : g # h => composed'[g] = composed[g]
    BY <2>1 DEF PcStates, InStep
  <2> QED
    BY <2>1, <2>3, <2>4, StepInStep
<1> QED
  BY <1>1, <1>2, <1>3, <1>4, <1>5 DEF HandlerStep

\* A block takes all that waits, once its handler is done.
LEMMA BlockInStep ==
  ASSUME Prompt, InStep, NewBlock
  PROVE  InStep'
<1>1. /\ chainHeight' = IF chainHeight < MaxHeight THEN chainHeight + 1 ELSE MaxHeight
      /\ events' = <<chainHeight'>> \/ events' = <<>>
      /\ UNCHANGED <<newShape, composed, pc>>
      /\ \A h \in Handlers : pc[h] = "idle"
  BY DEF NewBlock, runnerVars, localVars
<1>2. chainHeight' \in Nat
  BY <1>1, HeightsAreNat DEF InStep
<1>3. mempool' = <<>>
  <2>1. \/ \E n \in 0 .. Len(mempool) :
             Len(mempool) - n <= 0 /\ mempool' = SubSeq(mempool, n + 1, Len(mempool))
        \/ mempool' = <<>>
    BY DEF NewBlock
  <2>2. Len(mempool) \in Nat
    BY DEF InStep, AllOfShape
  <2>3. SubSeq(mempool, Len(mempool) + 1, Len(mempool)) = <<>>
    BY <2>2
  <2> QED
    BY <2>1, <2>2, <2>3
<1>4. AtRest'
  BY <1>1, <1>3 DEF AtRest
<1>5. AllOfShape(mempool', newShape')
  BY <1>3, EmptyOfShape
<1> QED
  BY <1>1, <1>2, <1>4, <1>5 DEF InStep

LEMMA NextInStep ==
  ASSUME Prompt, UpgradeHeight > 0, InStep, [Next]_vars
  PROVE  InStep'
<1>1. CASE \E h \in Handlers : HandlerStep(h) \/ Abort(h)
  BY <1>1, HandlerInStep
<1>2. CASE NewBlock
  BY <1>2, BlockInStep
<1>3. CASE UNCHANGED vars
  BY <1>3 DEF InStep, Fresh, AtRest, vars, runnerVars, localVars, chainVars
<1> QED
  BY <1>1, <1>2, <1>3 DEF Next

\* While the handler of a block is done, and what it sent is in a block, before the next one,
\* every message lands in a block of the binary whose shape it has (onFundBlock: "Message
\* shapes follow the binary"), lost events and a lost mempool at the upgrade included.
THEOREM RunnerShapesFollowBinary ==
  ASSUME Prompt, UpgradeHeight > 0
  PROVE  Spec => []ShapesFollowBinary
<1>1. InStep /\ [Next]_vars => InStep'
  BY NextInStep
<1>2. InStep => ShapesFollowBinary
  <2> SUFFICES ASSUME InStep, NEW k \in DOMAIN mempool, mempool[k].kind = "shaped"
               PROVE  mempool[k].new = (chainHeight + 1 >= UpgradeHeight)
    BY DEF ShapesFollowBinary
  <2>1. PICK S : mempool \in Seq(S) /\ \A tx \in S : OfShape(tx, newShape)
    BY DEF InStep, AllOfShape
  <2>2. mempool[k].new = newShape /\ mempool # <<>>
    BY <2>1 DEF OfShape
  <2> QED
    BY <2>2 DEF InStep, AtRest, Fresh
<1> QED
  BY InitInStep, <1>1, <1>2, PTL DEF Spec
---------------------------------------------------------------------------
(* What a block selects from the mempool. *)

\* One position for each rank.
LEMMA RankedPosition ==
  ASSUME NEW n \in Nat, NEW K \in SUBSET (1 .. n), NEW i \in 1 .. Cardinality(K)
  PROVE  \E k \in K : Cardinality({j \in K : j <= k}) = i
<1> DEFINE UpTo(k) == {j \in K : j <= k}
           rank == [k \in K |-> Cardinality(UpTo(k))]
<1>1. IsFiniteSet(K) /\ Cardinality(K) \in Nat
  <2>1. IsFiniteSet(1 .. n)
    BY FS_Interval
  <2> QED
    BY <2>1, FS_Subset, FS_CardinalityType
<1>2. \A k \in K : IsFiniteSet(UpTo(k)) /\ Cardinality(UpTo(k)) \in 1 .. Cardinality(K)
  <2> TAKE k \in K
  <2>1. UpTo(k) \in SUBSET K /\ k \in UpTo(k)
    OBVIOUS
  <2> HIDE DEF UpTo
  <2>2. /\ IsFiniteSet(UpTo(k)) /\ Cardinality(UpTo(k)) <= Cardinality(K)
        /\ Cardinality(UpTo(k)) \in Nat
    BY <1>1, <2>1, FS_Subset, FS_CardinalityType
  <2>3. Cardinality(UpTo(k)) # 0
    BY <2>1, <2>2, FS_EmptySet
  <2> QED
    BY <1>1, <2>2, <2>3
<1>3. ASSUME NEW j \in K, NEW k \in K, j < k
      PROVE  Cardinality(UpTo(j)) # Cardinality(UpTo(k))
  <2>1. j \in Nat /\ k \in Nat /\ \A l \in K : l \in Nat
    OBVIOUS
  <2>2. \A l \in UpTo(j) : l \in UpTo(k)
    BY <1>3, <2>1
  <2>3. k \in UpTo(k)
    BY <2>1
  <2>4. k \notin UpTo(j)
    BY <1>3, <2>1
  <2>5. UpTo(j) \in SUBSET UpTo(k)
    BY <2>2
  <2> HIDE DEF UpTo
  <2> QED
    BY <1>2, <2>3, <2>4, <2>5, FS_Subset
<1>4. rank \in Injection(K, 1 .. Cardinality(K))
  <2>1. rank \in [K -> 1 .. Cardinality(K)]
    BY <1>2
  <2>2. \A j, k \in K : rank[j] = rank[k] => j = k
    <3> SUFFICES ASSUME NEW j \in K, NEW k \in K, j # k PROVE rank[j] # rank[k]
      OBVIOUS
    <3>1. j < k \/ k < j
      OBVIOUS
    <3> HIDE DEF UpTo
    <3> QED
      BY <1>3, <3>1
  <2> QED
    BY <2>1, <2>2 DEF Injection, IsInjective
<1>5. rank \in Surjection(K, 1 .. Cardinality(K))
  <2>1. IsFiniteSet(1 .. Cardinality(K)) /\ Cardinality(1 .. Cardinality(K)) = Cardinality(K)
    BY <1>1, FS_Interval
  <2> HIDE DEF rank
  <2> QED
    BY <1>4, <2>1, FS_Injection
<1>6. PICK k \in K : rank[k] = i
  BY <1>5 DEF Surjection
<1> QED
  BY <1>6

\* f enumerates the positions K.
Enumerates(f, K) ==
  /\ f \in [1 .. Cardinality(K) -> K]
  /\ \A i, j \in 1 .. Cardinality(K) : f[i] = f[j] => i = j

\* sel takes each of the positions K of s once.
Picks(sel, s, K) ==
  \E f : Enumerates(f, K) /\ sel = [i \in 1 .. Cardinality(K) |-> s[f[i]]]

\* Selected takes each of the positions once.
LEMMA SelectedPicks ==
  ASSUME NEW n \in Nat, NEW K \in SUBSET (1 .. n), NEW s
  PROVE  /\ Cardinality(K) \in Nat
         /\ K # {} => Cardinality(K) # 0
         /\ Picks(Selected(s, K), s, K)
<1> DEFINE Rank(k) == Cardinality({j \in K : j <= k})
           f == [i \in 1 .. Cardinality(K) |-> CHOOSE k \in K : Rank(k) = i]
<1>1. IsFiniteSet(K) /\ Cardinality(K) \in Nat
  <2>1. IsFiniteSet(1 .. n)
    BY FS_Interval
  <2> QED
    BY <2>1, FS_Subset, FS_CardinalityType
<1>2. \A i \in 1 .. Cardinality(K) : f[i] \in K /\ Rank(f[i]) = i
  <2> TAKE i \in 1 .. Cardinality(K)
  <2>1. \E k \in K : Rank(k) = i
    BY RankedPosition
  <2>2. f[i] = CHOOSE k \in K : Rank(k) = i
    OBVIOUS
  <2> HIDE DEF f, Rank
  <2> QED
    BY <2>1, <2>2
<1>3. Selected(s, K) = [i \in 1 .. Cardinality(K) |-> s[f[i]]]
  BY DEF Selected
<1>4. f \in [1 .. Cardinality(K) -> K]
  BY <1>2
<1>5. K # {} => Cardinality(K) # 0
  BY <1>1, FS_EmptySet
<1> HIDE DEF f, Rank
<1>6. Enumerates(f, K)
  BY <1>2, <1>4 DEF Enumerates
<1> QED
  BY <1>1, <1>3, <1>5, <1>6 DEF Picks

\* A set of positions that is not empty has a last one.
LEMMA LastPosition ==
  ASSUME NEW n \in Nat, NEW K \in SUBSET (1 .. n), K # {}
  PROVE  \E k \in K : \A j \in K : j <= k
<1>1. IsFiniteSet(K) /\ Cardinality(K) \in Nat /\ Cardinality(K) # 0
  <2>1. IsFiniteSet(1 .. n)
    BY FS_Interval
  <2> QED
    BY <2>1, FS_Subset, FS_CardinalityType, FS_EmptySet
<1>2. PICK k \in K : Cardinality({j \in K : j <= k}) = Cardinality(K)
  <2>1. Cardinality(K) \in 1 .. Cardinality(K)
    BY <1>1
  <2> QED
    BY <2>1, RankedPosition
<1>3. {j \in K : j <= k} = K
  <2>1. {j \in K : j <= k} \in SUBSET K
    OBVIOUS
  <2> QED
    BY <1>1, <1>2, <2>1, FS_Subset
<1> QED
  BY <1>3

\* f lists the proposals among the txs, in order; so does g the msgs.
Proposes(f, txs, block) ==
  LET K == OfKind(txs, "proposal")
  IN  /\ Enumerates(f, K)
      /\ Opened(txs, block) =
           [i \in 1 .. Cardinality(K) |->
              [what |-> txs[f[i]].what, opened |-> block, vote |-> None]]

Runs(g, txs) ==
  LET K == OfKind(txs, "msg")
  IN  Enumerates(g, K) /\ Run(txs) = [i \in 1 .. Cardinality(K) |-> txs[g[i]].what]

\* The proposals a block opens are those of its txs, each once.
LEMMA OpenedFrom ==
  ASSUME NEW txs \in Seq(Txs), NEW block
  PROVE  LET K == OfKind(txs, "proposal")
         IN  /\ Cardinality(K) \in Nat /\ (K # {} => Cardinality(K) # 0)
             /\ \E f : Proposes(f, txs, block)
<1> DEFINE K == OfKind(txs, "proposal")
<1>1. Len(txs) \in Nat /\ K \in SUBSET (1 .. Len(txs))
  BY DEF OfKind
<1> HIDE DEF K
<1>2. PICK f : /\ Enumerates(f, K)
               /\ Selected(txs, K) = [i \in 1 .. Cardinality(K) |-> txs[f[i]]]
  <2>1. Picks(Selected(txs, K), txs, K)
    BY <1>1, SelectedPicks
  <2> QED
    BY <2>1 DEF Picks
<1>3. Cardinality(K) \in Nat /\ (K # {} => Cardinality(K) # 0)
  BY <1>1, SelectedPicks
<1>4. DOMAIN Selected(txs, K) = 1 .. Cardinality(K)
  BY <1>2
<1>5. Opened(txs, block) =
        [i \in 1 .. Cardinality(K) |->
           [what |-> txs[f[i]].what, opened |-> block, vote |-> None]]
  BY <1>2, <1>4 DEF Opened, K
<1>6. Proposes(f, txs, block)
  BY <1>2, <1>5 DEF Proposes, K
<1> QED
  BY <1>3, <1>6 DEF K

\* The msgs it executes, likewise.
LEMMA RunFrom ==
  ASSUME NEW txs \in Seq(Txs)
  PROVE  LET K == OfKind(txs, "msg")
         IN  /\ Cardinality(K) \in Nat
             /\ \E g : Runs(g, txs)
<1> DEFINE K == OfKind(txs, "msg")
<1>1. Len(txs) \in Nat /\ K \in SUBSET (1 .. Len(txs))
  BY DEF OfKind
<1> HIDE DEF K
<1>2. PICK f : /\ Enumerates(f, K)
               /\ Selected(txs, K) = [i \in 1 .. Cardinality(K) |-> txs[f[i]]]
  <2>1. Picks(Selected(txs, K), txs, K)
    BY <1>1, SelectedPicks
  <2> QED
    BY <2>1 DEF Picks
<1>3. Cardinality(K) \in Nat
  BY <1>1, SelectedPicks
<1>4. DOMAIN Selected(txs, K) = 1 .. Cardinality(K)
  BY <1>2
<1>5. Run(txs) = [i \in 1 .. Cardinality(K) |-> txs[f[i]].what]
  BY <1>2, <1>4 DEF Run, K
<1>6. Runs(f, txs)
  BY <1>2, <1>5 DEF Runs, K
<1> QED
  BY <1>3, <1>6 DEF K

---------------------------------------------------------------------------
(* Types. *)

\* The parts of TypeOK that steps disturb apart from each other: what handlers know, what
\* waits in the mempool, what is on chain, and the rest.
HandlersOK ==
  /\ pc \in [Handlers -> PcStates]
  /\ DOMAIN todo = Handlers /\ DOMAIN item = Handlers /\ DOMAIN answer = Handlers
  /\ \A h \in Handlers : Local(h)
WaitingOK ==
  /\ mempool \in Seq(Txs)
  /\ \A k \in OfKind(mempool, "vote") : mempool[k].what \in DOMAIN proposals
OnChainOK ==
  /\ chainHeight \in 0 .. MaxHeight
  /\ proposals \in Seq([what : Whats, opened : 1 .. chainHeight, vote : {None, "yes", "no"}])
  /\ msgsRun \in Seq(CustomMsgs)
RunnerOK ==
  /\ height \in 0 .. chainHeight /\ events \in Seq(0 .. chainHeight)
  /\ customDone \subseteq Customs /\ rejected \subseteq Customs
FlagsOK ==
  /\ proposalSubmitted \in BOOLEAN /\ newShape \in BOOLEAN /\ planned \in BOOLEAN
  /\ composed \in [Handlers -> BOOLEAN]
FaultsOK == faults \in 0 .. MaxFaults

LEMMA TypeParts ==
  /\ TypeOK <=> HandlersOK /\ WaitingOK /\ OnChainOK /\ RunnerOK /\ FlagsOK /\ FaultsOK
  /\ HandlersOK' /\ WaitingOK' /\ OnChainOK' /\ RunnerOK' /\ FlagsOK' /\ FaultsOK' => TypeOK'
BY DEF TypeOK, HandlersOK, WaitingOK, OnChainOK, RunnerOK, FlagsOK, FaultsOK

\* What keeps each part.
LEMMA Frames ==
  /\ WaitingOK /\ UNCHANGED <<mempool, proposals>> => WaitingOK'
  /\ OnChainOK /\ UNCHANGED <<chainHeight, proposals, msgsRun>> => OnChainOK'
  /\ RunnerOK /\ UNCHANGED <<height, events, chainHeight, customDone, rejected>> => RunnerOK'
  /\ FlagsOK /\ UNCHANGED <<proposalSubmitted, newShape, planned, composed>> => FlagsOK'
  /\ FaultsOK /\ UNCHANGED faults => FaultsOK'
BY DEF WaitingOK, OfKind, OnChainOK, RunnerOK, FlagsOK, FaultsOK

LEMMA FirstOfSeq ==
  ASSUME NEW S, NEW s \in Seq(S), s # <<>>
  PROVE  Head(s) \in S /\ Tail(s) \in Seq(S)
OBVIOUS

LEMMA SeqElement ==
  ASSUME NEW S, NEW s \in Seq(S)
  PROVE  \A i \in 1 .. Len(s) : s[i] \in S
OBVIOUS

LEMMA InitTypeOK == Init => TypeOK
<1> SUFFICES ASSUME Init PROVE TypeOK
  OBVIOUS
<1>1. HandlersOK
  BY DEF Init, HandlersOK, Local, PcStates
<1>2. WaitingOK
  BY DEF Init, WaitingOK, OfKind
<1>3. OnChainOK
  <2>1. \A S : <<>> \in Seq(S)
    OBVIOUS
  <2> QED
    BY <2>1, HeightsAreNat DEF Init, OnChainOK
<1>4. RunnerOK
  <2>1. events \in Seq(0 .. chainHeight)
    BY DEF Init
  <2> QED
    BY <2>1 DEF Init, RunnerOK
<1>6. FlagsOK
  BY Zenon DEF Init, FlagsOK
<1>5. FaultsOK
  BY RunnerAssumption DEF Init, FaultsOK
<1> QED
  BY <1>1, <1>2, <1>3, <1>4, <1>5, <1>6, TypeParts

\* A step of one handler, the others standing still.
LEMMA OneHandler ==
  ASSUME HandlersOK, NEW h \in Handlers, NEW to \in PcStates, pc' = [pc EXCEPT ![h] = to],
         DOMAIN todo' = Handlers, DOMAIN item' = Handlers, DOMAIN answer' = Handlers,
         \A g \in Handlers :
           g # h => todo'[g] = todo[g] /\ item'[g] = item[g] /\ answer'[g] = answer[g],
         UNCHANGED proposals, Local(h)'
  PROVE  HandlersOK'
<1>1. ASSUME NEW g \in Handlers, g # h PROVE Local(g)'
  BY <1>1 DEF HandlersOK, Local
<1> QED
  BY <1>1 DEF HandlersOK

\* A tx that is sent is one of those that may wait.
LEMMA SentWaits ==
  ASSUME WaitingOK, FaultsOK, NEW h, NEW tx \in Txs,
         tx.kind = "vote" => tx.what \in DOMAIN proposals,
         Cli(h, tx) \/ SendTx(tx), UNCHANGED proposals
  PROVE  WaitingOK' /\ FaultsOK'
<1>1. mempool' = Append(mempool, tx) \/ mempool' = mempool
  BY Zenon DEF Cli, SendTx
<1>2. faults' = faults \/ (faults < MaxFaults /\ faults' = faults + 1)
  BY DEF Cli, SendTx, Fault
<1>3. FaultsOK'
  BY <1>2, RunnerAssumption DEF FaultsOK
<1>4. CASE mempool' = Append(mempool, tx)
  <2> USE DEF WaitingOK
  <2>1. mempool' \in Seq(Txs)
    BY <1>4
  <2>2. ASSUME NEW k \in OfKind(mempool, "vote")' PROVE mempool'[k].what \in DOMAIN proposals
    <3>1. k \in 1 .. Len(mempool) + 1 /\ mempool'[k].kind = "vote"
      BY <1>4 DEF OfKind
    <3>2. CASE k = Len(mempool) + 1
      BY <1>4, <3>1, <3>2
    <3>3. CASE k # Len(mempool) + 1
      <4>1. k \in 1 .. Len(mempool) /\ mempool'[k] = mempool[k]
        BY <1>4, <3>1, <3>3
      <4> QED
        BY <3>1, <4>1 DEF OfKind
    <3> QED
      BY <3>2, <3>3
  <2> QED
    BY <2>1, <2>2, <1>3
<1>5. CASE mempool' = mempool
  BY <1>3, <1>5 DEF WaitingOK, OfKind
<1> QED
  BY <1>1, <1>4, <1>5

LEMMA AnswerOfCli ==
  ASSUME NEW h, NEW tx, Cli(h, tx)
  PROVE  \E a \in {"accepted", "rejected", "stale", "null"} : answer' = [answer EXCEPT ![h] = a]
BY DEF Cli

LEMMA SentAreTxs ==
  /\ \A v \in Validators, what \in Whats : GovTx(v, what) \in Txs /\ GovTx(v, what).kind = "proposal"
  /\ \A m \in CustomMsgs : MsgTx(m) \in Txs /\ MsgTx(m).kind = "msg"
  /\ \A id \in Nat, option \in {"yes", "no"} : VoteTx(id, option) \in Txs
  /\ \A new \in BOOLEAN : ShapedTx(new) \in Txs /\ ShapedTx(new).kind = "shaped"
BY DEF Txs, GovTx, MsgTx, VoteTx, ShapedTx

\* Each step of a handler.
LEMMA HandlerTypeOK ==
  ASSUME TypeOK, NEW h \in Handlers, HandlerStep(h) \/ Abort(h)
  PROVE  TypeOK'
<1> USE DEF runnerVars, localVars, chainVars
<1>a. HandlersOK /\ WaitingOK /\ OnChainOK /\ RunnerOK /\ FlagsOK /\ FaultsOK
  BY TypeParts
<1>b. pc[h] \in PcStates /\ Local(h)
  BY <1>a DEF HandlersOK
<1>1. CASE OnFundBlock(h)
  <2>1. Head(events) \in 0 .. chainHeight /\ Tail(events) \in Seq(0 .. chainHeight)
    BY <1>1, <1>a, FirstOfSeq DEF RunnerOK, OnFundBlock
  <2>2. RunnerOK'
    BY <1>1, <1>a, <2>1 DEF OnFundBlock, RunnerOK
  <2>4. FlagsOK'
    <3>1. newShape' \in BOOLEAN
      BY <1>1 DEF OnFundBlock, NextBlockUpgraded
    <3> QED
      BY <1>1, <1>a, <3>1, Zenon DEF OnFundBlock, FlagsOK
  <2>3. HandlersOK'
    <3>1. Local(h)'
      BY <1>1, <1>b, <1>a DEF OnFundBlock, Goto, Local, HandlersOK
    <3> QED
      BY <1>1, <1>a, <3>1, OneHandler DEF OnFundBlock, Goto, PcStates, HandlersOK
  <2>5. UNCHANGED <<chainHeight, proposals, msgsRun, mempool, faults>>
    BY <1>1 DEF OnFundBlock
  <2> QED
    BY <1>a, <2>2, <2>3, <2>4, <2>5, Frames, TypeParts
<1>2. CASE StartCustomGov(h) \/ StartCustomMsgs(h) \/ StartVotes(h)
  <2>1. HandlersOK'
    <3>1. PICK at \in {"gov", "msgs", "votes", "idle"}, S \in SUBSET (Customs \cup DOMAIN proposals) :
            /\ pc' = [pc EXCEPT ![h] = at] /\ todo' = [todo EXCEPT ![h] = S]
            /\ S \subseteq CASE at = "gov" -> CustomGov [] at = "msgs" -> CustomMsgs
                             [] at = "votes" -> DOMAIN proposals [] OTHER -> {}
            /\ pc[h] \in {"checks", "gov", "validators"}
      BY <1>2 DEF StartCustomGov, StartCustomMsgs, StartVotes, Goto, DueCustomTxs, Open, Customs
    <3>2. UNCHANGED <<item, answer, proposals>>
      BY <1>2 DEF StartCustomGov, StartCustomMsgs, StartVotes
    <3>3. Local(h)'
      BY <1>a, <1>b, <3>1, <3>2 DEF Local, HandlersOK
    <3> QED
      BY <1>a, <3>1, <3>2, <3>3, OneHandler DEF PcStates, HandlersOK
  <2>2. /\ UNCHANGED <<height, proposalSubmitted, customDone, rejected, newShape, composed>>
        /\ UNCHANGED <<events, chainHeight, proposals, planned, msgsRun, mempool, faults>>
    BY <1>2 DEF StartCustomGov, StartCustomMsgs, StartVotes
  <2> QED
    BY <1>a, <2>1, <2>2, Frames, TypeParts
<1>3. CASE SubmitCustomGov(h) \/ SubmitCustomMsg(h) \/ SubmitUpgradeProposal(h)
  <2>1. \E to \in {"govSent", "msgSent", "submitted"}, tx \in Txs :
          /\ pc' = [pc EXCEPT ![h] = to] /\ Cli(h, tx) /\ tx.kind # "vote"
          /\ todo' = todo /\ DOMAIN item' = Handlers
          /\ \A g \in Handlers : g # h => item'[g] = item[g]
          /\ todo[h] \subseteq CASE to = "govSent" -> CustomGov [] to = "msgSent" -> CustomMsgs
                                 [] OTHER -> {}
          /\ item'[h] \in CASE to = "govSent" -> CustomGov [] to = "msgSent" -> CustomMsgs
                            [] OTHER -> {None}
    <3>1. CASE SubmitCustomGov(h)
      <4>1. PICK i \in todo[h], v \in Validators :
              item' = [item EXCEPT ![h] = i] /\ Cli(h, GovTx(v, i))
        BY <3>1 DEF SubmitCustomGov
      <4>2. pc[h] = "gov" /\ pc' = [pc EXCEPT ![h] = "govSent"] /\ todo' = todo
        BY <3>1 DEF SubmitCustomGov, Goto
      <4>3. todo[h] \subseteq CustomGov /\ i \in CustomGov /\ i \in Whats
        BY <1>b, <4>2 DEF Local, Whats
      <4>4. GovTx(v, i) \in Txs /\ GovTx(v, i).kind # "vote"
        BY <4>3, SentAreTxs
      <4> QED
        BY <1>a, <4>1, <4>2, <4>3, <4>4 DEF HandlersOK
    <3>2. CASE SubmitCustomMsg(h)
      <4>1. PICK i \in todo[h] : item' = [item EXCEPT ![h] = i] /\ Cli(h, MsgTx(i))
        BY <3>2 DEF SubmitCustomMsg
      <4>2. pc[h] = "msgs" /\ pc' = [pc EXCEPT ![h] = "msgSent"] /\ todo' = todo
        BY <3>2 DEF SubmitCustomMsg, Goto
      <4>3. todo[h] \subseteq CustomMsgs /\ i \in CustomMsgs
        BY <1>b, <4>2 DEF Local
      <4>4. MsgTx(i) \in Txs /\ MsgTx(i).kind # "vote"
        BY <4>3, SentAreTxs
      <4> QED
        BY <1>a, <4>1, <4>2, <4>3, <4>4 DEF HandlersOK
    <3>3. CASE SubmitUpgradeProposal(h)
      <4>1. PICK v \in Validators : Cli(h, GovTx(v, Upgrade))
        BY <3>3 DEF SubmitUpgradeProposal
      <4>2. /\ pc[h] = "validators" /\ pc' = [pc EXCEPT ![h] = "submitted"]
            /\ todo' = todo /\ item' = item
        BY <3>3 DEF SubmitUpgradeProposal, Goto
      <4>3. todo[h] = {} /\ item[h] = None
        BY <1>b, <4>2 DEF Local
      <4>4. GovTx(v, Upgrade) \in Txs /\ GovTx(v, Upgrade).kind # "vote"
        BY SentAreTxs DEF Whats
      <4> QED
        BY <1>a, <4>1, <4>2, <4>3, <4>4 DEF HandlersOK
    <3> QED
      BY <1>3, <3>1, <3>2, <3>3
  <2>2. PICK to \in {"govSent", "msgSent", "submitted"}, tx \in Txs :
          /\ pc' = [pc EXCEPT ![h] = to] /\ Cli(h, tx) /\ tx.kind # "vote"
          /\ todo' = todo /\ DOMAIN item' = Handlers
          /\ \A g \in Handlers : g # h => item'[g] = item[g]
          /\ todo[h] \subseteq CASE to = "govSent" -> CustomGov [] to = "msgSent" -> CustomMsgs
                                 [] OTHER -> {}
          /\ item'[h] \in CASE to = "govSent" -> CustomGov [] to = "msgSent" -> CustomMsgs
                            [] OTHER -> {None}
    BY <2>1
  <2>3. PICK a \in {"accepted", "rejected", "stale", "null"} : answer' = [answer EXCEPT ![h] = a]
    BY <2>2, AnswerOfCli
  <2>4. /\ UNCHANGED <<height, proposalSubmitted, customDone, rejected, newShape, composed>>
        /\ UNCHANGED <<events, chainHeight, proposals, planned, msgsRun>>
    BY <1>3 DEF SubmitCustomGov, SubmitCustomMsg, SubmitUpgradeProposal
  <2>5. WaitingOK' /\ FaultsOK'
    BY <1>a, <2>2, <2>4, SentWaits
  <2>6. HandlersOK'
    <3>1. Local(h)'
      BY <1>a, <2>2, <2>3, <2>4 DEF Local, HandlersOK
    <3> QED
      BY <1>a, <2>2, <2>3, <2>4, <3>1, OneHandler DEF PcStates, HandlersOK
  <2> QED
    BY <1>a, <2>4, <2>5, <2>6, Frames, TypeParts
<1>4. CASE CustomGovAnswered(h) \/ CustomMsgAnswered(h)
  <2>1. /\ \/ pc[h] = "govSent" /\ pc' = [pc EXCEPT ![h] = "gov"]
           \/ pc[h] = "msgSent" /\ pc' = [pc EXCEPT ![h] = "msgs"]
        /\ customDone' = IF Settles(h) THEN customDone \cup {item[h]} ELSE customDone
        /\ rejected' \subseteq rejected \cup {item[h]}
        /\ todo' = [todo EXCEPT ![h] = @ \ {item[h]}]
        /\ item' = [item EXCEPT ![h] = None] /\ answer' = [answer EXCEPT ![h] = None]
        /\ UNCHANGED <<height, proposalSubmitted, newShape, composed, mempool, faults>>
        /\ UNCHANGED <<events, chainHeight, proposals, planned, msgsRun>>
    BY <1>4 DEF CustomGovAnswered, CustomMsgAnswered, Answered, Goto
  <2>2. item[h] \in Customs
    BY <1>b, <2>1 DEF Local, Customs
  <2>3. RunnerOK'
    BY <1>a, <2>1, <2>2 DEF RunnerOK
  <2>4. HandlersOK'
    <3>1. Local(h)'
      BY <1>a, <1>b, <2>1 DEF Local, HandlersOK
    <3> QED
      BY <1>a, <2>1, <3>1, OneHandler DEF PcStates, HandlersOK
  <2> QED
    BY <1>a, <2>1, <2>3, <2>4, Frames, TypeParts
<1>5. CASE SubmitNewProposal(h) \/ VoteOnProposal(h) \/ Send(h)
  <2>1. WaitingOK' /\ FaultsOK' /\ UNCHANGED proposals
    <3>1. CASE SubmitNewProposal(h)
      <4>1. /\ UNCHANGED <<mempool, faults>> \/ \E v \in Validators : SendTx(GovTx(v, Text))
            /\ UNCHANGED proposals
        BY <3>1 DEF SubmitNewProposal
      <4>2. \A v \in Validators : GovTx(v, Text) \in Txs /\ GovTx(v, Text).kind # "vote"
        BY SentAreTxs DEF Whats
      <4>3. UNCHANGED <<mempool, faults>> => WaitingOK' /\ FaultsOK'
        BY <1>a, <4>1 DEF WaitingOK, OfKind, FaultsOK
      <4> QED
        BY <1>a, <4>1, <4>2, <4>3, SentWaits
    <3>2. CASE VoteOnProposal(h)
      <4>0. PICK id \in todo[h] : \E option \in VoteFor(id) : SendTx(VoteTx(id, option))
        BY <3>2 DEF VoteOnProposal
      <4>1. PICK option \in VoteFor(id) : SendTx(VoteTx(id, option))
        BY <4>0
      <4>2. UNCHANGED proposals /\ id \in DOMAIN proposals
        BY <3>2, <1>b DEF VoteOnProposal, Local, Goto
      <4>3. id \in Nat
        BY <1>a, <4>2 DEF OnChainOK
      <4>4. VoteTx(id, option) \in Txs
        BY <4>3, SentAreTxs DEF VoteFor
      <4>5. VoteTx(id, option).what = id
        BY DEF VoteTx
      <4> QED
        BY <1>a, <4>1, <4>2, <4>4, <4>5, SentWaits
    <3>3. CASE Send(h)
      <4>1. SendTx(ShapedTx(composed[h])) /\ UNCHANGED proposals /\ composed[h] \in BOOLEAN
        BY <3>3, <1>a DEF Send, FlagsOK
      <4>2. ShapedTx(composed[h]) \in Txs /\ ShapedTx(composed[h]).kind # "vote"
        BY <4>1, SentAreTxs
      <4> QED
        BY <1>a, <4>1, <4>2, SentWaits
    <3> QED
      BY <1>5, <3>1, <3>2, <3>3
  <2>2. /\ \/ pc[h] = "validators" /\ pc' = [pc EXCEPT ![h] = "others"] /\ todo' = todo
           \/ pc[h] = "votes" /\ pc' = [pc EXCEPT ![h] = "votes"]
              /\ \E id : todo' = [todo EXCEPT ![h] = @ \ {id}]
           \/ pc[h] = "send" /\ pc' = [pc EXCEPT ![h] = "idle"] /\ todo' = todo
        /\ UNCHANGED <<height, proposalSubmitted, customDone, rejected, newShape, item, answer>>
        /\ UNCHANGED <<events, chainHeight, proposals, planned, msgsRun>>
        /\ UNCHANGED composed \/ composed' = [composed EXCEPT ![h] = FALSE]
    BY <1>5 DEF SubmitNewProposal, VoteOnProposal, Send, Goto
  <2>3. HandlersOK'
    <3>1. Local(h)'
      BY <1>a, <1>b, <2>2 DEF Local, HandlersOK
    <3> QED
      BY <1>a, <2>2, <3>1, OneHandler DEF PcStates, HandlersOK
  <2>4. FlagsOK'
    BY <1>a, <2>2 DEF FlagsOK
  <2> QED
    BY <1>a, <2>1, <2>2, <2>3, <2>4, Frames, TypeParts
<1>6. CASE CustomMsgsDone(h) \/ VotesDone(h) \/ Others(h) \/ Compose(h) \/ Abort(h)
           \/ ProposalSubmitted(h)
  <2>1. /\ pc[h] \in {"checks", "msgs", "votes", "validators", "others", "compose", "submitted"}
        /\ pc[h] \in {"msgs", "votes"} => todo[h] = {}
        /\ \E to \in {"validators", "others", "compose", "idle", "send"} :
             pc' = [pc EXCEPT ![h] = to]
        /\ UNCHANGED <<todo, item, mempool, height, newShape, customDone, rejected>>
        /\ UNCHANGED <<events, chainHeight, proposals, planned, msgsRun>>
        /\ IF pc[h] = "submitted" THEN answer' = [answer EXCEPT ![h] = None]
                                  ELSE UNCHANGED answer
    BY <1>6 DEF CustomMsgsDone, VotesDone, Others, Compose, Abort, ProposalSubmitted, Goto
  <2>2. HandlersOK'
    <3>1. Local(h)'
      BY <1>a, <1>b, <2>1 DEF Local, HandlersOK
    <3> QED
      BY <1>a, <2>1, <3>1, OneHandler DEF PcStates, HandlersOK
  <2>3. FlagsOK'
    <3>1. /\ proposalSubmitted' \in {TRUE, proposalSubmitted}
          /\ composed' \in {composed, [composed EXCEPT ![h] = newShape]}
      BY <1>6 DEF CustomMsgsDone, VotesDone, Others, Compose, Abort, ProposalSubmitted
    <3> QED
      BY <1>a, <2>1, <3>1 DEF FlagsOK
  <2>4. FaultsOK'
    <3>1. faults' = faults \/ (faults < MaxFaults /\ faults' = faults + 1)
      BY <1>6 DEF CustomMsgsDone, VotesDone, Others, Compose, Abort, ProposalSubmitted, Fault
    <3> QED
      BY <1>a, <3>1, RunnerAssumption DEF FaultsOK
  <2> QED
    BY <1>a, <2>1, <2>2, <2>3, <2>4, Frames, TypeParts
<1> QED
  BY <1>1, <1>2, <1>3, <1>4, <1>5, <1>6 DEF HandlerStep

\* The txs of a block and those it leaves are of the mempool.
LEMMA Included ==
  ASSUME NEW S, NEW s \in Seq(S), NEW n \in 0 .. Len(s)
  PROVE  /\ SubSeq(s, 1, n) \in Seq(S) /\ Len(SubSeq(s, 1, n)) = n
         /\ \A k \in 1 .. n : SubSeq(s, 1, n)[k] = s[k]
         /\ SubSeq(s, n + 1, Len(s)) \in Seq(S)
         /\ Len(SubSeq(s, n + 1, Len(s))) = Len(s) - n
         /\ \A k \in 1 .. Len(s) - n : SubSeq(s, n + 1, Len(s))[k] = s[n + k]
<1>1. Len(s) \in Nat /\ \A i \in 1 .. Len(s) : s[i] \in S
  OBVIOUS
<1>2. \A i \in n + 1 .. Len(s) : s[i] \in S
  BY <1>1
<1>3. SubSeq(s, n + 1, Len(s)) \in Seq(S)
  BY <1>1, <1>2, SubSeqProperties
<1>4. /\ Len(SubSeq(s, n + 1, Len(s))) = Len(s) - n
      /\ \A k \in 1 .. Len(s) - n : SubSeq(s, n + 1, Len(s))[k] = s[n + k]
  BY <1>1
<1>5. SubSeq(s, 1, n) \in Seq(S) /\ Len(SubSeq(s, 1, n)) = n
  BY <1>1, SubSeqProperties
<1>6. \A k \in 1 .. n : SubSeq(s, 1, n)[k] = s[k]
  BY <1>1
<1> QED
  BY <1>3, <1>4, <1>5, <1>6

\* The proposals after a block.
AfterVotes(txs) ==
  LET On(id) == {k \in OfKind(txs, "vote") : txs[k].what = id}
  IN  [id \in DOMAIN proposals |->
         IF id \in Open /\ On(id) # {}
         THEN [proposals[id] EXCEPT
                 !.vote = txs[CHOOSE k \in On(id) : \A j \in On(id) : j <= k].option]
         ELSE proposals[id]]

LEMMA WithTxsParts ==
  ASSUME NEW txs, NEW block
  PROVE  WithTxs(txs, block) = AfterVotes(txs) \o Opened(txs, block)
BY DEF WithTxs, AfterVotes

\* What the votes among the txs make of a proposal: nothing, or the vote of one of them.
Takes(new, id, txs) ==
  \/ /\ new = proposals[id]
     /\ id \in Open => \A k \in OfKind(txs, "vote") : txs[k].what # id
  \/ /\ id \in Open
     /\ \E k \in OfKind(txs, "vote") :
          /\ txs[k].what = id /\ txs[k].option \in {"yes", "no"}
          /\ new = [proposals[id] EXCEPT !.vote = txs[k].option]

LEMMA VotedOn ==
  ASSUME NEW txs \in Seq(Txs), NEW id \in DOMAIN proposals
  PROVE  Takes(AfterVotes(txs)[id], id, txs)
<1> DEFINE On == {k \in OfKind(txs, "vote") : txs[k].what = id}
           last == CHOOSE k \in On : \A j \in On : j <= k
<1>1. AfterVotes(txs)[id] = IF id \in Open /\ On # {}
                            THEN [proposals[id] EXCEPT !.vote = txs[last].option]
                            ELSE proposals[id]
  BY DEF AfterVotes
<1>2. CASE id \in Open /\ On # {}
  <2>1. Len(txs) \in Nat /\ On \in SUBSET (1 .. Len(txs))
    BY DEF OfKind
  <2>2. \E k \in On : \A j \in On : j <= k
    <3> HIDE DEF On
    <3> QED
      BY <1>2, <2>1, LastPosition
  <2>3. last \in On
    <3> HIDE DEF On
    <3> QED
      BY <2>2
  <2>4. last \in OfKind(txs, "vote") /\ txs[last].what = id /\ last \in DOMAIN txs
    <3> HIDE DEF last
    <3> QED
      BY <2>3 DEF OfKind
  <2>5. txs[last].option \in {"yes", "no"}
    <3> HIDE DEF last
    <3>1. txs[last] \in Txs /\ txs[last].kind = "vote"
      BY <2>4 DEF OfKind
    <3> QED
      BY <3>1 DEF Txs
  <2> HIDE DEF last, On
  <2> QED
    BY <1>1, <1>2, <2>4, <2>5 DEF Takes
<1>3. CASE ~(id \in Open /\ On # {})
  BY <1>1, <1>3 DEF Takes
<1> QED
  BY <1>2, <1>3

LEMMA AfterVotesTyped ==
  ASSUME OnChainOK, NEW txs \in Seq(Txs)
  PROVE  /\ AfterVotes(txs) \in
              Seq([what : Whats, opened : 1 .. chainHeight, vote : {None, "yes", "no"}])
         /\ Len(AfterVotes(txs)) = Len(proposals)
<1>1. /\ DOMAIN AfterVotes(txs) = 1 .. Len(proposals) /\ Len(proposals) \in Nat
      /\ DOMAIN proposals = 1 .. Len(proposals)
  BY DEF AfterVotes, OnChainOK
<1>2. ASSUME NEW id \in 1 .. Len(proposals)
      PROVE  AfterVotes(txs)[id] \in
               [what : Whats, opened : 1 .. chainHeight, vote : {None, "yes", "no"}]
  <2>1. proposals[id] \in [what : Whats, opened : 1 .. chainHeight, vote : {None, "yes", "no"}]
    BY SeqElement DEF OnChainOK
  <2>2. \/ AfterVotes(txs)[id] = proposals[id]
        \/ \E o \in {"yes", "no"} : AfterVotes(txs)[id] = [proposals[id] EXCEPT !.vote = o]
    <3>1. id \in DOMAIN proposals
      BY <1>1
    <3>2. Takes(AfterVotes(txs)[id], id, txs)
      BY <3>1, VotedOn
    <3> QED
      BY <3>2, Zenon DEF Takes
  <2> QED
    BY <2>1, <2>2
<1>3. AfterVotes(txs) = [id \in 1 .. Len(proposals) |-> AfterVotes(txs)[id]]
  BY <1>1 DEF AfterVotes
<1> QED
  BY <1>1, <1>2, <1>3, SeqDef

\* The parts of a block.
LEMMA BlockParts ==
  ASSUME NewBlock, OnChainOK, WaitingOK
  PROVE  /\ chainHeight' = IF chainHeight < MaxHeight THEN chainHeight + 1 ELSE MaxHeight
         /\ chainHeight' \in 1 .. MaxHeight /\ chainHeight <= chainHeight'
         /\ events = <<>> /\ (events' = <<chainHeight'>> \/ events' = <<>>)
         /\ \E n \in 0 .. Len(mempool) :
              /\ Len(mempool) - n <= (IF Prompt THEN 0 ELSE MaxLeft)
              /\ proposals' = AfterVotes(SubSeq(mempool, 1, n))
                                \o Opened(SubSeq(mempool, 1, n), chainHeight')
              /\ msgsRun' = msgsRun \o Run(SubSeq(mempool, 1, n))
              /\ \/ mempool' = SubSeq(mempool, n + 1, Len(mempool)) /\ UNCHANGED faults
                 \/ mempool' = <<>> /\ Fault("halt")
         /\ UNCHANGED <<height, proposalSubmitted, customDone, rejected, newShape, pc>>
         /\ UNCHANGED <<todo, item, answer, composed>>
<1>1. /\ chainHeight' = IF chainHeight < MaxHeight THEN chainHeight + 1 ELSE MaxHeight
      /\ events = <<>> /\ (events' = <<chainHeight'>> \/ events' = <<>>)
      /\ UNCHANGED <<height, proposalSubmitted, customDone, rejected, newShape, pc>>
      /\ UNCHANGED <<todo, item, answer, composed>>
  BY DEF NewBlock, runnerVars, localVars
<1>2. chainHeight' \in 1 .. MaxHeight /\ chainHeight <= chainHeight'
  BY <1>1, RunnerAssumption, HeightsAreNat DEF OnChainOK
<1>3. \E n \in 0 .. Len(mempool) :
         /\ Len(mempool) - n <= (IF Prompt THEN 0 ELSE MaxLeft)
         /\ proposals' = WithTxs(SubSeq(mempool, 1, n), chainHeight')
         /\ msgsRun' = msgsRun \o Run(SubSeq(mempool, 1, n))
         /\ \/ mempool' = SubSeq(mempool, n + 1, Len(mempool)) /\ UNCHANGED faults
            \/ mempool' = <<>> /\ Fault("halt")
  BY Zenon DEF NewBlock
<1> QED
  BY <1>1, <1>2, <1>3, WithTxsParts

LEMMA BlockTypeOK ==
  ASSUME TypeOK, NewBlock
  PROVE  TypeOK'
<1>a. HandlersOK /\ WaitingOK /\ OnChainOK /\ RunnerOK /\ FlagsOK /\ FaultsOK
  BY TypeParts
<1> DEFINE P(n) == [what : Whats, opened : 1 .. n, vote : {None, "yes", "no"}]
<1>1. PICK n \in 0 .. Len(mempool) :
         /\ proposals' = AfterVotes(SubSeq(mempool, 1, n))
                           \o Opened(SubSeq(mempool, 1, n), chainHeight')
         /\ msgsRun' = msgsRun \o Run(SubSeq(mempool, 1, n))
         /\ \/ mempool' = SubSeq(mempool, n + 1, Len(mempool)) /\ UNCHANGED faults
            \/ mempool' = <<>> /\ Fault("halt")
  BY <1>a, BlockParts
<1>2. /\ chainHeight' \in 1 .. MaxHeight /\ chainHeight <= chainHeight'
      /\ events' = <<chainHeight'>> \/ events' = <<>>
      /\ UNCHANGED <<height, proposalSubmitted, customDone, rejected, newShape, pc>>
      /\ UNCHANGED <<todo, item, answer, composed>>
  BY <1>a, BlockParts
<1> DEFINE txs == SubSeq(mempool, 1, n)
<1>3. txs \in Seq(Txs) /\ Len(txs) = n
  BY <1>a, Included DEF WaitingOK
<1> HIDE DEF txs
<1>4. Opened(txs, chainHeight') \in Seq(P(chainHeight'))
  <2> DEFINE K == OfKind(txs, "proposal")
  <2>0. Cardinality(K) \in Nat /\ \E f : Proposes(f, txs, chainHeight')
    BY <1>3, OpenedFrom
  <2>1. PICK f : /\ Enumerates(f, K) /\ Cardinality(K) \in Nat
                 /\ Opened(txs, chainHeight') =
                      [i \in 1 .. Cardinality(K) |->
                         [what |-> txs[f[i]].what, opened |-> chainHeight', vote |-> None]]
    BY <2>0 DEF Proposes
  <2>2. \A k \in K : txs[k].what \in Whats
    <3> SUFFICES ASSUME NEW k \in K PROVE txs[k].what \in Whats
      OBVIOUS
    <3>1. txs[k] \in Txs /\ txs[k].kind = "proposal"
      BY <1>3 DEF OfKind
    <3> QED
      BY <3>1 DEF Txs
  <2> HIDE DEF K
  <2>3. \A i \in 1 .. Cardinality(K) : Opened(txs, chainHeight')[i] \in P(chainHeight')
    BY <1>2, <2>1, <2>2 DEF Enumerates
  <2> HIDE DEF P
  <2> QED
    BY <2>1, <2>3, SeqDef
<1>5. /\ AfterVotes(txs) \in Seq(P(chainHeight')) /\ Len(AfterVotes(txs)) = Len(proposals)
      /\ proposals \in Seq(P(chainHeight))
  <2>1. AfterVotes(txs) \in Seq(P(chainHeight)) /\ Len(AfterVotes(txs)) = Len(proposals)
    BY <1>a, <1>3, AfterVotesTyped
  <2>2. P(chainHeight) \subseteq P(chainHeight')
    BY <1>a, <1>2 DEF OnChainOK
  <2>3. proposals \in Seq(P(chainHeight))
    BY <1>a DEF OnChainOK
  <2> HIDE DEF P
  <2> QED
    BY <2>1, <2>2, <2>3, SeqMonotonic
<1>6. /\ proposals' \in Seq(P(chainHeight')) /\ DOMAIN proposals \subseteq DOMAIN proposals'
  <2> HIDE DEF P
  <2> QED
    BY <1>1, <1>4, <1>5 DEF txs
<1>7. msgsRun' \in Seq(CustomMsgs)
  <2> DEFINE K == OfKind(txs, "msg")
  <2>1. PICK f : /\ Enumerates(f, K) /\ Cardinality(K) \in Nat
                 /\ Run(txs) = [i \in 1 .. Cardinality(K) |-> txs[f[i]].what]
    BY <1>3, RunFrom DEF Runs
  <2>2. \A k \in K : txs[k].what \in CustomMsgs
    <3> SUFFICES ASSUME NEW k \in K PROVE txs[k].what \in CustomMsgs
      OBVIOUS
    <3>1. txs[k] \in Txs /\ txs[k].kind = "msg"
      BY <1>3 DEF OfKind
    <3> QED
      BY <3>1 DEF Txs
  <2> HIDE DEF K
  <2>3. \A i \in 1 .. Cardinality(K) : Run(txs)[i] \in CustomMsgs
    BY <2>1, <2>2 DEF Enumerates
  <2>4. Run(txs) \in Seq(CustomMsgs)
    BY <2>1, <2>3, SeqDef
  <2> QED
    BY <1>1, <1>a, <2>4 DEF OnChainOK, txs
<1>8. OnChainOK'
  BY <1>2, <1>6, <1>7 DEF OnChainOK
<1>9. WaitingOK'
  <2>1. CASE mempool' = <<>>
    BY <2>1 DEF WaitingOK, OfKind
  <2>2. CASE mempool' = SubSeq(mempool, n + 1, Len(mempool))
    <3>1. /\ mempool' \in Seq(Txs) /\ Len(mempool') = Len(mempool) - n
          /\ \A k \in 1 .. Len(mempool) - n : mempool'[k] = mempool[n + k]
      BY <1>a, <2>2, Included DEF WaitingOK
    <3>2. ASSUME NEW k \in OfKind(mempool, "vote")' PROVE mempool'[k].what \in DOMAIN proposals'
      <4>1. k \in 1 .. Len(mempool) - n /\ mempool'[k].kind = "vote"
        BY <3>1 DEF OfKind
      <4>2. n + k \in OfKind(mempool, "vote") /\ mempool'[k] = mempool[n + k]
        BY <1>a, <3>1, <4>1 DEF WaitingOK, OfKind
      <4> QED
        BY <1>a, <1>6, <4>2 DEF WaitingOK
    <3> QED
      BY <3>1, <3>2 DEF WaitingOK
  <2> QED
    BY <1>1, <2>1, <2>2
<1>10. HandlersOK'
  <2>1. ASSUME NEW h \in Handlers PROVE Local(h)'
    BY <1>a, <1>2, <1>6 DEF HandlersOK, Local
  <2> QED
    BY <1>a, <1>2, <2>1 DEF HandlersOK
<1>11. RunnerOK' /\ FlagsOK'
  <2>1. \A S, x : x \in S => <<x>> \in Seq(S) /\ <<>> \in Seq(S)
    OBVIOUS
  <2>2. chainHeight' \in 0 .. chainHeight'
    BY <1>2
  <2>3. events' \in Seq(0 .. chainHeight')
    BY <1>2, <2>1, <2>2
  <2>4. height' \in 0 .. chainHeight'
    BY <1>a, <1>2 DEF RunnerOK, OnChainOK
  <2>5. planned' \in BOOLEAN
    BY DEF NewBlock
  <2>6. RunnerOK'
    BY <1>a, <1>2, <2>3, <2>4 DEF RunnerOK
  <2>7. FlagsOK'
    BY <1>a, <1>2, <2>5 DEF FlagsOK
  <2> QED
    BY <2>6, <2>7
<1>12. FaultsOK'
  <2>1. faults' = faults \/ (faults < MaxFaults /\ faults' = faults + 1)
    <3>1. faults' = faults \/ Fault("halt")
      BY Zenon, <1>1
    <3> QED
      BY <3>1 DEF Fault
  <2>2. faults \in 0 .. MaxFaults /\ MaxFaults \in Nat
    BY <1>a, RunnerAssumption DEF FaultsOK
  <2> QED
    BY <2>1, <2>2 DEF FaultsOK
<1> QED
  BY <1>8, <1>9, <1>10, <1>11, <1>12, TypeParts

LEMMA NextTypeOK ==
  ASSUME TypeOK, [Next]_vars
  PROVE  TypeOK'
<1>1. CASE \E h \in Handlers : HandlerStep(h) \/ Abort(h)
  BY <1>1, HandlerTypeOK
<1>2. CASE NewBlock
  BY <1>2, BlockTypeOK
<1>3. CASE UNCHANGED vars
  BY <1>3 DEF TypeOK, Local, OfKind, vars, runnerVars, localVars, chainVars
<1> QED
  BY <1>1, <1>2, <1>3 DEF Next

\* What the runner keeps, what waits in the mempool and what is on chain stay what the code
\* takes them for, however handlers overlap: lists and answers belong to the await a handler
\* is at, and a vote in the mempool names a proposal that exists.
THEOREM RunnerTypeOK == Spec => []TypeOK
BY InitTypeOK, NextTypeOK, PTL DEF Spec

---------------------------------------------------------------------------
(* Each custom tx once. *)

\* A handler is over before the next starts: blocks wait for it, or there is only one.
OneAtATime == Prompt \/ \A g, h \in Handlers : g = h

Serial ==
  /\ \A g, h \in Handlers : pc[g] # "idle" /\ pc[h] # "idle" => g = h
  /\ Prompt => \/ events = <<>>
               \/ Len(events) = 1 /\ \A h \in Handlers : pc[h] = "idle"

\* A handler's list holds nothing that is done, and the item a CLI call is about.
Lists(h) ==
  /\ pc[h] \in {"gov", "govSent", "msgs", "msgSent"} => todo[h] \cap customDone = {}
  /\ pc[h] \in {"govSent", "msgSent"} => item[h] \in todo[h]

\* What has left the runner is noted, or will be when its CLI call returns.
Left(i) == InMempool(i) # {} \/ OnChain(i) # {} \/ Executed(i) # {}
Noted(i) ==
  \/ i \in customDone
  \/ \E h \in Handlers :
       pc[h] \in {"govSent", "msgSent"} /\ item[h] = i /\ answer[h] = "accepted"

\* It is in one place, once.
Single(S) == \A a, b \in S : a = b
InOnePlace(i) ==
  /\ Single(InMempool(i)) /\ Single(OnChain(i)) /\ Single(Executed(i))
  /\ InMempool(i) = {} \/ (OnChain(i) = {} /\ Executed(i) = {})
  /\ OnChain(i) = {} \/ Executed(i) = {}

\* The inductive strengthening.
OnceInv ==
  /\ TypeOK /\ Serial
  /\ \A h \in Handlers : Lists(h)
  /\ \A i \in Customs : InOnePlace(i) /\ (Left(i) => Noted(i))

LEMMA InitOnce == Init => OnceInv
<1> SUFFICES ASSUME Init PROVE OnceInv
  OBVIOUS
<1>1. Serial /\ \A h \in Handlers : Lists(h)
  BY DEF Init, Serial, Lists
<1>2. \A i : InMempool(i) = {} /\ OnChain(i) = {} /\ Executed(i) = {}
  BY DEF Init, InMempool, OnChain, Executed
<1>3. \A i : InOnePlace(i) /\ ~Left(i)
  BY <1>2 DEF InOnePlace, Left, Single
<1> QED
  BY <1>1, <1>3, InitTypeOK DEF OnceInv

\* A handler under way is the only one.
LEMMA SerialStep ==
  ASSUME TypeOK, Serial, NEW h \in Handlers, NEW to, pc[h] # "idle",
         pc' = [pc EXCEPT ![h] = to], UNCHANGED events
  PROVE  Serial' /\ \A g \in Handlers : g # h => pc[g] = "idle" /\ pc'[g] = "idle"
BY DEF Serial, TypeOK

\* The places change only with the mempool and the chain.
LEMMA SamePlaces ==
  ASSUME UNCHANGED <<mempool, proposals, msgsRun>>
  PROVE  \A i : /\ InMempool(i)' = InMempool(i) /\ OnChain(i)' = OnChain(i)
                /\ Executed(i)' = Executed(i)
                /\ (InOnePlace(i) => InOnePlace(i)') /\ (Left(i)' => Left(i))
<1>1. \A i : InMempool(i)' = InMempool(i) /\ OnChain(i)' = OnChain(i) /\ Executed(i)' = Executed(i)
  BY DEF InMempool, OnChain, Executed
<1> QED
  BY <1>1 DEF InOnePlace, Left

\* Another tx in the mempool.
LEMMA OneMore ==
  ASSUME TypeOK, NEW tx, mempool' = Append(mempool, tx), UNCHANGED <<proposals, msgsRun>>,
         NEW i \in Customs
  PROVE  /\ InMempool(i)' \subseteq InMempool(i) \cup {Len(mempool) + 1}
         /\ ~(tx.kind \in {"proposal", "msg"} /\ tx.what = i) => InMempool(i)' = InMempool(i)
         /\ OnChain(i)' = OnChain(i) /\ Executed(i)' = Executed(i)
<1>1. mempool \in Seq(Txs)
  BY DEF TypeOK
<1>2. Len(mempool) \in Nat /\ DOMAIN mempool = 1 .. Len(mempool)
  BY <1>1
<1>3. /\ DOMAIN mempool' = 1 .. Len(mempool) + 1 /\ mempool'[Len(mempool) + 1] = tx
      /\ \A k \in 1 .. Len(mempool) : mempool'[k] = mempool[k]
  BY <1>1
<1>4. InMempool(i)' \subseteq InMempool(i) \cup {Len(mempool) + 1}
  BY <1>2, <1>3 DEF InMempool
<1>5. ASSUME ~(tx.kind \in {"proposal", "msg"} /\ tx.what = i)
      PROVE  InMempool(i)' = InMempool(i)
  BY <1>2, <1>3, <1>5 DEF InMempool
<1> QED
  BY <1>4, <1>5 DEF OnChain, Executed

\* What is not a custom tx moves none.
LEMMA OtherTx ==
  ASSUME OnceInv, NEW h, NEW tx, Cli(h, tx) \/ SendTx(tx), UNCHANGED <<proposals, msgsRun>>,
         ~(tx.kind \in {"proposal", "msg"} /\ tx.what \in Customs)
  PROVE  \A i \in Customs : InOnePlace(i)' /\ (Left(i)' => Left(i))
<1>1. mempool' = Append(mempool, tx) \/ mempool' = mempool
  BY Zenon DEF Cli, SendTx
<1>2. CASE mempool' = mempool
  BY <1>2, SamePlaces DEF OnceInv
<1>3. CASE mempool' = Append(mempool, tx)
  <2> TAKE i \in Customs
  <2>1. InMempool(i)' = InMempool(i) /\ OnChain(i)' = OnChain(i) /\ Executed(i)' = Executed(i)
    BY <1>3, OneMore DEF OnceInv
  <2> QED
    BY <2>1 DEF OnceInv, InOnePlace, Left
<1> QED
  BY <1>1, <1>2, <1>3

\* An answer tells whether the tx is in the mempool, unless it may be lost.
LEMMA AnswerTells ==
  ASSUME "answerLost" \notin Faults, TypeOK, NEW h \in Handlers, NEW tx, Cli(h, tx)
  PROVE  \/ mempool' = Append(mempool, tx) /\ answer' = [answer EXCEPT ![h] = "accepted"]
         \/ UNCHANGED mempool
BY DEF Cli, Fault

\* A custom tx is submitted only when it is nowhere.
LEMMA SubmitOnce ==
  ASSUME "answerLost" \notin Faults, OnceInv, NEW h \in Handlers, NEW i \in Customs,
         NEW from, NEW to \in {"govSent", "msgSent"}, NEW tx,
         pc[h] = from, from \in {"gov", "msgs"}, pc' = [pc EXCEPT ![h] = to], i \in todo[h],
         item' = [item EXCEPT ![h] = i], Cli(h, tx), tx.what = i,
         UNCHANGED <<customDone, todo, events, proposals, msgsRun>>
  PROVE  /\ Serial' /\ \A g \in Handlers : Lists(g)'
         /\ \A j \in Customs : InOnePlace(j)' /\ (Left(j)' => Noted(j)')
<1>1. /\ TypeOK /\ Serial /\ pc \in [Handlers -> PcStates]
      /\ DOMAIN item = Handlers /\ DOMAIN answer = Handlers
  BY DEF OnceInv, TypeOK
<1>2. Serial' /\ \A g \in Handlers : g # h => pc[g] = "idle" /\ pc'[g] = "idle"
  BY <1>1, SerialStep
<1>3. \A g \in Handlers : Lists(g)'
  BY <1>1, <1>2 DEF OnceInv, Lists
<1>4. i \notin customDone /\ ~Noted(i)
  BY <1>2 DEF OnceInv, Lists, Noted
<1>5. InMempool(i) = {} /\ OnChain(i) = {} /\ Executed(i) = {}
  BY <1>4 DEF OnceInv, Left
<1>6. \A j \in Customs : j # i => (Noted(j) => Noted(j)')
  BY <1>2 DEF Noted
<1>7. CASE UNCHANGED mempool
  <2>1. \A j \in Customs : InOnePlace(j)' /\ (Left(j)' => Left(j))
    BY <1>7, SamePlaces DEF OnceInv
  <2>2. ~Left(i)
    BY <1>5 DEF Left
  <2> QED
    BY <1>2, <1>3, <1>6, <2>1, <2>2 DEF OnceInv
<1>8. CASE mempool' = Append(mempool, tx) /\ answer' = [answer EXCEPT ![h] = "accepted"]
  <2>1. Noted(i)'
    BY <1>1, <1>8 DEF Noted
  <2>2. InMempool(i)' \subseteq {Len(mempool) + 1} /\ OnChain(i)' = {} /\ Executed(i)' = {}
    BY <1>1, <1>5, <1>8, OneMore
  <2>3. InOnePlace(i)'
    BY <2>2 DEF InOnePlace, Single
  <2>4. ASSUME NEW j \in Customs, j # i
        PROVE  InOnePlace(j)' /\ (Left(j)' => Left(j))
    <3>1. InMempool(j)' = InMempool(j) /\ OnChain(j)' = OnChain(j) /\ Executed(j)' = Executed(j)
      BY <1>1, <1>8, <2>4, OneMore
    <3> QED
      BY <3>1 DEF OnceInv, InOnePlace, Left
  <2> QED
    BY <1>2, <1>3, <1>6, <2>1, <2>3, <2>4 DEF OnceInv
<1> QED
  BY <1>1, <1>7, <1>8, AnswerTells

LEMMA HandlerOnce ==
  ASSUME OneAtATime, "answerLost" \notin Faults, OnceInv, NEW h \in Handlers,
         HandlerStep(h) \/ Abort(h)
  PROVE  OnceInv'
<1> USE DEF runnerVars, localVars, chainVars
<1>a. TypeOK /\ Serial /\ TypeOK'
  BY HandlerTypeOK DEF OnceInv
<1>b. /\ pc \in [Handlers -> PcStates] /\ DOMAIN todo = Handlers
      /\ DOMAIN item = Handlers /\ DOMAIN answer = Handlers
  BY <1>a DEF TypeOK
<1>1. CASE OnFundBlock(h)
  <2>1. /\ events # <<>> /\ events' = Tail(events) /\ pc' = [pc EXCEPT ![h] = "checks"]
        /\ UNCHANGED <<customDone, todo, item, answer, mempool, proposals, msgsRun>>
        /\ pc[h] = "idle"
    BY <1>1 DEF OnFundBlock, Goto
  <2>2. Serial'
    <3>1. CASE Prompt
      <4>1. Len(events) = 1 /\ \A g \in Handlers : pc[g] = "idle"
        BY <1>a, <2>1, <3>1 DEF Serial
      <4>2. events' = <<>>
        <5>1. events \in Seq(0 .. chainHeight)
          BY <1>a DEF TypeOK
        <5>2. Tail(events) \in Seq(0 .. chainHeight) /\ Len(Tail(events)) = Len(events) - 1
          BY <2>1, <5>1, HeadTailProperties
        <5> QED
          BY <2>1, <4>1, <5>2, EmptySeq
      <4> QED
        BY <1>b, <2>1, <4>1, <4>2 DEF Serial
    <3>2. CASE ~Prompt
      BY <3>2 DEF OneAtATime, Serial
    <3> QED
      BY <3>1, <3>2
  <2>3. \A g \in Handlers : Lists(g)'
    BY <1>b, <2>1 DEF OnceInv, Lists
  <2>4. \A i \in Customs : InOnePlace(i)' /\ (Left(i)' => Left(i)) /\ (Noted(i) => Noted(i)')
    BY <1>b, <2>1, SamePlaces DEF OnceInv, Noted
  <2> QED
    BY <1>a, <2>2, <2>3, <2>4 DEF OnceInv
<1>2. CASE StartCustomGov(h) \/ StartCustomMsgs(h) \/ StartVotes(h) \/ CustomMsgsDone(h)
           \/ VotesDone(h) \/ Others(h) \/ Compose(h) \/ Abort(h) \/ ProposalSubmitted(h)
  <2>1. /\ pc[h] \notin {"idle", "govSent", "msgSent"}
        /\ \E to \in PcStates \ {"govSent", "msgSent"} :
             /\ pc' = [pc EXCEPT ![h] = to]
             /\ to \in {"gov", "msgs"} => todo'[h] \cap customDone = {}
        /\ \A g \in Handlers : g # h => todo'[g] = todo[g] /\ answer'[g] = answer[g]
        /\ UNCHANGED <<events, customDone, item, mempool, proposals, msgsRun>>
    <3>1. CASE StartCustomGov(h) \/ StartCustomMsgs(h) \/ StartVotes(h)
      <4>1. /\ pc[h] \in {"checks", "gov", "validators"}
            /\ \E to \in {"gov", "msgs", "idle", "votes"} :
                 /\ pc' = [pc EXCEPT ![h] = to]
                 /\ to \in {"gov", "msgs"} => todo'[h] \cap customDone = {}
            /\ \A g \in Handlers : g # h => todo'[g] = todo[g]
            /\ UNCHANGED <<answer, events, customDone, item, mempool, proposals, msgsRun>>
        BY <1>b, <3>1 DEF StartCustomGov, StartCustomMsgs, StartVotes, Goto, DueCustomTxs
      <4> QED
        BY <4>1 DEF PcStates
    <3>2. CASE CustomMsgsDone(h) \/ VotesDone(h) \/ Others(h) \/ Compose(h) \/ Abort(h)
               \/ ProposalSubmitted(h)
      <4>1. /\ pc[h] \in {"checks", "msgs", "votes", "validators", "others", "compose", "submitted"}
            /\ \E to \in {"validators", "others", "compose", "idle", "send"} :
                 pc' = [pc EXCEPT ![h] = to]
            /\ UNCHANGED <<events, customDone, todo, item, mempool, proposals, msgsRun>>
            /\ answer' \in {answer, [answer EXCEPT ![h] = None]}
        BY <3>2 DEF CustomMsgsDone, VotesDone, Others, Compose, Abort, ProposalSubmitted, Goto
      <4> QED
        BY <1>b, <4>1 DEF PcStates
    <3> QED
      BY <1>2, <3>1, <3>2
  <2>2. Serial' /\ \A g \in Handlers : g # h => pc[g] = "idle" /\ pc'[g] = "idle"
    BY <1>a, <2>1, SerialStep
  <2>3. \A g \in Handlers : Lists(g)'
    BY <1>b, <2>1, <2>2 DEF OnceInv, Lists
  <2>4. \A i \in Customs : InOnePlace(i)' /\ (Left(i)' => Left(i)) /\ (Noted(i) => Noted(i)')
    BY <1>b, <2>1, <2>2, SamePlaces DEF OnceInv, Noted
  <2> QED
    BY <1>a, <2>2, <2>3, <2>4 DEF OnceInv
<1>3. CASE SubmitCustomGov(h) \/ SubmitCustomMsg(h)
  <2>1. \E i \in Customs, from \in {"gov", "msgs"}, to \in {"govSent", "msgSent"} : \E tx :
          /\ pc[h] = from /\ pc' = [pc EXCEPT ![h] = to] /\ i \in todo[h]
          /\ item' = [item EXCEPT ![h] = i] /\ Cli(h, tx) /\ tx.what = i
    <3>1. CASE SubmitCustomGov(h)
      <4>1. PICK i \in todo[h], v \in Validators :
              item' = [item EXCEPT ![h] = i] /\ Cli(h, GovTx(v, i))
        BY <3>1 DEF SubmitCustomGov
      <4>2. pc[h] = "gov" /\ pc' = [pc EXCEPT ![h] = "govSent"]
        BY <3>1 DEF SubmitCustomGov, Goto
      <4>3. i \in Customs /\ GovTx(v, i).what = i
        BY <1>a, <4>1, <4>2 DEF TypeOK, Local, Customs, GovTx
      <4> QED
        BY <4>1, <4>2, <4>3
    <3>2. CASE SubmitCustomMsg(h)
      <4>1. PICK i \in todo[h] : item' = [item EXCEPT ![h] = i] /\ Cli(h, MsgTx(i))
        BY <3>2 DEF SubmitCustomMsg
      <4>2. pc[h] = "msgs" /\ pc' = [pc EXCEPT ![h] = "msgSent"]
        BY <3>2 DEF SubmitCustomMsg, Goto
      <4>3. i \in Customs /\ MsgTx(i).what = i
        BY <1>a, <4>1, <4>2 DEF TypeOK, Local, Customs, MsgTx
      <4> QED
        BY <4>1, <4>2, <4>3
    <3> QED
      BY <1>3, <3>1, <3>2
  <2>2. UNCHANGED <<customDone, todo, events, proposals, msgsRun>>
    BY <1>3 DEF SubmitCustomGov, SubmitCustomMsg
  <2>3. /\ Serial' /\ \A g \in Handlers : Lists(g)'
        /\ \A j \in Customs : InOnePlace(j)' /\ (Left(j)' => Noted(j)')
    BY <2>1, <2>2, SubmitOnce
  <2> QED
    BY <1>a, <2>3 DEF OnceInv
<1>4. CASE CustomGovAnswered(h) \/ CustomMsgAnswered(h)
  <2>1. /\ \/ pc[h] = "govSent" /\ pc' = [pc EXCEPT ![h] = "gov"]
           \/ pc[h] = "msgSent" /\ pc' = [pc EXCEPT ![h] = "msgs"]
        /\ customDone' = IF Settles(h) THEN customDone \cup {item[h]} ELSE customDone
        /\ todo' = [todo EXCEPT ![h] = @ \ {item[h]}]
        /\ item' = [item EXCEPT ![h] = None] /\ answer' = [answer EXCEPT ![h] = None]
        /\ UNCHANGED <<events, mempool, proposals, msgsRun>>
    BY <1>4 DEF CustomGovAnswered, CustomMsgAnswered, Answered, Goto
  <2>2. Serial' /\ \A g \in Handlers : g # h => pc[g] = "idle" /\ pc'[g] = "idle"
    BY <1>a, <2>1, SerialStep
  <2>3. \A g \in Handlers : Lists(g)'
    BY <1>b, <2>1, <2>2 DEF OnceInv, Lists
  <2>4. \A i \in Customs : Noted(i) => Noted(i)'
    BY <1>b, <2>1, <2>2 DEF Noted, Settles
  <2>5. \A i \in Customs : InOnePlace(i)' /\ (Left(i)' => Left(i))
    BY <2>1, SamePlaces DEF OnceInv
  <2> QED
    BY <1>a, <2>2, <2>3, <2>4, <2>5 DEF OnceInv
<1>5. CASE SubmitUpgradeProposal(h) \/ SubmitNewProposal(h) \/ VoteOnProposal(h) \/ Send(h)
  <2>1. /\ pc[h] \in {"validators", "votes", "send"}
        /\ \E to \in {"submitted", "others", "votes", "idle"} : pc' = [pc EXCEPT ![h] = to]
        /\ UNCHANGED <<events, customDone, item, proposals, msgsRun>>
    BY <1>5 DEF SubmitUpgradeProposal, SubmitNewProposal, VoteOnProposal, Send, Goto
  <2>2. Serial' /\ \A g \in Handlers : g # h => pc[g] = "idle" /\ pc'[g] = "idle"
    BY <1>a, <2>1, SerialStep
  <2>3. \A g \in Handlers : Lists(g)'
    BY <1>b, <2>1, <2>2 DEF OnceInv, Lists
  <2>4. \A i \in Customs : Noted(i) => Noted(i)'
    BY <1>b, <2>1, <2>2 DEF Noted
  <2>5. \A i \in Customs : InOnePlace(i)' /\ (Left(i)' => Left(i))
    <3> DEFINE Custom(tx) == tx.kind \in {"proposal", "msg"} /\ tx.what \in Customs
    <3>1. Upgrade \notin Customs /\ Text \notin Customs
      BY RunnerAssumption
    <3>2. CASE SubmitUpgradeProposal(h)
      <4>1. PICK v \in Validators : Cli(h, GovTx(v, Upgrade))
        BY <3>2 DEF SubmitUpgradeProposal
      <4>2. ~Custom(GovTx(v, Upgrade))
        BY <3>1 DEF GovTx
      <4> QED
        BY <2>1, <4>1, <4>2, OtherTx
    <3>3. CASE SubmitNewProposal(h)
      <4>1. UNCHANGED mempool \/ \E v \in Validators : SendTx(GovTx(v, Text))
        BY <3>3 DEF SubmitNewProposal
      <4>2. \A v : ~Custom(GovTx(v, Text))
        BY <3>1 DEF GovTx
      <4>3. CASE UNCHANGED mempool
        BY <2>1, <4>3, SamePlaces DEF OnceInv
      <4>4. CASE \E v \in Validators : SendTx(GovTx(v, Text))
        BY <2>1, <4>2, <4>4, OtherTx
      <4> QED
        BY <4>1, <4>3, <4>4
    <3>4. CASE VoteOnProposal(h)
      <4>1. PICK id, option : SendTx(VoteTx(id, option))
        BY <3>4 DEF VoteOnProposal
      <4>2. ~Custom(VoteTx(id, option))
        BY DEF VoteTx
      <4> QED
        BY <2>1, <4>1, <4>2, OtherTx
    <3>5. CASE Send(h)
      <4>1. SendTx(ShapedTx(composed[h]))
        BY <3>5 DEF Send
      <4>2. ~Custom(ShapedTx(composed[h]))
        BY DEF ShapedTx
      <4> QED
        BY <2>1, <4>1, <4>2, OtherTx
    <3> QED
      BY <1>5, <3>2, <3>3, <3>4, <3>5
  <2> QED
    BY <1>a, <2>2, <2>3, <2>4, <2>5 DEF OnceInv
<1> QED
  BY <1>1, <1>2, <1>3, <1>4, <1>5 DEF HandlerStep

\* What a block of the first n txs makes of them: each new proposal is one tx's, and some tx
\* proposes only if there is one ...
Opens(n, f) ==
  LET new == DOMAIN proposals' \ DOMAIN proposals
  IN  /\ DOMAIN proposals \subseteq DOMAIN proposals'
      /\ \A id \in new :
           /\ f[id] \in 1 .. n /\ mempool[f[id]].kind = "proposal"
           /\ proposals'[id] =
                [what |-> mempool[f[id]].what, opened |-> chainHeight', vote |-> None]
      /\ \A a, b \in new : f[a] = f[b] => a = b
      /\ (\E k \in 1 .. n : mempool[k].kind = "proposal") => new # {}

\* ... so is each msg executed ...
Executes(n, g) ==
  LET new == DOMAIN msgsRun' \ DOMAIN msgsRun
  IN  /\ DOMAIN msgsRun \subseteq DOMAIN msgsRun'
      /\ \A e \in DOMAIN msgsRun : msgsRun'[e] = msgsRun[e]
      /\ \A e \in new : /\ g[e] \in 1 .. n /\ mempool[g[e]].kind = "msg"
                        /\ msgsRun'[e] = mempool[g[e]].what
      /\ \A a, b \in new : g[a] = g[b] => a = b

\* ... and a proposal that was there takes a vote, if it is open and there is one.
Votes(n) ==
  \A id \in DOMAIN proposals :
    \/ /\ proposals'[id] = proposals[id]
       /\ id \in Open => \A k \in 1 .. n : ~(mempool[k].kind = "vote" /\ mempool[k].what = id)
    \/ /\ id \in Open
       /\ \E k \in 1 .. n : /\ mempool[k].kind = "vote" /\ mempool[k].what = id
                            /\ mempool[k].option \in {"yes", "no"}
                            /\ proposals'[id] = [proposals[id] EXCEPT !.vote = mempool[k].option]

\* A vote leaves what a proposal is about.
LEMMA SameProposal ==
  ASSUME TypeOK, NEW n, Votes(n), NEW id \in DOMAIN proposals
  PROVE  /\ proposals'[id].what = proposals[id].what
         /\ proposals'[id].opened = proposals[id].opened
<1>1. proposals \in Seq([what : Whats, opened : 1 .. chainHeight, vote : {None, "yes", "no"}])
  BY DEF TypeOK
<1>2. id \in 1 .. Len(proposals)
  BY <1>1
<1>3. proposals[id] \in [what : Whats, opened : 1 .. chainHeight, vote : {None, "yes", "no"}]
  BY <1>1, <1>2, SeqElement
<1>4. \/ proposals'[id] = proposals[id]
      \/ \E k \in 1 .. n : proposals'[id] = [proposals[id] EXCEPT !.vote = mempool[k].option]
  BY DEF Votes
<1>5. CASE \E k \in 1 .. n : proposals'[id] = [proposals[id] EXCEPT !.vote = mempool[k].option]
  BY <1>3, <1>5
<1> QED
  BY <1>4, <1>5

LEMMA BlockFlow ==
  ASSUME TypeOK, NewBlock
  PROVE  \E n \in 0 .. Len(mempool) :
           /\ Len(mempool) - n <= (IF Prompt THEN 0 ELSE MaxLeft)
           /\ \/ mempool' = SubSeq(mempool, n + 1, Len(mempool)) /\ UNCHANGED faults
              \/ mempool' = <<>> /\ Fault("halt")
           /\ Votes(n)
           /\ \E f : Opens(n, f)
           /\ \E g : Executes(n, g)
<1>a. WaitingOK /\ OnChainOK /\ mempool \in Seq(Txs) /\ Len(mempool) \in Nat
  BY TypeParts DEF WaitingOK
<1>1. PICK n \in 0 .. Len(mempool) :
         /\ Len(mempool) - n <= (IF Prompt THEN 0 ELSE MaxLeft)
         /\ proposals' = AfterVotes(SubSeq(mempool, 1, n))
                           \o Opened(SubSeq(mempool, 1, n), chainHeight')
         /\ msgsRun' = msgsRun \o Run(SubSeq(mempool, 1, n))
         /\ \/ mempool' = SubSeq(mempool, n + 1, Len(mempool)) /\ UNCHANGED faults
            \/ mempool' = <<>> /\ Fault("halt")
  BY <1>a, BlockParts
<1> DEFINE txs == SubSeq(mempool, 1, n)
           P == DOMAIN proposals
           K == OfKind(txs, "proposal")
           M == OfKind(txs, "msg")
<1>2. /\ txs \in Seq(Txs) /\ DOMAIN txs = 1 .. n
      /\ \A k \in 1 .. n : txs[k] = mempool[k]
  BY <1>a, Included
<1>3. /\ proposals' = AfterVotes(txs) \o Opened(txs, chainHeight')
      /\ msgsRun' = msgsRun \o Run(txs)
  BY <1>1
<1> HIDE DEF txs
<1>4. /\ AfterVotes(txs) \in
           Seq([what : Whats, opened : 1 .. chainHeight, vote : {None, "yes", "no"}])
      /\ Len(AfterVotes(txs)) = Len(proposals) /\ Len(proposals) \in Nat
      /\ P = 1 .. Len(proposals)
  BY <1>a, <1>2, AfterVotesTyped DEF OnChainOK
<1>5. /\ Cardinality(K) \in Nat /\ (K # {} => Cardinality(K) # 0)
      /\ \E f : Proposes(f, txs, chainHeight')
  BY <1>2, OpenedFrom
<1>6. PICK f0 : /\ Enumerates(f0, K)
                /\ Opened(txs, chainHeight') =
                     [i \in 1 .. Cardinality(K) |->
                        [what |-> txs[f0[i]].what, opened |-> chainHeight', vote |-> None]]
  BY <1>5 DEF Proposes
<1>7. /\ DOMAIN proposals' = 1 .. Len(proposals) + Cardinality(K)
      /\ \A id \in 1 .. Len(proposals) : proposals'[id] = AfterVotes(txs)[id]
      /\ \A i \in 1 .. Cardinality(K) :
           proposals'[Len(proposals) + i] =
             [what |-> txs[f0[i]].what, opened |-> chainHeight', vote |-> None]
  <2> DEFINE A == AfterVotes(txs)
             O == Opened(txs, chainHeight')
  <2>1. \E S : A \in Seq(S)
    BY <1>4
  <2>2. Len(O) = Cardinality(K) /\ \E S : O \in Seq(S)
    <3>1. DOMAIN O = 1 .. Cardinality(K)
      BY <1>6
    <3>2. O \in Seq({O[i] : i \in 1 .. Cardinality(K)})
      <4> HIDE DEF O
      <4>1. O = [i \in 1 .. Cardinality(K) |-> O[i]]
        BY <1>6 DEF O
      <4> QED
        BY <1>5, <4>1, SeqDef
    <3> HIDE DEF O
    <3> QED
      BY <1>5, <3>1, <3>2
  <2>3. proposals' = A \o O /\ Len(A) = Len(proposals)
    BY <1>3, <1>4
  <2>4. \A i \in 1 .. Cardinality(K) :
          O[i] = [what |-> txs[f0[i]].what, opened |-> chainHeight', vote |-> None]
    BY <1>6
  <2> HIDE DEF A, O, K
  <2>5. /\ DOMAIN proposals' = 1 .. Len(proposals) + Cardinality(K)
        /\ \A id \in 1 .. Len(proposals) : proposals'[id] = A[id]
        /\ \A i \in 1 .. Cardinality(K) : proposals'[Len(proposals) + i] = O[i]
    <3>1. PICK S : A \in Seq(S)
      BY <2>1
    <3>2. PICK T : O \in Seq(T)
      BY <2>2
    <3>3. A \in Seq(S \cup T) /\ O \in Seq(S \cup T)
      BY <3>1, <3>2, SeqMonotonic
    <3>4. /\ A \o O \in Seq(S \cup T) /\ Len(A \o O) = Len(A) + Len(O)
          /\ \A i \in 1 .. Len(A) + Len(O) :
               (A \o O)[i] = IF i <= Len(A) THEN A[i] ELSE O[i - Len(A)]
      BY <3>3, ConcatProperties
    <3>5. DOMAIN (A \o O) = 1 .. Len(A \o O)
      BY <3>4
    <3>6. Len(A) \in Nat /\ Len(A) = Len(proposals) /\ Len(O) = Cardinality(K)
          /\ Cardinality(K) \in Nat
      BY <1>4, <1>5, <2>2, <2>3
    <3>7. DOMAIN proposals' = 1 .. Len(proposals) + Cardinality(K)
      BY <2>3, <3>4, <3>5, <3>6
    <3>8. \A id \in 1 .. Len(proposals) : proposals'[id] = A[id]
      BY <2>3, <3>4, <3>6
    <3>9. \A i \in 1 .. Cardinality(K) : proposals'[Len(proposals) + i] = O[i]
      <4> SUFFICES ASSUME NEW i \in 1 .. Cardinality(K)
                   PROVE  proposals'[Len(proposals) + i] = O[i]
        OBVIOUS
      <4>1. /\ Len(A) + i \in 1 .. Len(A) + Len(O) /\ ~ (Len(A) + i <= Len(A))
            /\ Len(A) + i - Len(A) = i
        BY <3>6
      <4>2. (A \o O)[Len(A) + i] = O[i]
        BY <3>4, <4>1
      <4> QED
        BY <2>3, <3>6, <4>2
    <3> QED
      BY <3>7, <3>8, <3>9
  <2> QED
    BY <2>4, <2>5 DEF A
<1>8. Votes(n)
  <2> SUFFICES ASSUME NEW id \in DOMAIN proposals
               PROVE  \/ /\ proposals'[id] = proposals[id]
                         /\ id \in Open => \A k \in 1 .. n :
                              ~(mempool[k].kind = "vote" /\ mempool[k].what = id)
                      \/ /\ id \in Open
                         /\ \E k \in 1 .. n :
                              /\ mempool[k].kind = "vote" /\ mempool[k].what = id
                              /\ mempool[k].option \in {"yes", "no"}
                              /\ proposals'[id] =
                                   [proposals[id] EXCEPT !.vote = mempool[k].option]
    BY DEF Votes
  <2>1. proposals'[id] = AfterVotes(txs)[id]
    BY <1>4, <1>7
  <2>2. \/ /\ AfterVotes(txs)[id] = proposals[id]
           /\ id \in Open => \A k \in OfKind(txs, "vote") : txs[k].what # id
        \/ /\ id \in Open
           /\ \E k \in OfKind(txs, "vote") :
                /\ txs[k].what = id /\ txs[k].option \in {"yes", "no"}
                /\ AfterVotes(txs)[id] = [proposals[id] EXCEPT !.vote = txs[k].option]
    <3>1. Takes(AfterVotes(txs)[id], id, txs)
      BY <1>2, VotedOn
    <3> QED
      BY <3>1, Zenon DEF Takes
  <2>3. /\ \A k \in OfKind(txs, "vote") : k \in 1 .. n /\ txs[k] = mempool[k] /\ mempool[k].kind = "vote"
        /\ \A k \in 1 .. n : mempool[k].kind = "vote" => k \in OfKind(txs, "vote") /\ txs[k] = mempool[k]
    BY <1>2 DEF OfKind
  <2>4. CASE /\ AfterVotes(txs)[id] = proposals[id]
             /\ id \in Open => \A k \in OfKind(txs, "vote") : txs[k].what # id
    BY <2>1, <2>3, <2>4
  <2>5. CASE /\ id \in Open
             /\ \E k \in OfKind(txs, "vote") :
                  /\ txs[k].what = id /\ txs[k].option \in {"yes", "no"}
                  /\ AfterVotes(txs)[id] = [proposals[id] EXCEPT !.vote = txs[k].option]
    <3>1. PICK k \in OfKind(txs, "vote") :
                  /\ txs[k].what = id /\ txs[k].option \in {"yes", "no"}
                  /\ AfterVotes(txs)[id] = [proposals[id] EXCEPT !.vote = txs[k].option]
      BY <2>5
    <3>2. k \in 1 .. n /\ txs[k] = mempool[k] /\ mempool[k].kind = "vote"
      BY <2>3
    <3> QED
      BY <2>1, <2>5, <3>1, <3>2
  <2> QED
    BY <2>2, <2>4, <2>5
<1>9. \E f : Opens(n, f)
  <2> DEFINE f == [id \in DOMAIN proposals' |-> f0[id - Len(proposals)]]
  <2>1. ASSUME NEW id \in DOMAIN proposals' \ DOMAIN proposals
        PROVE  /\ id - Len(proposals) \in 1 .. Cardinality(K) /\ id \in Int
               /\ f[id] = f0[id - Len(proposals)] /\ f[id] \in K
               /\ f[id] \in 1 .. n /\ mempool[f[id]].kind = "proposal"
               /\ proposals'[id] =
                    [what |-> mempool[f[id]].what, opened |-> chainHeight', vote |-> None]
    <3>1. id - Len(proposals) \in 1 .. Cardinality(K) /\ f[id] = f0[id - Len(proposals)] /\ id \in Int
      BY <1>4, <1>5, <1>7, <2>1
    <3>2. f[id] \in K
      BY <1>6, <3>1 DEF Enumerates
    <3>3. id = Len(proposals) + (id - Len(proposals))
      BY <1>4, <3>1
    <3>4. f[id] \in 1 .. n /\ txs[f[id]] = mempool[f[id]] /\ mempool[f[id]].kind = "proposal"
      BY <1>2, <3>2 DEF OfKind
    <3>5. proposals'[Len(proposals) + (id - Len(proposals))] =
            [what |-> txs[f0[id - Len(proposals)]].what, opened |-> chainHeight', vote |-> None]
      BY <1>7, <3>1
    <3> HIDE DEF f, K
    <3> QED
      BY <3>1, <3>2, <3>3, <3>4, <3>5
  <2>2. ASSUME NEW a \in DOMAIN proposals' \ DOMAIN proposals,
               NEW b \in DOMAIN proposals' \ DOMAIN proposals, f[a] = f[b]
        PROVE  a = b
    <3> HIDE DEF f, K
    <3>1. a - Len(proposals) = b - Len(proposals)
      BY <1>6, <2>1, <2>2 DEF Enumerates
    <3> QED
      BY <1>4, <2>1, <3>1
  <2>3. (\E k \in 1 .. n : mempool[k].kind = "proposal") => DOMAIN proposals' \ DOMAIN proposals # {}
    <3> SUFFICES ASSUME NEW k \in 1 .. n, mempool[k].kind = "proposal"
                 PROVE  DOMAIN proposals' \ DOMAIN proposals # {}
      OBVIOUS
    <3>1. k \in K
      BY <1>2 DEF OfKind
    <3>2. Cardinality(K) >= 1
      BY <1>5, <3>1
    <3> HIDE DEF K
    <3>3. Len(proposals) + 1 \in DOMAIN proposals' \ DOMAIN proposals
      BY <1>4, <1>5, <1>7, <3>2
    <3> QED
      BY <3>3
  <2>4. DOMAIN proposals \subseteq DOMAIN proposals'
    <3> HIDE DEF K
    <3> QED
      BY <1>4, <1>5, <1>7
  <2> HIDE DEF f, K
  <2>5. Opens(n, f)
    BY <2>1, <2>2, <2>3, <2>4 DEF Opens
  <2> QED
    BY <2>5
<1>10. \E g : Executes(n, g)
  <2>1. PICK g0 : /\ Enumerates(g0, M) /\ Cardinality(M) \in Nat
                  /\ Run(txs) = [i \in 1 .. Cardinality(M) |-> txs[g0[i]].what]
    <3>1. Cardinality(M) \in Nat /\ \E g : Runs(g, txs)
      BY <1>2, RunFrom
    <3> QED
      BY <3>1 DEF Runs
  <2>2. Len(msgsRun) \in Nat /\ DOMAIN msgsRun = 1 .. Len(msgsRun) /\ \E S : msgsRun \in Seq(S)
    BY <1>a DEF OnChainOK
  <2>3. /\ DOMAIN msgsRun' = 1 .. Len(msgsRun) + Cardinality(M)
        /\ \A e \in 1 .. Len(msgsRun) : msgsRun'[e] = msgsRun[e]
        /\ \A i \in 1 .. Cardinality(M) : msgsRun'[Len(msgsRun) + i] = txs[g0[i]].what
    <3> DEFINE R == Run(txs)
    <3>1. R \in Seq({R[i] : i \in 1 .. Cardinality(M)}) /\ Len(R) = Cardinality(M)
      <4>1. R = [i \in 1 .. Cardinality(M) |-> R[i]]
        BY <2>1
      <4> HIDE DEF R, M
      <4>2. R \in Seq({R[i] : i \in 1 .. Cardinality(M)})
        BY <2>1, <4>1, SeqDef
      <4>3. DOMAIN R = 1 .. Cardinality(M)
        BY <4>1
      <4> QED
        BY <2>1, <4>2, <4>3
    <3>2. \A i \in 1 .. Cardinality(M) : R[i] = txs[g0[i]].what
      BY <2>1
    <3>3. msgsRun' = msgsRun \o R
      BY <1>3
    <3> HIDE DEF R, M
    <3>4. PICK S : msgsRun \in Seq(S)
      BY <2>2
    <3>5. PICK T : R \in Seq(T)
      BY <3>1
    <3>6. msgsRun \in Seq(S \cup T) /\ R \in Seq(S \cup T)
      BY <3>4, <3>5, SeqMonotonic
    <3>7. /\ msgsRun' \in Seq(S \cup T) /\ Len(msgsRun') = Len(msgsRun) + Len(R)
          /\ \A e \in 1 .. Len(msgsRun) + Len(R) :
               msgsRun'[e] = IF e <= Len(msgsRun) THEN msgsRun[e] ELSE R[e - Len(msgsRun)]
      BY <3>3, <3>6, ConcatProperties
    <3>8. Len(msgsRun) \in Nat /\ Len(R) = Cardinality(M) /\ Cardinality(M) \in Nat
      BY <2>1, <2>2, <3>1
    <3>9. DOMAIN msgsRun' = 1 .. Len(msgsRun) + Cardinality(M)
      BY <3>7, <3>8
    <3>10. \A e \in 1 .. Len(msgsRun) : msgsRun'[e] = msgsRun[e]
      BY <3>7, <3>8
    <3>11. \A i \in 1 .. Cardinality(M) : msgsRun'[Len(msgsRun) + i] = txs[g0[i]].what
      <4> SUFFICES ASSUME NEW i \in 1 .. Cardinality(M)
                   PROVE  msgsRun'[Len(msgsRun) + i] = txs[g0[i]].what
        OBVIOUS
      <4>1. /\ Len(msgsRun) + i \in 1 .. Len(msgsRun) + Len(R)
            /\ ~ (Len(msgsRun) + i <= Len(msgsRun)) /\ Len(msgsRun) + i - Len(msgsRun) = i
        BY <3>8
      <4> QED
        BY <3>2, <3>7, <4>1
    <3> QED
      BY <3>9, <3>10, <3>11
  <2> DEFINE g == [e \in DOMAIN msgsRun' |-> g0[e - Len(msgsRun)]]
  <2>4. ASSUME NEW e \in DOMAIN msgsRun' \ DOMAIN msgsRun
        PROVE  /\ e - Len(msgsRun) \in 1 .. Cardinality(M) /\ e \in Int
               /\ g[e] = g0[e - Len(msgsRun)]
               /\ g[e] \in 1 .. n /\ mempool[g[e]].kind = "msg"
               /\ msgsRun'[e] = mempool[g[e]].what
    <3>1. e - Len(msgsRun) \in 1 .. Cardinality(M) /\ g[e] = g0[e - Len(msgsRun)] /\ e \in Int
      BY <2>1, <2>2, <2>3, <2>4
    <3>2. g[e] \in M
      BY <2>1, <3>1 DEF Enumerates
    <3>3. e = Len(msgsRun) + (e - Len(msgsRun))
      BY <2>2, <3>1
    <3>4. g[e] \in 1 .. n /\ txs[g[e]] = mempool[g[e]] /\ mempool[g[e]].kind = "msg"
      BY <1>2, <3>2 DEF OfKind
    <3>5. msgsRun'[Len(msgsRun) + (e - Len(msgsRun))] = txs[g0[e - Len(msgsRun)]].what
      BY <2>3, <3>1
    <3> HIDE DEF g, M
    <3> QED
      BY <3>1, <3>2, <3>3, <3>4, <3>5
  <2>5. ASSUME NEW a \in DOMAIN msgsRun' \ DOMAIN msgsRun,
               NEW b \in DOMAIN msgsRun' \ DOMAIN msgsRun, g[a] = g[b]
        PROVE  a = b
    <3> HIDE DEF g, M
    <3>1. a - Len(msgsRun) = b - Len(msgsRun)
      BY <2>1, <2>4, <2>5 DEF Enumerates
    <3> QED
      BY <2>2, <2>4, <3>1
  <2>6. DOMAIN msgsRun \subseteq DOMAIN msgsRun'
    <3> HIDE DEF M
    <3> QED
      BY <2>1, <2>2, <2>3
  <2> HIDE DEF g, M
  <2>7. Executes(n, g)
    BY <2>2, <2>3, <2>4, <2>5, <2>6 DEF Executes
  <2> QED
    BY <2>7
<1> QED
  BY <1>1, <1>8, <1>9, <1>10

\* A block moves a custom tx from the mempool on, or leaves it where it is.
LEMMA BlockOnePlace ==
  ASSUME TypeOK, NewBlock, NEW i \in Customs, InOnePlace(i)
  PROVE  InOnePlace(i)' /\ (Left(i)' => Left(i))
<1>1. PICK n \in 0 .. Len(mempool) :
         /\ \/ mempool' = SubSeq(mempool, n + 1, Len(mempool))
            \/ mempool' = <<>>
         /\ Votes(n)
         /\ \E f : Opens(n, f)
         /\ \E g : Executes(n, g)
  BY BlockFlow
<1>2. PICK f : Opens(n, f)
  BY <1>1
<1>3. PICK g : Executes(n, g)
  BY <1>1
<1>4. mempool \in Seq(Txs) /\ Len(mempool) \in Nat /\ DOMAIN mempool = 1 .. Len(mempool)
  BY DEF TypeOK
<1>5. ASSUME NEW id \in OnChain(i)', id \notin OnChain(i)
      PROVE  /\ id \in DOMAIN proposals' \ DOMAIN proposals
             /\ f[id] \in InMempool(i) /\ f[id] \in 1 .. n /\ mempool[f[id]].kind = "proposal"
  <2>1. id \in DOMAIN proposals' /\ proposals'[id].what = i
    BY DEF OnChain
  <2>2. id \notin DOMAIN proposals
    <3> SUFFICES ASSUME id \in DOMAIN proposals PROVE proposals[id].what = i
      BY <1>5 DEF OnChain
    <3> QED
      BY <1>1, <2>1, SameProposal
  <2>3. /\ f[id] \in 1 .. n /\ mempool[f[id]].kind = "proposal"
        /\ proposals'[id].what = mempool[f[id]].what
    BY <1>2, <2>1, <2>2 DEF Opens
  <2> QED
    BY <1>4, <2>1, <2>2, <2>3 DEF InMempool
<1>6. ASSUME NEW e \in Executed(i)', e \notin Executed(i)
      PROVE  /\ e \in DOMAIN msgsRun' \ DOMAIN msgsRun
             /\ g[e] \in InMempool(i) /\ g[e] \in 1 .. n /\ mempool[g[e]].kind = "msg"
  <2>1. e \in DOMAIN msgsRun' /\ msgsRun'[e] = i
    BY DEF Executed
  <2>2. e \notin DOMAIN msgsRun
    BY <1>3, <1>6, <2>1 DEF Executes, Executed
  <2>3. g[e] \in 1 .. n /\ mempool[g[e]].kind = "msg" /\ msgsRun'[e] = mempool[g[e]].what
    BY <1>3, <2>1, <2>2 DEF Executes
  <2> QED
    BY <1>4, <2>1, <2>2, <2>3 DEF InMempool
<1>7. ASSUME NEW k \in InMempool(i)'
      PROVE  n + k \in InMempool(i) /\ k \in Nat \ {0}
  <2>1. mempool' = SubSeq(mempool, n + 1, Len(mempool))
    BY <1>1, <1>7 DEF InMempool
  <2>2. /\ Len(mempool') = Len(mempool) - n /\ mempool' \in Seq(Txs)
        /\ \A j \in 1 .. Len(mempool) - n : mempool'[j] = mempool[n + j]
    BY <1>4, <2>1, Included
  <2>3. k \in 1 .. Len(mempool) - n
    BY <2>2 DEF InMempool
  <2> QED
    BY <1>4, <2>2, <2>3 DEF InMempool
<1>8. Single(InMempool(i))' /\ Single(OnChain(i))' /\ Single(Executed(i))'
  <2>1. ASSUME NEW a \in InMempool(i)', NEW b \in InMempool(i)' PROVE a = b
    <3>1. n + a = n + b
      BY <1>7 DEF InOnePlace, Single
    <3> QED
      BY <1>7, <3>1
  <2>2. ASSUME NEW a \in OnChain(i)', NEW b \in OnChain(i)' PROVE a = b
    <3>1. CASE a \in OnChain(i) /\ b \in OnChain(i)
      BY <3>1 DEF InOnePlace, Single
    <3>2. CASE a \notin OnChain(i) /\ b \notin OnChain(i)
      BY <1>2, <1>5, <3>2 DEF Opens, InOnePlace, Single
    <3>3. CASE (a \in OnChain(i)) # (b \in OnChain(i))
      BY <1>5, <3>3 DEF InOnePlace
    <3> QED
      BY <3>1, <3>2, <3>3
  <2>3. ASSUME NEW a \in Executed(i)', NEW b \in Executed(i)' PROVE a = b
    <3>1. CASE a \in Executed(i) /\ b \in Executed(i)
      BY <3>1 DEF InOnePlace, Single
    <3>2. CASE a \notin Executed(i) /\ b \notin Executed(i)
      BY <1>3, <1>6, <3>2 DEF Executes, InOnePlace, Single
    <3>3. CASE (a \in Executed(i)) # (b \in Executed(i))
      BY <1>6, <3>3 DEF InOnePlace
    <3> QED
      BY <3>1, <3>2, <3>3
  <2> QED
    BY <2>1, <2>2, <2>3 DEF Single
<1>9. ASSUME NEW k \in InMempool(i)'
      PROVE  OnChain(i)' = {} /\ Executed(i)' = {}
  <2>1. n + k \in InMempool(i) /\ n + k > n
    BY <1>7
  <2>2. OnChain(i) = {} /\ Executed(i) = {} /\ \A j \in InMempool(i) : j = n + k
    BY <2>1 DEF InOnePlace, Single
  <2>3. \A id : id \notin OnChain(i)'
    BY <1>5, <2>1, <2>2
  <2>4. \A e : e \notin Executed(i)'
    BY <1>6, <2>1, <2>2
  <2> QED
    BY <2>3, <2>4
<1>10. ASSUME NEW id \in OnChain(i)', NEW e \in Executed(i)' PROVE FALSE
  <2>1. CASE id \in OnChain(i) \/ e \in Executed(i)
    BY <1>5, <1>6, <2>1 DEF InOnePlace
  <2>2. CASE id \notin OnChain(i) /\ e \notin Executed(i)
    <3>1. f[id] = g[e]
      BY <1>5, <1>6, <2>2 DEF InOnePlace, Single
    <3> QED
      BY <1>5, <1>6, <2>2, <3>1
  <2> QED
    BY <2>1, <2>2
<1>11. Left(i)' => Left(i)
  BY <1>5, <1>6, <1>7 DEF Left
<1> QED
  BY <1>8, <1>9, <1>10, <1>11 DEF InOnePlace

LEMMA NextOnce ==
  ASSUME OneAtATime, "answerLost" \notin Faults, OnceInv, [Next]_vars
  PROVE  OnceInv'
<1>1. CASE \E h \in Handlers : HandlerStep(h) \/ Abort(h)
  BY <1>1, HandlerOnce
<1>2. CASE NewBlock
  <2>1. TypeOK'
    BY <1>2, BlockTypeOK DEF OnceInv
  <2>2. \A i \in Customs : InOnePlace(i)' /\ (Left(i)' => Left(i))
    BY <1>2, BlockOnePlace DEF OnceInv
  <2>3. /\ UNCHANGED <<customDone, pc, todo, item, answer>>
        /\ events' = <<chainHeight'>> \/ events' = <<>>
        /\ Prompt => \A h \in Handlers : pc[h] = "idle"
    BY <1>2 DEF NewBlock, runnerVars, localVars
  <2>4. Serial'
    <3>1. \A x : Len(<<x>>) = 1
      OBVIOUS
    <3> QED
      BY <2>3, <3>1 DEF OnceInv, Serial
  <2>5. /\ \A h \in Handlers : Lists(h)'
        /\ \A i \in Customs : Noted(i) => Noted(i)'
    BY <2>3 DEF OnceInv, Lists, Noted
  <2> QED
    BY <2>1, <2>2, <2>4, <2>5 DEF OnceInv
<1>3. CASE UNCHANGED vars
  <2>1. /\ UNCHANGED <<customDone, pc, todo, item, answer, events>>
        /\ UNCHANGED <<mempool, proposals, msgsRun>>
    BY <1>3 DEF vars, runnerVars, localVars, chainVars
  <2>2. TypeOK'
    BY <1>3, NextTypeOK DEF OnceInv
  <2> QED
    BY <2>1, <2>2, SamePlaces DEF OnceInv, Serial, Lists, Noted
<1> QED
  BY <1>1, <1>2, <1>3 DEF Next

\* A custom tx reaches the chain at most once, however often it was tried, as long as handlers
\* do not overlap and the answer of a CLI call that broadcast its tx is not lost; a tx lost in
\* a restart is not sent again (customMsgTxs: "Tried again next block only if it never reached
\* the chain").
THEOREM RunnerCustomOnce ==
  ASSUME OneAtATime, "answerLost" \notin Faults
  PROVE  Spec => []CustomOnce
<1>1. OnceInv /\ [Next]_vars => OnceInv'
  BY NextOnce
<1>2. OnceInv => CustomOnce
  <2> SUFFICES ASSUME OnceInv, NEW i \in Customs PROVE Copies(i) <= 1
    BY DEF CustomOnce
  <2>1. ASSUME NEW S, Single(S)
        PROVE  Cardinality(S) \in Nat /\ Cardinality(S) <= 1 /\ (S = {} => Cardinality(S) = 0)
    <3>1. CASE S = {}
      BY <3>1, FS_EmptySet
    <3>2. CASE S # {}
      <4>1. PICK x : S = {x}
        BY <2>1, <3>2 DEF Single
      <4> QED
        BY <4>1, FS_Singleton
    <3> QED
      BY <3>1, <3>2
  <2>2. InOnePlace(i)
    BY DEF OnceInv
  <2> QED
    BY <2>1, <2>2 DEF InOnePlace, Copies
<1> QED
  BY InitOnce, <1>1, <1>2, PTL DEF Spec

---------------------------------------------------------------------------
(* Custom proposals end as configured. *)

\* Blocks that wait for their handlers find at most one under way, and an event that has not
\* been delivered is the only thing going on.
Calm ==
  /\ \A g, h \in Handlers : pc[g] # "idle" /\ pc[h] # "idle" => g = h
  /\ events = <<>> \/ (events = <<chainHeight>> /\ AtRest)

\* Until a handler has submitted the upgrade proposal no other is due, because each block so
\* far has cost a fault.
Unproposed ==
  /\ ~proposalSubmitted /\ OfKind(mempool, "proposal") = {}
  /\ \A h \in Handlers :
       /\ pc[h] \in {"idle", "checks", "gov", "msgs", "msgSent", "validators"}
       /\ pc[h] = "gov" => todo[h] = {}
  /\ chainHeight <= faults + 1
  /\ events = <<>> /\ (\A h \in Handlers : pc[h] = "idle") => chainHeight <= faults

\* Then it waits, alone of its kind, for the block that opens it as the first.
Proposing ==
  /\ OfKind(mempool, "proposal") # {}
  /\ \A k \in OfKind(mempool, "proposal") : mempool[k].what = Upgrade
  /\ \/ ~proposalSubmitted /\ \E h \in Handlers : pc[h] = "submitted"
     \/ proposalSubmitted /\ \A h \in Handlers : pc[h] \in {"idle", "others", "compose", "send"}

UpgradeFirst ==
  \/ proposals = <<>> /\ ~planned /\ (Unproposed \/ Proposing)
  \/ proposals # <<>> /\ proposals[1].what = Upgrade /\ proposalSubmitted

\* What config.json wants of a custom proposal, the votes on it that wait, and whether one
\* waits or may still be cast by the handler of this block.
Wanted(id) == IF proposals[id].what \in PassesYes THEN "yes" ELSE "no"
VotesOn(id) == {k \in OfKind(mempool, "vote") : mempool[k].what = id}
BeforeVotes == {"checks", "gov", "govSent", "msgs", "msgSent", "validators"}
Chance(id) ==
  \/ VotesOn(id) # {} \/ events # <<>>
  \/ \E h \in Handlers : pc[h] \in BeforeVotes \/ (pc[h] = "votes" /\ id \in todo[h])

\* The upgrade may cost the event of its block, without a fault.
Halts == IF chainHeight >= UpgradeHeight THEN 1 ELSE 0

\* No vote but the wanted one is cast, and each block that passes without it costs a fault.
OnTrack(id) ==
  /\ proposals[id].vote \in {None, Wanted(id)}
  /\ \A k \in VotesOn(id) : mempool[k].option = Wanted(id)
  /\ proposals[id].vote = None =>
       /\ chainHeight <= proposals[id].opened + faults + Halts
       /\ ~Chance(id) => chainHeight + 1 <= proposals[id].opened + faults + Halts

\* The inductive strengthening.
CustomInv ==
  /\ TypeOK /\ Calm /\ UpgradeFirst
  /\ \A id \in DOMAIN proposals : proposals[id].what \in CustomGov => OnTrack(id)

\* There are more blocks to vote in than faults and the upgrade can take, and no custom
\* proposal is due while faults may still delay the upgrade's.
RoomForFaults ==
  /\ VotingBlocks > MaxFaults + 1
  /\ \A i \in CustomGov : SubmitHeight[i] > MaxFaults + 1

LEMMA InitCustom == Init => CustomInv
<1> SUFFICES ASSUME Init PROVE CustomInv
  OBVIOUS
<1>1. Calm
  BY DEF Init, Calm, AtRest
<1>2. OfKind(mempool, "proposal") = {}
  BY DEF Init, OfKind
<1>3. Unproposed
  BY <1>2 DEF Init, Unproposed
<1>4. UpgradeFirst
  BY <1>3 DEF Init, UpgradeFirst
<1>5. DOMAIN proposals = {}
  BY DEF Init
<1> QED
  BY <1>1, <1>4, <1>5, InitTypeOK DEF CustomInv

LEMMA NumbersAreNat ==
  ASSUME TypeOK
  PROVE  /\ chainHeight \in Nat /\ faults \in Nat /\ faults <= MaxFaults /\ height <= chainHeight
         /\ height \in Nat
         /\ UpgradeHeight \in Nat /\ MaxFaults \in Nat /\ VotingBlocks \in Nat /\ MaxHeight \in Nat
         /\ UpgradeHeight <= MaxHeight
         /\ \A i \in CustomGov : SubmitHeight[i] \in Nat
         /\ Len(proposals) \in Nat /\ DOMAIN proposals = 1 .. Len(proposals)
         /\ \A id \in DOMAIN proposals :
              proposals[id] \in [what : Whats, opened : 1 .. chainHeight, vote : {None, "yes", "no"}]
<1>1. chainHeight \in 0 .. MaxHeight /\ height \in 0 .. chainHeight /\ faults \in 0 .. MaxFaults
  BY DEF TypeOK
<1>2. proposals \in Seq([what : Whats, opened : 1 .. chainHeight, vote : {None, "yes", "no"}])
  BY DEF TypeOK
<1>3. Len(proposals) \in Nat /\ DOMAIN proposals = 1 .. Len(proposals)
  BY <1>2
<1>4. \A id \in DOMAIN proposals :
        proposals[id] \in [what : Whats, opened : 1 .. chainHeight, vote : {None, "yes", "no"}]
  BY <1>2, <1>3, SeqElement
<1>5. \A i \in CustomGov : SubmitHeight[i] \in Nat
  BY RunnerAssumption DEF Customs
<1>6. UpgradeHeight \in Nat /\ MaxFaults \in Nat /\ VotingBlocks \in Nat /\ MaxHeight \in Nat
      /\ UpgradeHeight <= MaxHeight
  BY RunnerAssumption
<1> QED
  BY <1>1, <1>3, <1>4, <1>5, <1>6

\* A handler under way is the only thing going on.
LEMMA Alone ==
  ASSUME Calm, NEW h \in Handlers, pc[h] # "idle"
  PROVE  events = <<>> /\ \A g \in Handlers : g # h => pc[g] = "idle"
BY DEF Calm, AtRest

\* A step of a handler changes its own await, and reads or sends nothing else.
LEMMA StepFrame ==
  ASSUME TypeOK, NEW h \in Handlers, HandlerStep(h) \/ Abort(h), ~OnFundBlock(h)
  PROVE  /\ pc[h] # "idle" /\ \E to \in PcStates : pc' = [pc EXCEPT ![h] = to]
         /\ \A g \in Handlers : g # h => pc'[g] = pc[g] /\ todo'[g] = todo[g]
         /\ UNCHANGED <<events, chainHeight, proposals, planned>>
         /\ faults' = faults \/ faults' = faults + 1
<1> USE DEF runnerVars, localVars, chainVars
<1>a. pc \in [Handlers -> PcStates] /\ DOMAIN todo = Handlers
  BY DEF TypeOK
<1>1. CASE StartCustomGov(h) \/ StartCustomMsgs(h) \/ CustomMsgsDone(h) \/ StartVotes(h)
           \/ VotesDone(h) \/ Others(h) \/ Compose(h) \/ ProposalSubmitted(h)
           \/ CustomGovAnswered(h) \/ CustomMsgAnswered(h) \/ Abort(h)
  <2>1. /\ pc[h] # "idle"
        /\ \E to \in {"gov", "msgs", "idle", "validators", "votes", "others", "compose", "send"} :
             pc' = [pc EXCEPT ![h] = to]
        /\ \A g \in Handlers : g # h => todo'[g] = todo[g]
        /\ UNCHANGED <<events, chainHeight, proposals, planned>>
        /\ faults' = faults \/ faults' = faults + 1
    BY <1>1, <1>a DEF StartCustomGov, StartCustomMsgs, CustomMsgsDone, StartVotes, VotesDone,
       Others, Compose, ProposalSubmitted, CustomGovAnswered, CustomMsgAnswered, Answered, Abort,
       Goto, Fault
  <2> QED
    BY <2>1, <1>a DEF PcStates
<1>2. CASE SubmitCustomGov(h) \/ SubmitCustomMsg(h) \/ SubmitUpgradeProposal(h)
           \/ SubmitNewProposal(h) \/ VoteOnProposal(h) \/ Send(h)
  <2>1. /\ pc[h] # "idle"
        /\ \E to \in {"govSent", "msgSent", "submitted", "others", "votes", "idle"} :
             pc' = [pc EXCEPT ![h] = to]
        /\ UNCHANGED <<events, chainHeight, proposals, planned>>
        /\ todo' = todo \/ \E id : todo' = [todo EXCEPT ![h] = @ \ {id}]
        /\ UNCHANGED faults \/ (\E tx : Cli(h, tx) \/ SendTx(tx))
    BY <1>2 DEF SubmitCustomGov, SubmitCustomMsg, SubmitUpgradeProposal, SubmitNewProposal,
       VoteOnProposal, Send, Goto
  <2>2. faults' = faults \/ faults' = faults + 1
    BY <2>1 DEF Cli, SendTx, Fault
  <2> QED
    BY <2>1, <2>2, <1>a DEF PcStates
<1> QED
  BY <1>1, <1>2 DEF HandlerStep

\* The mempool of a step of a handler: it keeps what waits.
LEMMA Appended ==
  ASSUME TypeOK, NEW tx, mempool' = Append(mempool, tx)
  PROVE  /\ Len(mempool) \in Nat /\ DOMAIN mempool = 1 .. Len(mempool)
         /\ \A k \in DOMAIN mempool : mempool'[k] = mempool[k]
         /\ mempool'[Len(mempool) + 1] = tx
         /\ \A kind : OfKind(mempool, kind)' =
                        OfKind(mempool, kind) \cup (IF tx.kind = kind THEN {Len(mempool) + 1} ELSE {})
<1>1. mempool \in Seq(Txs)
  BY DEF TypeOK
<1>2. Len(mempool) \in Nat /\ DOMAIN mempool = 1 .. Len(mempool)
  BY <1>1
<1>3. /\ DOMAIN mempool' = 1 .. Len(mempool) + 1 /\ mempool'[Len(mempool) + 1] = tx
      /\ \A k \in 1 .. Len(mempool) : mempool'[k] = mempool[k]
  BY <1>1
<1>4. DOMAIN mempool' = DOMAIN mempool \cup {Len(mempool) + 1}
  BY <1>2, <1>3
<1> QED
  BY <1>2, <1>3, <1>4 DEF OfKind

LEMMA HandlerCalm ==
  ASSUME TypeOK, Calm, NEW h \in Handlers, HandlerStep(h) \/ Abort(h)
  PROVE  Calm'
<1>a. pc \in [Handlers -> PcStates]
  BY DEF TypeOK
<1>1. CASE OnFundBlock(h)
  <2>1. /\ events # <<>> /\ events' = Tail(events) /\ pc' = [pc EXCEPT ![h] = "checks"]
    BY <1>1 DEF OnFundBlock, Goto
  <2>2. \A x : Tail(<<x>>) = <<>>
    OBVIOUS
  <2> QED
    BY <1>a, <2>1, <2>2 DEF Calm, AtRest
<1>2. CASE ~OnFundBlock(h)
  BY <1>a, <1>2, StepFrame, Alone DEF Calm
<1> QED
  BY <1>1, <1>2

\* Before the upgrade proposal a handler sends custom msgs, and then the upgrade proposal, whose
\* wallet is fresh.
LEMMA HandlerUnproposed ==
  ASSUME MsgsLoaded, "submit" \notin Faults, RoomForFaults, TypeOK, Calm, Unproposed,
         proposals = <<>>, NEW h \in Handlers, HandlerStep(h) \/ Abort(h)
  PROVE  Unproposed' \/ Proposing'
<1> USE DEF runnerVars, localVars, chainVars
<1>a. pc \in [Handlers -> PcStates] /\ DOMAIN todo = Handlers
  BY DEF TypeOK
<1>b. /\ chainHeight \in Nat /\ faults \in Nat /\ faults <= MaxFaults /\ MaxFaults \in Nat
      /\ height <= chainHeight /\ height \in Nat /\ \A i \in CustomGov : SubmitHeight[i] \in Nat
  BY NumbersAreNat
<1>c. ~proposalSubmitted /\ chainHeight <= faults + 1 /\ OfKind(mempool, "proposal") = {}
  BY DEF Unproposed
<1>1. CASE OnFundBlock(h)
  <2>1. /\ pc' = [pc EXCEPT ![h] = "checks"]
        /\ UNCHANGED <<proposalSubmitted, chainHeight, mempool, faults, todo>>
    BY <1>1 DEF OnFundBlock, Goto
  <2>2. OfKind(mempool, "proposal")' = {}
    BY <1>c, <2>1 DEF OfKind
  <2>3. pc'[h] # "idle"
    BY <1>a, <2>1
  <2>4. \A g \in Handlers : /\ pc'[g] \in {"idle", "checks", "gov", "msgs", "msgSent", "validators"}
                            /\ pc'[g] = "gov" => todo'[g] = {}
    BY <1>a, <2>1 DEF Unproposed
  <2> QED
    BY <1>c, <2>1, <2>2, <2>3, <2>4 DEF Unproposed
<1>2. CASE ~OnFundBlock(h)
  <2>1. /\ pc[h] # "idle" /\ \E to \in PcStates : pc' = [pc EXCEPT ![h] = to]
        /\ \A g \in Handlers : g # h => pc'[g] = pc[g] /\ todo'[g] = todo[g]
        /\ UNCHANGED <<events, chainHeight, proposals, planned>>
        /\ faults' = faults \/ faults' = faults + 1
    BY <1>2, StepFrame
  <2>2. \A g \in Handlers : g # h =>
          /\ pc'[g] \in {"idle", "checks", "gov", "msgs", "msgSent", "validators"}
          /\ pc'[g] = "gov" => todo'[g] = {}
    BY <2>1 DEF Unproposed
  <2>3. ASSUME UNCHANGED proposalSubmitted, OfKind(mempool, "proposal")' = {},
               pc'[h] \in {"checks", "gov", "msgs", "msgSent", "validators"}
                 \/ (pc'[h] = "idle" /\ faults' = faults + 1),
               pc'[h] = "gov" => todo'[h] = {}
        PROVE  Unproposed'
    <3>1. \A g \in Handlers :
            /\ pc'[g] \in {"idle", "checks", "gov", "msgs", "msgSent", "validators"}
            /\ pc'[g] = "gov" => todo'[g] = {}
      BY <2>2, <2>3
    <3>2. /\ chainHeight' <= faults' + 1
          /\ events' = <<>> /\ (\A g \in Handlers : pc'[g] = "idle") => chainHeight' <= faults'
      BY <1>b, <1>c, <2>1, <2>3
    <3> QED
      BY <1>c, <2>3, <3>1, <3>2 DEF Unproposed
  <2>4. CASE StartCustomGov(h)
    <3>1. /\ pc' = [pc EXCEPT ![h] = "gov"] /\ todo' = [todo EXCEPT ![h] = DueCustomTxs(CustomGov)]
          /\ UNCHANGED <<proposalSubmitted, mempool>>
      BY <2>4 DEF StartCustomGov, Goto
    <3>2. DueCustomTxs(CustomGov) = {}
      <4> SUFFICES ASSUME NEW i \in CustomGov PROVE ~(height >= SubmitHeight[i])
        BY DEF DueCustomTxs
      <4>1. SubmitHeight[i] > MaxFaults + 1 /\ SubmitHeight[i] \in Nat
        BY <1>b DEF RoomForFaults
      <4> QED
        BY <1>b, <1>c, <4>1
    <3> QED
      BY <1>a, <1>c, <2>3, <3>1, <3>2 DEF OfKind
  <2>5. CASE StartCustomMsgs(h)
    <3>1. pc' = [pc EXCEPT ![h] = "msgs"] /\ UNCHANGED <<proposalSubmitted, mempool>>
      BY <2>5 DEF StartCustomMsgs, Goto
    <3> QED
      BY <1>a, <1>c, <2>3, <3>1 DEF OfKind
  <2>6. CASE SubmitCustomMsg(h)
    <3>1. pc' = [pc EXCEPT ![h] = "msgSent"] /\ UNCHANGED proposalSubmitted
      BY <2>6 DEF SubmitCustomMsg, Goto
    <3>2. PICK i \in todo[h] : Cli(h, MsgTx(i))
      BY <2>6 DEF SubmitCustomMsg
    <3>3. mempool' = Append(mempool, MsgTx(i)) \/ mempool' = mempool
      BY <3>2, Zenon DEF Cli
    <3>4. MsgTx(i).kind # "proposal"
      BY DEF MsgTx
    <3>5. OfKind(mempool, "proposal")' = {}
      <4>1. CASE mempool' = mempool
        BY <1>c, <4>1 DEF OfKind
      <4>2. CASE mempool' = Append(mempool, MsgTx(i))
        BY <1>c, <3>4, <4>2, Appended
      <4> QED
        BY <3>3, <4>1, <4>2
    <3> QED
      BY <1>a, <2>3, <3>1, <3>5
  <2>7. CASE CustomMsgAnswered(h) \/ CustomMsgsDone(h)
    <3>1. /\ \E to \in {"msgs", "validators"} : pc' = [pc EXCEPT ![h] = to]
          /\ UNCHANGED <<proposalSubmitted, mempool>>
      BY <2>7 DEF CustomMsgAnswered, Answered, CustomMsgsDone, Goto
    <3> QED
      BY <1>a, <1>c, <2>3, <3>1 DEF OfKind
  <2>8. CASE Abort(h)
    <3>1. /\ pc' = [pc EXCEPT ![h] = "idle"] /\ faults' = faults + 1
          /\ UNCHANGED <<proposalSubmitted, mempool>>
      BY <2>8 DEF Abort, Goto, Fault
    <3> QED
      BY <1>a, <1>c, <2>3, <3>1 DEF OfKind
  <2>9. CASE SubmitUpgradeProposal(h)
    <3>1. pc' = [pc EXCEPT ![h] = "submitted"] /\ UNCHANGED proposalSubmitted
      BY <2>9 DEF SubmitUpgradeProposal, Goto
    <3>2. PICK v \in Validators : Cli(h, GovTx(v, Upgrade))
      BY <2>9 DEF SubmitUpgradeProposal
    <3> DEFINE tx == GovTx(v, Upgrade)
    <3>3. tx.kind = "proposal" /\ tx.what = Upgrade /\ tx.by = {v}
      BY DEF GovTx
    <3>4. ~Stale({v})
      <4> SUFFICES ASSUME NEW k \in DOMAIN mempool, mempool[k].by \cap {v} # {} PROVE FALSE
        BY DEF Stale
      <4>1. mempool[k] \in Txs
        BY DEF TypeOK
      <4>2. mempool[k].kind # "proposal"
        BY <1>c DEF OfKind
      <4>3. mempool[k].kind # "vote"
        BY DEF TypeOK, OfKind
      <4>4. mempool[k].by \in {{"wallet"}, {"stream"}}
        BY <4>1, <4>2, <4>3 DEF Txs
      <4>5. v \notin {"wallet", "stream"}
        BY RunnerAssumption
      <4> QED
        BY <4>4, <4>5
    <3> HIDE DEF tx
    <3>5. mempool' = Append(mempool, tx)
      <4>1. Cli(h, tx)
        BY <3>2 DEF tx
      <4> QED
        BY <3>3, <3>4, <4>1 DEF Cli, Fault
    <3>6. /\ OfKind(mempool, "proposal")' = {Len(mempool) + 1}
          /\ mempool'[Len(mempool) + 1].what = Upgrade
      BY <1>c, <3>3, <3>5, Appended
    <3>7. ~proposalSubmitted' /\ pc'[h] = "submitted"
      BY <1>a, <1>c, <3>1
    <3> QED
      BY <3>6, <3>7 DEF Proposing
  <2>10. ~SubmitCustomGov(h) /\ ~CustomGovAnswered(h) /\ ~ProposalSubmitted(h) /\ ~StartVotes(h)
    BY <1>c DEF SubmitCustomGov, CustomGovAnswered, Answered, ProposalSubmitted, StartVotes, Goto,
                Unproposed
  <2>11. /\ ~SubmitNewProposal(h) /\ ~VoteOnProposal(h) /\ ~VotesDone(h) /\ ~Others(h)
         /\ ~Compose(h) /\ ~Send(h)
    BY <1>c DEF SubmitNewProposal, VoteOnProposal, VotesDone, Others, Compose, Send, Goto,
                Unproposed
  <2> QED
    BY <1>2, <2>4, <2>5, <2>6, <2>7, <2>8, <2>9, <2>10, <2>11 DEF HandlerStep
<1> QED
  BY <1>1, <1>2

\* Once it is sent, the handler goes on to the other wallets.
LEMMA HandlerProposing ==
  ASSUME TypeOK, Calm, Proposing, NEW h \in Handlers, HandlerStep(h) \/ Abort(h)
  PROVE  Proposing'
<1> USE DEF runnerVars, localVars, chainVars
<1>a. pc \in [Handlers -> PcStates] /\ Len(mempool) \in Nat
  BY DEF TypeOK
<1>1. events = <<>>
  BY DEF Calm, Proposing, AtRest, OfKind
<1>2. ~OnFundBlock(h)
  BY <1>1 DEF OnFundBlock
<1>3. /\ pc[h] # "idle" /\ \A g \in Handlers : g # h => pc[g] = "idle" /\ pc'[g] = "idle"
  BY <1>2, StepFrame, Alone
<1>4. ASSUME UNCHANGED mempool
      PROVE  /\ OfKind(mempool, "proposal")' # {}
             /\ \A k \in OfKind(mempool, "proposal")' : mempool'[k].what = Upgrade
  BY <1>4 DEF Proposing, OfKind
<1>5. CASE ~proposalSubmitted
  <2>1. pc[h] = "submitted"
    BY <1>3, <1>5 DEF Proposing
  <2>2. ProposalSubmitted(h)
    BY <2>1, <1>2 DEF HandlerStep, Abort, StartCustomGov, SubmitCustomGov, CustomGovAnswered,
       Answered, StartCustomMsgs, SubmitCustomMsg, CustomMsgAnswered, CustomMsgsDone,
       SubmitUpgradeProposal, StartVotes, SubmitNewProposal, VoteOnProposal, VotesDone, Others,
       Compose, Send, Goto
  <2>3. proposalSubmitted' /\ UNCHANGED mempool /\ pc' = [pc EXCEPT ![h] = "others"]
    BY <2>2 DEF ProposalSubmitted, Goto
  <2>4. \A g \in Handlers : pc'[g] \in {"idle", "others", "compose", "send"}
    BY <1>a, <1>3, <2>3
  <2> QED
    BY <1>4, <2>3, <2>4 DEF Proposing
<1>6. CASE proposalSubmitted
  <2>1. pc[h] \in {"others", "compose", "send"}
    BY <1>3, <1>6 DEF Proposing
  <2>2. Others(h) \/ Compose(h) \/ Send(h) \/ Abort(h)
    BY <2>1, <1>2 DEF HandlerStep, StartCustomGov, SubmitCustomGov, CustomGovAnswered,
       Answered, StartCustomMsgs, SubmitCustomMsg, CustomMsgAnswered, CustomMsgsDone,
       SubmitUpgradeProposal, ProposalSubmitted, StartVotes, SubmitNewProposal, VoteOnProposal,
       VotesDone, Goto
  <2>3. /\ \E to \in {"idle", "compose", "send"} : pc' = [pc EXCEPT ![h] = to]
        /\ UNCHANGED proposalSubmitted
        /\ UNCHANGED mempool \/ SendTx(ShapedTx(composed[h]))
    BY <2>2 DEF Others, Compose, Send, Abort, Goto
  <2>4. \A g \in Handlers : pc'[g] \in {"idle", "others", "compose", "send"}
    BY <1>a, <1>3, <2>3
  <2>5. /\ OfKind(mempool, "proposal")' # {}
        /\ \A k \in OfKind(mempool, "proposal")' : mempool'[k].what = Upgrade
    <3>1. mempool' = Append(mempool, ShapedTx(composed[h])) \/ mempool' = mempool
      BY <2>3, Zenon DEF SendTx
    <3>2. CASE mempool' = Append(mempool, ShapedTx(composed[h]))
      <4>1. ShapedTx(composed[h]).kind # "proposal"
        BY DEF ShapedTx
      <4>2. /\ OfKind(mempool, "proposal")' = OfKind(mempool, "proposal")
            /\ \A k \in OfKind(mempool, "proposal") : mempool'[k] = mempool[k]
        BY <3>2, <4>1, Appended DEF OfKind
      <4> QED
        BY <4>2 DEF Proposing
    <3> QED
      BY <1>4, <3>1, <3>2
  <2> QED
    BY <1>6, <2>3, <2>4, <2>5 DEF Proposing
<1> QED
  BY <1>5, <1>6

LEMMA HandlerUpgradeFirst ==
  ASSUME MsgsLoaded, "submit" \notin Faults, RoomForFaults, TypeOK, Calm, UpgradeFirst,
         NEW h \in Handlers, HandlerStep(h) \/ Abort(h)
  PROVE  UpgradeFirst'
<1>1. UNCHANGED <<proposals, planned>>
  BY StepFrame DEF OnFundBlock
<1>2. CASE proposals = <<>>
  BY <1>1, <1>2, HandlerUnproposed, HandlerProposing DEF UpgradeFirst
<1>3. CASE proposals # <<>>
  <2>1. proposalSubmitted' \in {TRUE, proposalSubmitted}
    BY DEF HandlerStep, Abort, OnFundBlock, StartCustomGov, SubmitCustomGov, CustomGovAnswered,
       Answered, StartCustomMsgs, SubmitCustomMsg, CustomMsgAnswered, CustomMsgsDone,
       SubmitUpgradeProposal, ProposalSubmitted, StartVotes, SubmitNewProposal, VoteOnProposal,
       VotesDone, Others, Compose, Send, runnerVars
  <2> QED
    BY <1>1, <1>3, <2>1 DEF UpgradeFirst
<1> QED
  BY <1>2, <1>3

\* What keeps a proposal on track: no vote but the wanted one joins, and the chance of one is
\* only lost with a fault.
LEMMA StaysOnTrack ==
  ASSUME TypeOK, NEW id \in DOMAIN proposals, OnTrack(id), UNCHANGED <<proposals, chainHeight>>,
         faults' = faults \/ faults' = faults + 1,
         \A k \in VotesOn(id)' : mempool'[k].option = Wanted(id),
         Chance(id) => Chance(id)' \/ faults' = faults + 1
  PROVE  OnTrack(id)'
<1>1. /\ chainHeight \in Nat /\ faults \in Nat
      /\ proposals[id] \in [what : Whats, opened : 1 .. chainHeight, vote : {None, "yes", "no"}]
  BY NumbersAreNat
<1>2. Wanted(id)' = Wanted(id)
  BY DEF Wanted
<1>3. Halts' = Halts /\ Halts \in Nat
  BY DEF Halts
<1>4. proposals[id].opened \in Nat
  BY <1>1
<1>5. ASSUME proposals[id].vote = None
      PROVE  /\ chainHeight <= proposals[id].opened + faults' + Halts
             /\ ~Chance(id)' => chainHeight + 1 <= proposals[id].opened + faults' + Halts
  BY <1>1, <1>3, <1>4, <1>5 DEF OnTrack
<1> QED
  BY <1>2, <1>3, <1>5 DEF OnTrack

\* Votes that wait go on waiting.
LEMMA SentVotes ==
  ASSUME TypeOK, NEW id, NEW h, NEW tx, Cli(h, tx) \/ SendTx(tx) \/ UNCHANGED mempool
  PROVE  /\ VotesOn(id) \subseteq VotesOn(id)'
         /\ \A k \in VotesOn(id)' :
              \/ k \in VotesOn(id) /\ mempool'[k] = mempool[k]
              \/ mempool'[k] = tx /\ tx.kind = "vote" /\ tx.what = id
<1>1. mempool' = Append(mempool, tx) \/ mempool' = mempool
  BY Zenon DEF Cli, SendTx
<1>2. CASE mempool' = mempool
  BY <1>2 DEF VotesOn, OfKind
<1>3. CASE mempool' = Append(mempool, tx)
  <2>1. /\ OfKind(mempool, "vote")' =
             OfKind(mempool, "vote") \cup (IF tx.kind = "vote" THEN {Len(mempool) + 1} ELSE {})
        /\ \A k \in OfKind(mempool, "vote") : mempool'[k] = mempool[k]
        /\ mempool'[Len(mempool) + 1] = tx
    BY <1>3, Appended DEF OfKind
  <2>2. VotesOn(id)' = {k \in OfKind(mempool, "vote")' : mempool'[k].what = id}
    BY DEF VotesOn
  <2> QED
    BY <2>1, <2>2 DEF VotesOn
<1> QED
  BY <1>1, <1>2, <1>3

\* While no vote is in, the proposal is open.
LEMMA StillOpen ==
  ASSUME RoomForFaults, TypeOK, NEW id \in DOMAIN proposals, OnTrack(id),
         proposals[id].vote = None
  PROVE  id \in Open
<1>1. /\ chainHeight \in Nat /\ faults \in Nat /\ faults <= MaxFaults /\ MaxFaults \in Nat
      /\ proposals[id] \in [what : Whats, opened : 1 .. chainHeight, vote : {None, "yes", "no"}]
      /\ VotingBlocks \in Nat
  BY NumbersAreNat
<1>2. proposals[id].opened \in Nat
  BY <1>1
<1>3. Halts \in {0, 1} /\ chainHeight <= proposals[id].opened + faults + Halts
  BY DEF OnTrack, Halts
<1>4. chainHeight < proposals[id].opened + VotingBlocks
  BY <1>1, <1>2, <1>3 DEF RoomForFaults
<1> QED
  BY <1>4 DEF Open, Ends

LEMMA HandlerOnTrack ==
  ASSUME MsgsLoaded, RoomForFaults, CustomInv, NEW h \in Handlers, HandlerStep(h) \/ Abort(h),
         NEW id \in DOMAIN proposals, proposals[id].what \in CustomGov
  PROVE  OnTrack(id)'
<1> USE DEF runnerVars, localVars, chainVars
<1>a. TypeOK /\ Calm /\ OnTrack(id)
  BY DEF CustomInv
<1>b. pc \in [Handlers -> PcStates] /\ DOMAIN todo = Handlers
  BY <1>a DEF TypeOK
<1>c. proposals # <<>> /\ proposals[1].what = Upgrade /\ proposalSubmitted
  BY <1>a DEF CustomInv, UpgradeFirst
<1>d. id # 1
  BY <1>c, RunnerAssumption DEF Customs
<1>1. CASE OnFundBlock(h)
  <2>1. /\ pc' = [pc EXCEPT ![h] = "checks"]
        /\ UNCHANGED <<proposals, chainHeight, mempool, faults>>
    BY <1>1 DEF OnFundBlock, Goto
  <2>2. VotesOn(id)' = VotesOn(id)
    BY <2>1 DEF VotesOn, OfKind
  <2>3. Chance(id)'
    BY <1>b, <2>1 DEF Chance, BeforeVotes
  <2> QED
    BY <1>a, <2>1, <2>2, <2>3, StaysOnTrack DEF OnTrack
<1>2. CASE ~OnFundBlock(h)
  <2>1. /\ pc[h] # "idle" /\ \E to \in PcStates : pc' = [pc EXCEPT ![h] = to]
        /\ \A g \in Handlers : g # h => pc'[g] = pc[g] /\ todo'[g] = todo[g]
        /\ UNCHANGED <<events, chainHeight, proposals, planned>>
        /\ faults' = faults \/ faults' = faults + 1
    BY <1>2, <1>a, StepFrame
  <2>2. \A g \in Handlers : g # h => pc[g] = "idle"
    BY <1>a, <2>1, Alone
  <2> DEFINE Voting(g) == pc[g] \in BeforeVotes \/ (pc[g] = "votes" /\ id \in todo[g])
  <2>3. Chance(id) => VotesOn(id) # {} \/ Voting(h)
    BY <1>a, <2>1, <2>2, Alone DEF Chance, BeforeVotes
  \* The steps that cast no vote keep it on track if they do not end the handler's chance.
  <2>4. ASSUME NEW g, NEW tx, Cli(g, tx) \/ SendTx(tx) \/ UNCHANGED mempool,
               tx.kind = "vote" /\ tx.what = id => tx.option = Wanted(id),
               proposals[id].vote = None /\ Voting(h) =>
                 Voting(h)' \/ faults' = faults + 1 \/ VotesOn(id)' # {}
        PROVE  OnTrack(id)'
    <3>1. /\ VotesOn(id) \subseteq VotesOn(id)'
          /\ \A k \in VotesOn(id)' : mempool'[k].option = Wanted(id)
      <4>1. /\ VotesOn(id) \subseteq VotesOn(id)'
            /\ \A k \in VotesOn(id)' :
                 \/ k \in VotesOn(id) /\ mempool'[k] = mempool[k]
                 \/ mempool'[k] = tx /\ tx.kind = "vote" /\ tx.what = id
        BY <1>a, <2>4, SentVotes
      <4>2. \A k \in VotesOn(id) : mempool[k].option = Wanted(id)
        BY <1>a DEF OnTrack
      <4> QED
        BY <2>4, <4>1, <4>2
    <3>2. CASE proposals[id].vote = None
      <4>1. Chance(id) => Chance(id)' \/ faults' = faults + 1
        BY <2>3, <2>4, <3>1, <3>2 DEF Chance
      <4> QED
        BY <1>a, <2>1, <3>1, <4>1, StaysOnTrack
    <3>3. CASE proposals[id].vote # None
      BY <1>a, <2>1, <3>1, <3>3 DEF OnTrack, Wanted
    <3> QED
      BY <3>2, <3>3
  <2>5. CASE \/ StartCustomGov(h) \/ CustomGovAnswered(h) \/ StartCustomMsgs(h)
             \/ CustomMsgAnswered(h) \/ CustomMsgsDone(h) \/ Abort(h)
    <3>1. /\ \/ \E to \in BeforeVotes : pc' = [pc EXCEPT ![h] = to]
             \/ faults' = faults + 1
          /\ UNCHANGED mempool
      BY <2>5 DEF StartCustomGov, CustomGovAnswered, StartCustomMsgs, CustomMsgAnswered, Answered,
         CustomMsgsDone, Abort, Goto, BeforeVotes, Fault
    <3>2. Voting(h)' \/ faults' = faults + 1
      BY <1>b, <3>1
    <3>3. MsgTx(id).kind # "vote"
      BY DEF MsgTx
    <3> QED
      BY <2>4, <3>1, <3>2, <3>3
  <2>6. CASE ProposalSubmitted(h) \/ VotesDone(h) \/ Others(h) \/ Compose(h)
    <3>1. ~Voting(h) /\ UNCHANGED mempool
      BY <2>6 DEF ProposalSubmitted, VotesDone, Others, Compose, Goto, BeforeVotes
    <3>3. MsgTx(id).kind # "vote"
      BY DEF MsgTx
    <3> QED
      BY <2>4, <3>1, <3>3
  <2>7. CASE SubmitCustomGov(h) \/ SubmitCustomMsg(h)
    <3>1. PICK tx : Cli(h, tx) /\ tx.kind # "vote"
      <4>1. \A v, i : GovTx(v, i).kind # "vote" /\ MsgTx(i).kind # "vote"
        BY DEF GovTx, MsgTx
      <4> QED
        BY <2>7, <4>1 DEF SubmitCustomGov, SubmitCustomMsg
    <3>2. \E to \in BeforeVotes : pc' = [pc EXCEPT ![h] = to]
      BY <2>7 DEF SubmitCustomGov, SubmitCustomMsg, Goto, BeforeVotes
    <3>3. Voting(h)'
      BY <1>b, <3>2
    <3> QED
      BY <2>4, <3>1, <3>3
  <2>8. CASE StartVotes(h)
    <3>1. /\ pc' = [pc EXCEPT ![h] = "votes"] /\ todo' = [todo EXCEPT ![h] = Open]
          /\ UNCHANGED mempool
      BY <2>8 DEF StartVotes, Goto
    <3>2. proposals[id].vote = None => Voting(h)'
      BY <1>a, <1>b, <3>1, StillOpen
    <3>3. MsgTx(id).kind # "vote"
      BY DEF MsgTx
    <3> QED
      BY <2>4, <3>1, <3>2, <3>3
  <2>9. CASE SubmitNewProposal(h)
    <3>1. Open = {}
      BY <2>9 DEF SubmitNewProposal
    <3>2. proposals[id].vote # None
      BY <1>a, <3>1, StillOpen
    <3>3. \E tx : tx.kind # "vote" /\ (SendTx(tx) \/ UNCHANGED mempool)
      <4>1. \A v : GovTx(v, Text).kind # "vote"
        BY DEF GovTx
      <4> QED
        BY <2>9, <4>1 DEF SubmitNewProposal
    <3> QED
      BY <2>4, <3>2, <3>3
  <2>10. CASE VoteOnProposal(h)
    <3>1. PICK j \in todo[h] : /\ todo' = [todo EXCEPT ![h] = @ \ {j}]
                               /\ \E o \in VoteFor(j) : SendTx(VoteTx(j, o))
      BY <2>10 DEF VoteOnProposal
    <3>2. PICK o \in VoteFor(j) : SendTx(VoteTx(j, o))
      BY <3>1
    <3> DEFINE tx == VoteTx(j, o)
    <3>3. tx.kind = "vote" /\ tx.what = j /\ tx.option = o
      BY DEF VoteTx
    <3>4. pc[h] = "votes" /\ pc' = [pc EXCEPT ![h] = "votes"]
      BY <2>10 DEF VoteOnProposal, Goto
    <3>5. j = id => o = Wanted(id)
      <4>1. VoteFor(id) = {Wanted(id)}
        BY <1>d DEF VoteFor, Wanted
      <4> QED
        BY <4>1
    <3>6. Voting(h) => Voting(h)' \/ faults' = faults + 1 \/ VotesOn(id)' # {}
      <4>1. CASE j # id
        BY <1>b, <3>1, <3>4, <4>1 DEF BeforeVotes
      <4>2. CASE j = id
        <5>1. CASE mempool' = Append(mempool, tx)
          <6> HIDE DEF tx
          <6>1. /\ Len(mempool) + 1 \in OfKind(mempool, "vote")'
                /\ mempool'[Len(mempool) + 1] = tx
            BY <1>a, <3>3, <5>1, Appended
          <6> QED
            BY <3>3, <4>2, <6>1 DEF VotesOn
        <5>2. CASE Fault("sendTx")
          BY <5>2 DEF Fault
        <5> QED
          BY <3>2, <5>1, <5>2 DEF SendTx
      <4> QED
        BY <4>1, <4>2
    <3> HIDE DEF tx
    <3>7. SendTx(tx)
      BY <3>2 DEF tx
    <3> QED
      BY <2>4, <3>3, <3>5, <3>6, <3>7
  <2>11. CASE Send(h)
    <3>1. ~Voting(h) /\ SendTx(ShapedTx(composed[h]))
      BY <2>11 DEF Send, Goto, BeforeVotes
    <3>2. ShapedTx(composed[h]).kind # "vote"
      BY DEF ShapedTx
    <3> QED
      BY <2>4, <3>1, <3>2
  <2>12. ~SubmitUpgradeProposal(h)
    BY <1>c DEF SubmitUpgradeProposal
  <2> QED
    BY <1>2, <2>5, <2>6, <2>7, <2>8, <2>9, <2>10, <2>11, <2>12 DEF HandlerStep
<1> QED
  BY <1>1, <1>2

\* A block that waits for its handler takes everything.
LEMMA BlockTakesAll ==
  ASSUME Prompt, TypeOK, Calm, NewBlock
  PROVE  /\ mempool' = <<>> /\ events = <<>> /\ \A h \in Handlers : pc[h] = "idle"
         /\ chainHeight' = IF chainHeight < MaxHeight THEN chainHeight + 1 ELSE MaxHeight
         /\ events' = <<chainHeight'>> \/ (events' = <<>> /\ planned /\ chainHeight + 1 = UpgradeHeight)
         /\ faults' = faults \/ faults' = faults + 1
         /\ UNCHANGED <<pc, todo, proposalSubmitted>>
         /\ Votes(Len(mempool)) /\ \E f : Opens(Len(mempool), f)
<1>1. PICK n \in 0 .. Len(mempool) :
         /\ Len(mempool) - n <= (IF Prompt THEN 0 ELSE MaxLeft)
         /\ \/ mempool' = SubSeq(mempool, n + 1, Len(mempool)) /\ UNCHANGED faults
            \/ mempool' = <<>> /\ Fault("halt")
         /\ Votes(n)
         /\ \E f : Opens(n, f)
  BY BlockFlow
<1>2. mempool \in Seq(Txs) /\ Len(mempool) \in Nat
  BY DEF TypeOK
<1>3. n = Len(mempool)
  BY <1>1, <1>2
<1>4. SubSeq(mempool, Len(mempool) + 1, Len(mempool)) = <<>>
  BY <1>2
<1>5. /\ events = <<>> /\ \A h \in Handlers : pc[h] = "idle"
      /\ chainHeight' = IF chainHeight < MaxHeight THEN chainHeight + 1 ELSE MaxHeight
      /\ events' = <<chainHeight'>> \/ (events' = <<>> /\ planned /\ chainHeight + 1 = UpgradeHeight)
      /\ UNCHANGED <<pc, todo, proposalSubmitted>>
  BY DEF NewBlock, runnerVars, localVars
<1>6. mempool' = <<>> /\ (faults' = faults \/ faults' = faults + 1)
  BY <1>1, <1>3, <1>4 DEF Fault
<1> QED
  BY <1>1, <1>3, <1>5, <1>6

LEMMA BlockUpgradeFirst ==
  ASSUME Prompt, TypeOK, Calm, UpgradeFirst, NewBlock
  PROVE  UpgradeFirst'
<1>a. TypeOK'
  BY BlockTypeOK
<1>b. /\ mempool' = <<>> /\ events = <<>> /\ \A h \in Handlers : pc[h] = "idle"
      /\ chainHeight' = IF chainHeight < MaxHeight THEN chainHeight + 1 ELSE MaxHeight
      /\ events' = <<chainHeight'>> \/ (events' = <<>> /\ planned /\ chainHeight + 1 = UpgradeHeight)
      /\ faults' = faults \/ faults' = faults + 1
      /\ UNCHANGED <<pc, todo, proposalSubmitted>>
      /\ Votes(Len(mempool)) /\ \E f : Opens(Len(mempool), f)
  BY BlockTakesAll
<1>c. PICK f : Opens(Len(mempool), f)
  BY <1>b
<1>d. /\ Len(mempool) \in Nat /\ DOMAIN mempool = 1 .. Len(mempool)
      /\ Len(proposals) \in Nat /\ DOMAIN proposals = 1 .. Len(proposals)
  BY NumbersAreNat DEF TypeOK
<1>e. \E S : proposals' \in Seq(S)
  BY <1>a DEF TypeOK
<1>f. DOMAIN proposals' = 1 .. Len(proposals') /\ Len(proposals') \in Nat
  BY <1>e
<1>1. CASE proposals = <<>> /\ ~planned /\ Unproposed
  <2>1. \A id : id \notin DOMAIN proposals'
    BY <1>1, <1>c, <1>d DEF Opens, Unproposed, OfKind
  <2>2. proposals' = <<>>
    <3>1. Len(proposals') = 0
      BY <1>f, <2>1
    <3> QED
      BY <1>e, <3>1, EmptySeq
  <2>3. ~planned'
    BY <1>1, <2>1 DEF NewBlock
  <2>4. events' = <<chainHeight'>> /\ events' # <<>>
    <3>1. \A x : <<x>> # <<>>
      OBVIOUS
    <3> QED
      BY <1>1, <1>b, <3>1
  <2>5. chainHeight' <= faults' + 1
    BY <1>1, <1>b, NumbersAreNat DEF Unproposed
  <2>6. OfKind(mempool, "proposal")' = {}
    BY <1>b DEF OfKind
  <2>7. Unproposed'
    BY <1>1, <1>b, <2>4, <2>5, <2>6 DEF Unproposed
  <2> QED
    BY <2>2, <2>3, <2>7 DEF UpgradeFirst
<1>2. CASE proposals = <<>> /\ ~planned /\ Proposing
  <2>1. proposalSubmitted
    BY <1>2, <1>b DEF Proposing
  <2>2. PICK k \in 1 .. Len(mempool) : mempool[k].kind = "proposal"
    BY <1>2, <1>d DEF Proposing, OfKind
  <2>3. DOMAIN proposals' # {} /\ DOMAIN proposals = {}
    BY <1>2, <1>c, <2>2 DEF Opens
  <2>4. 1 \in DOMAIN proposals' \ DOMAIN proposals /\ proposals' # <<>>
    BY <1>f, <2>3
  <2>5. proposals'[1].what = Upgrade
    <3>1. /\ f[1] \in 1 .. Len(mempool) /\ mempool[f[1]].kind = "proposal"
          /\ proposals'[1] =
               [what |-> mempool[f[1]].what, opened |-> chainHeight', vote |-> None]
      BY <1>c, <2>4 DEF Opens
    <3>2. mempool[f[1]].what = Upgrade
      BY <1>2, <1>d, <3>1 DEF Proposing, OfKind
    <3> QED
      BY <3>1, <3>2
  <2> QED
    BY <1>b, <2>1, <2>4, <2>5 DEF UpgradeFirst
<1>3. CASE proposals # <<>> /\ proposals[1].what = Upgrade /\ proposalSubmitted
  <2>1. 1 \in DOMAIN proposals
    <3>1. \E S : proposals \in Seq(S)
      BY DEF TypeOK
    <3> QED
      BY <1>3, <1>d, <3>1
  <2>2. proposals'[1].what = Upgrade
    BY <1>3, <1>b, <2>1, SameProposal
  <2>3. proposals' # <<>>
    BY <1>c, <2>1 DEF Opens
  <2> QED
    BY <1>3, <1>b, <2>2, <2>3 DEF UpgradeFirst
<1> QED
  BY <1>1, <1>2, <1>3 DEF UpgradeFirst

LEMMA BlockOnTrack ==
  ASSUME Prompt, RoomForFaults, CustomInv, NewBlock,
         NEW id \in DOMAIN proposals', proposals'[id].what \in CustomGov
  PROVE  OnTrack(id)'
<1>a. TypeOK /\ Calm
  BY DEF CustomInv
<1>b. /\ mempool' = <<>> /\ events = <<>> /\ \A h \in Handlers : pc[h] = "idle"
      /\ chainHeight' = IF chainHeight < MaxHeight THEN chainHeight + 1 ELSE MaxHeight
      /\ events' = <<chainHeight'>> \/ (events' = <<>> /\ planned /\ chainHeight + 1 = UpgradeHeight)
      /\ faults' = faults \/ faults' = faults + 1
      /\ UNCHANGED <<pc, todo, proposalSubmitted>>
      /\ Votes(Len(mempool)) /\ \E f : Opens(Len(mempool), f)
  BY <1>a, BlockTakesAll
<1>c. /\ chainHeight \in Nat /\ faults \in Nat /\ UpgradeHeight \in Nat /\ MaxHeight \in Nat
      /\ UpgradeHeight <= MaxHeight
  BY <1>a, NumbersAreNat
<1>d. VotesOn(id)' = {}
  BY <1>b DEF VotesOn, OfKind
<1>e. \A x : <<x>> # <<>>
  OBVIOUS
\* A block whose event is lost is the upgrade's.
<1>f. ~Chance(id)' => /\ chainHeight + 1 = UpgradeHeight /\ chainHeight' = chainHeight + 1
                      /\ Halts = 0 /\ Halts' = 1
  <2> SUFFICES ASSUME ~Chance(id)'
               PROVE  /\ chainHeight + 1 = UpgradeHeight /\ chainHeight' = chainHeight + 1
                      /\ Halts = 0 /\ Halts' = 1
    OBVIOUS
  <2>1. events' = <<>>
    BY DEF Chance
  <2>2. chainHeight + 1 = UpgradeHeight
    BY <1>b, <1>e, <2>1
  <2>3. chainHeight' = chainHeight + 1
    BY <1>b, <1>c, <2>2
  <2> QED
    BY <1>c, <2>2, <2>3 DEF Halts
<1>g. Halts \in {0, 1} /\ Halts' \in {0, 1} /\ Halts <= Halts' /\ chainHeight' \in Nat
      /\ chainHeight' <= chainHeight + 1 /\ faults' \in Nat /\ faults <= faults'
  BY <1>b, <1>c DEF Halts
<1>1. CASE id \in DOMAIN proposals
  <2>1. proposals'[id].what = proposals[id].what /\ proposals'[id].opened = proposals[id].opened
    BY <1>1, <1>a, <1>b, SameProposal
  <2>2. OnTrack(id) /\ Wanted(id)' = Wanted(id)
    BY <1>1, <2>1 DEF CustomInv, Wanted
  <2>3. proposals[id] \in [what : Whats, opened : 1 .. chainHeight, vote : {None, "yes", "no"}]
    BY <1>1, <1>a, NumbersAreNat
  <2>4. CASE /\ proposals'[id] = proposals[id]
             /\ id \in Open => \A k \in 1 .. Len(mempool) :
                                 ~(mempool[k].kind = "vote" /\ mempool[k].what = id)
    <3>1. ASSUME proposals[id].vote = None
          PROVE  /\ chainHeight' <= proposals[id].opened + faults' + Halts'
                 /\ ~Chance(id)' => chainHeight' + 1 <= proposals[id].opened + faults' + Halts'
      <4>1. id \in Open
        BY <1>1, <1>a, <2>2, <3>1, StillOpen
      <4>2. VotesOn(id) = {}
        <5>1. DOMAIN mempool = 1 .. Len(mempool)
          BY <1>a DEF TypeOK
        <5> QED
          BY <2>4, <4>1, <5>1 DEF VotesOn, OfKind
      <4>3. ~Chance(id)
        BY <1>b, <4>2 DEF Chance, BeforeVotes
      <4>4. chainHeight + 1 <= proposals[id].opened + faults + Halts
        BY <2>2, <3>1, <4>3 DEF OnTrack
      <4>5. proposals[id].opened \in Nat
        BY <2>3
      <4> QED
        BY <1>c, <1>f, <1>g, <4>4, <4>5
    <3> QED
      BY <1>d, <2>2, <2>4, <3>1 DEF OnTrack
  <2>5. CASE \E k \in 1 .. Len(mempool) :
               /\ mempool[k].kind = "vote" /\ mempool[k].what = id
               /\ mempool[k].option \in {"yes", "no"}
               /\ proposals'[id] = [proposals[id] EXCEPT !.vote = mempool[k].option]
    <3>1. PICK k \in 1 .. Len(mempool) :
               /\ mempool[k].kind = "vote" /\ mempool[k].what = id
               /\ mempool[k].option \in {"yes", "no"}
               /\ proposals'[id] = [proposals[id] EXCEPT !.vote = mempool[k].option]
      BY <2>5
    <3>2. k \in VotesOn(id)
      <4>1. DOMAIN mempool = 1 .. Len(mempool)
        BY <1>a DEF TypeOK
      <4> QED
        BY <3>1, <4>1 DEF VotesOn, OfKind
    <3>3. mempool[k].option = Wanted(id)
      BY <2>2, <3>2 DEF OnTrack
    <3>4. proposals'[id].vote = Wanted(id)
      BY <2>3, <3>1, <3>3
    <3>5. proposals'[id].vote # None
      BY <3>4 DEF Wanted, None
    <3> QED
      BY <1>d, <2>2, <3>4, <3>5 DEF OnTrack
  <2> QED
    BY <1>1, <1>b, <2>4, <2>5 DEF Votes
<1>2. CASE id \notin DOMAIN proposals
  <2>1. PICK f : Opens(Len(mempool), f)
    BY <1>b
  <2>2. proposals'[id].opened = chainHeight' /\ proposals'[id].vote = None
    BY <1>2, <2>1 DEF Opens
  <2>3. /\ chainHeight' <= chainHeight' + faults' + Halts'
        /\ ~Chance(id)' => chainHeight' + 1 <= chainHeight' + faults' + Halts'
    <3>1. Halts' \in Nat /\ chainHeight' \in Nat /\ faults' \in Nat
      BY <1>g
    <3>2. \A c, g, u \in Nat : c <= c + g + u /\ (u = 1 => c + 1 <= c + g + u)
      OBVIOUS
    <3> QED
      BY <1>f, <3>1, <3>2
  <2> QED
    BY <1>d, <2>2, <2>3 DEF OnTrack
<1> QED
  BY <1>1, <1>2

LEMMA NextCustom ==
  ASSUME Prompt, MsgsLoaded, "submit" \notin Faults, RoomForFaults, CustomInv, [Next]_vars
  PROVE  CustomInv'
<1>1. CASE \E h \in Handlers : HandlerStep(h) \/ Abort(h)
  <2>1. PICK h \in Handlers : HandlerStep(h) \/ Abort(h)
    BY <1>1
  <2>2. TypeOK' /\ Calm' /\ UpgradeFirst'
    BY <2>1, HandlerTypeOK, HandlerCalm, HandlerUpgradeFirst DEF CustomInv
  <2>3. UNCHANGED proposals
    BY <2>1, StepFrame DEF CustomInv, OnFundBlock
  <2>4. \A id \in DOMAIN proposals : proposals[id].what \in CustomGov => OnTrack(id)'
    BY <2>1, HandlerOnTrack
  <2> QED
    BY <2>2, <2>3, <2>4 DEF CustomInv
<1>2. CASE NewBlock
  <2>1. TypeOK' /\ UpgradeFirst'
    BY <1>2, BlockTypeOK, BlockUpgradeFirst DEF CustomInv
  <2>2. Calm'
    <3>1. TypeOK /\ Calm
      BY DEF CustomInv
    <3>2. /\ mempool' = <<>> /\ \A h \in Handlers : pc[h] = "idle"
          /\ events' = <<chainHeight'>> \/ events' = <<>>
          /\ UNCHANGED pc
      BY <1>2, <3>1, BlockTakesAll
    <3> QED
      BY <3>2 DEF Calm, AtRest
  <2>3. \A id \in DOMAIN proposals' : proposals'[id].what \in CustomGov => OnTrack(id)'
    BY <1>2, BlockOnTrack
  <2> QED
    BY <2>1, <2>2, <2>3 DEF CustomInv
<1>3. CASE UNCHANGED vars
  <2>1. /\ UNCHANGED <<proposalSubmitted, pc, todo, events, chainHeight, mempool>>
        /\ UNCHANGED <<proposals, planned, faults>>
    BY <1>3 DEF vars, runnerVars, localVars, chainVars
  <2>2. TypeOK'
    BY <1>3, NextTypeOK DEF CustomInv
  <2>3. Calm' /\ UpgradeFirst'
    BY <2>1 DEF CustomInv, Calm, AtRest, UpgradeFirst, Unproposed, Proposing, OfKind
  <2>4. \A id \in DOMAIN proposals : OnTrack(id) => OnTrack(id)'
    BY <2>1 DEF OnTrack, VotesOn, OfKind, Wanted, Chance, Halts
  <2> QED
    BY <2>1, <2>2, <2>3, <2>4 DEF CustomInv
<1> QED
  BY <1>1, <1>2, <1>3 DEF Next

\* Each custom proposal ends as config.json says, whatever other proposals are open, while
\* there are more blocks to vote in than faults and the restart at the upgrade can take, the
\* upgrade's own proposal reaches the chain before any custom one is due, and blocks wait for
\* their handlers (README 98: "every validator votes that way").
THEOREM RunnerAsConfigured ==
  ASSUME Prompt, MsgsLoaded, "submit" \notin Faults, RoomForFaults
  PROVE  Spec => []AsConfigured
<1>1. CustomInv /\ [Next]_vars => CustomInv'
  BY NextCustom
<1>2. CustomInv => AsConfigured
  <2> SUFFICES ASSUME CustomInv, NEW id \in DOMAIN proposals,
                      proposals[id].what \in CustomGov, Decided(id)
               PROVE  (proposals[id].vote = "yes") = (proposals[id].what \in PassesYes)
    BY DEF AsConfigured
  <2>1. TypeOK /\ OnTrack(id)
    BY DEF CustomInv
  <2>2. id \notin Open
    BY <2>1, NumbersAreNat DEF Decided, Open, Ends
  <2>3. proposals[id].vote = Wanted(id)
    BY <2>1, <2>2, StillOpen DEF OnTrack
  <2> QED
    BY <2>3 DEF Wanted
<1> QED
  BY InitCustom, <1>1, <1>2, PTL DEF Spec

=============================================================================
