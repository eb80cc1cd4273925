----------------------------- MODULE Transfers -----------------------------
(***************************************************************************)
(* What the wallets without a mission do on every block: a test wallet     *)
(* sends, stakes, unstakes or withdraws, and the IBC wallets of both       *)
(* chains send FUND across and most of it back (modules: bank, stake, ibc, *)
(* module; runner/actions.mjs).  The relayer's start script is part of it: *)
(* nothing crosses before it has made the channel.                         *)
(*                                                                         *)
(* Each chain's blocks are handled one after the other, the two chains'    *)
(* concurrently.  Each action is the code from one await to the next: a    *)
(* holding is read, a share of it goes into a message, and the message is  *)
(* simulated and broadcast later.  Fees and rewards are left out.          *)
(***************************************************************************)
EXTENDS Integers, Sequences, Verify

CONSTANTS
  NumTests, NumIbc,  \* test wallets; IBC wallets on each chain
  Share,             \* the share of a holding an op takes, in thousandths: <<from, to>>
  AlreadyHas,        \* runIbcTransfers(): a receiver with so much is sent no more
  Holdings,          \* the liquid holdings a rehearsal may begin with
  Faults,            \* the kinds of fault that may happen
  MaxFaults          \* bound: how many of them a behaviour contains

Chains == {"fund", "gaiad"}
Test(i) == <<"test", i>>
Ibc(c, i) == <<c, i>>
Tests == {Test(i) : i \in 1 .. NumTests}
Ibcs == {Ibc(c, i) : c \in Chains, i \in 1 .. NumIbc}
Wallets == Tests \cup Ibcs

\* The chain a wallet is on.
ChainOf(w) == IF w \in Tests THEN "fund" ELSE w[1]
Other(c) == IF c = "fund" THEN "gaiad" ELSE "fund"

Shares == {"send", "delegate", "undelegate", "fund", "gaiad"}
Ops == {"send", "delegate", "undelegate", "withdraw", "transfer"}

ASSUME TransfersAssumption ==
  /\ {NumTests, NumIbc, AlreadyHas, MaxFaults} \subseteq Nat
  /\ \A s \in Shares : Share[s][1] \in Nat /\ Share[s][2] \in Share[s][1] .. 1000
  /\ \A holding \in Holdings : holding \in [Wallets -> Nat]
  /\ Faults \subseteq {"query", "delay", "create", "crash"}

VARIABLES
  pc,                  \* each chain's handler: its await
  idx,                 \* the wallet a handler is at
  msg,                 \* the message it is composing or sending
  fundOpen,            \* what the first of the two channel queries answered
  ibcOpen, ibcDenom,   \* BlockActions: shared by the handlers
  sent, pending,       \* the test wallets with a tx in sentTxs, in pendingTxs
  liquid, delegated,   \* the chains: a wallet's holding of what it sends, and its stake
  mempool,             \* each wallet's txs on their way to a block, in their order
  flying,              \* what packets carry to a wallet
  hermes, initialised, \* the relayer's script, and the flag file it leaves
  channels,            \* the channels, by the state of both ends
  failed,              \* history: the wallets whose txs failed in a block
  faults               \* faults so far

handlerVars == <<pc, idx, msg, fundOpen>>
runnerVars  == <<ibcOpen, ibcDenom, sent, pending>>
chainVars   == <<liquid, delegated, flying, failed>>
relayVars   == <<hermes, initialised, channels>>
vars == <<handlerVars, runnerVars, chainVars, mempool, relayVars, faults>>

NoMsg == [op |-> "none", amount |-> 0, to |-> Test(0)]

Init ==
  /\ pc = [c \in Chains |-> "idle"]
  /\ idx = [c \in Chains |-> 1]
  /\ msg = [c \in Chains |-> NoMsg]
  /\ fundOpen = [c \in Chains |-> FALSE]
  /\ ibcOpen = FALSE /\ ibcDenom = ""
  /\ sent = {} /\ pending = {}
  /\ liquid \in Holdings
  /\ delegated = [w \in Tests |-> 0]
  /\ mempool = [w \in Wallets |-> <<>>]
  /\ flying = [w \in Ibcs |-> 0]
  /\ hermes = "down" /\ initialised = FALSE
  /\ channels = <<>>
  /\ failed = {}
  /\ faults = 0

Fault(kind) == kind \in Faults /\ faults < MaxFaults /\ faults' = faults + 1

---------------------------------------------------------------------------
(* Shares of holdings, and what becomes of a message. *)

\* randomAmountFromBalance()
Portion(holding, share) ==
  IF holding = 0 THEN {0}
  ELSE (holding * share[1]) \div 1000 .. (holding * share[2]) \div 1000

\* The chain takes the message.
Takes(w, m) ==
  CASE m.op = "withdraw"   -> delegated[w] > 0
    [] m.op = "undelegate" -> m.amount \in 1 .. delegated[w]
    [] OTHER               -> m.amount \in 1 .. liquid[w]

\* Mutant: the txs of IBC wallets are followed with those of test wallets.
SendTxAll(w, m) ==
  IF Takes(w, m)
  THEN mempool' = [mempool EXCEPT ![w] = Append(@, m)] /\ sent' = sent \cup {w}
  ELSE UNCHANGED <<mempool, sent>>

\* sendTx(): simulated on the last block's state, then broadcast.
SendTx(w, m) ==
  IF Takes(w, m)
  THEN /\ mempool' = [mempool EXCEPT ![w] = Append(@, m)]
       /\ sent' = sent \cup ({w} \cap Tests)
  ELSE UNCHANGED <<mempool, sent>>

---------------------------------------------------------------------------
(* A handler comes to the next thing to do. *)

Goto(c, to) == pc' = [pc EXCEPT ![c] = to]

\* The IBC transfers, if the channel is open; the end of the handler.
ToIbc(c, open) ==
  /\ idx' = [idx EXCEPT ![c] = 1]
  /\ msg' = [msg EXCEPT ![c] = NoMsg]
  /\ Goto(c, IF open THEN "timeout" ELSE "end")

\* Test wallet i, or what follows the test wallets.
ToTest(c, i, open) ==
  IF c = "gaiad" \/ i > NumTests THEN ToIbc(c, open)
  ELSE /\ idx' = [idx EXCEPT ![c] = i]
       /\ msg' = [msg EXCEPT ![c] = NoMsg]
       /\ Goto(c, "test")

\* IBC wallet i, or the end: towards gaiad, a receiver that has enough already is asked first.
ToTransfer(c, i) ==
  /\ idx' = [idx EXCEPT ![c] = IF i <= NumIbc THEN i ELSE 1]
  /\ IF i > NumIbc
     THEN msg' = [msg EXCEPT ![c] = NoMsg] /\ Goto(c, "end")
     ELSE /\ \E j \in 1 .. NumIbc :
               msg' = [msg EXCEPT ![c] = [op |-> "transfer", amount |-> 0, to |-> Ibc(Other(c), j)]]
          /\ Goto(c, IF c = "fund" THEN "room" ELSE "holding")

\* After the message of a wallet, or without one.
ToNext(c) ==
  IF msg[c].op = "transfer" THEN ToTransfer(c, idx[c] + 1) ELSE ToTest(c, idx[c] + 1, ibcOpen)

Wallet(c) == IF msg[c].op = "transfer" THEN Ibc(c, idx[c]) ELSE Test(idx[c])

---------------------------------------------------------------------------
(* The handlers. *)

\* A new block: results free the queues, unless a tx is still on its way.
OnBlock(c) ==
  /\ pc[c] = "idle"
  /\ \/ (\A w \in Wallets : ChainOf(w) = c => mempool[w] = <<>>) /\ UNCHANGED faults
     \/ (\E w \in Wallets : ChainOf(w) = c /\ mempool[w] # <<>>) /\ Fault("delay")
  /\ pending' = IF c = "fund" THEN {w \in pending : mempool[w] # <<>>} ELSE pending
  /\ IF ibcOpen THEN ToTest(c, 1, TRUE) ELSE Goto(c, "fundEnd") /\ UNCHANGED <<idx, msg>>
  /\ UNCHANGED <<fundOpen, ibcOpen, ibcDenom, sent, chainVars, mempool, relayVars>>

\* checkIbcChannel(): the first channel is open.
FirstOpen == Len(channels) > 0 /\ channels[1] = "OPEN"

CheckFundEnd(c) ==
  /\ pc[c] = "fundEnd" /\ Goto(c, "gaiadEnd")
  /\ fundOpen' = [fundOpen EXCEPT ![c] = FirstOpen]
  /\ UNCHANGED <<idx, msg, runnerVars, chainVars, mempool, relayVars, faults>>

\* Both ends: from now on it is not asked again.
CheckGaiadEnd(c) ==
  /\ pc[c] = "gaiadEnd"
  /\ LET both == fundOpen[c] /\ FirstOpen
     IN  /\ ibcOpen' = (ibcOpen \/ both)
         /\ ibcDenom' = IF both THEN "voucher" ELSE ibcDenom
         /\ ToTest(c, 1, ibcOpen')
  /\ fundOpen' = [fundOpen EXCEPT ![c] = FALSE]
  /\ UNCHANGED <<sent, pending, chainVars, mempool, relayVars, faults>>

\* Mutant: a wallet is not asked whether its last tx is through.
BusyNever(w) == FALSE

Busy(w) == w \in pending

\* A test wallet that is busy does nothing; the dice give an idle one a module.  A vote moves
\* nothing and is left out.
ChooseModule(c) ==
  /\ pc[c] = "test"
  /\ \/ ToTest(c, idx[c] + 1, ibcOpen)
     \/ /\ ~Busy(Test(idx[c]))
        /\ \E j \in (1 .. NumTests) \ {idx[c]} :
             msg' = [msg EXCEPT ![c] = [op |-> "send", amount |-> 0, to |-> Test(j)]]
        /\ Goto(c, "balance") /\ UNCHANGED idx
     \/ /\ ~Busy(Test(idx[c]))
        /\ Goto(c, "delegation") /\ UNCHANGED <<idx, msg>>
  /\ UNCHANGED <<fundOpen, runnerVars, chainVars, mempool, relayVars, faults>>

Compose(c, op, amount) ==
  /\ msg' = [msg EXCEPT ![c] = [op |-> op, amount |-> amount, to |-> Test(0)]]
  /\ Goto(c, IF op = "delegate" THEN "balance" ELSE "send")
  /\ UNCHANGED idx

\* getDelegatedBalance(): without a stake, or when the query fails, the wallet stakes; with
\* one, the dice choose.
StakeRandomMsg(c) ==
  LET stake == delegated[Test(idx[c])]
  IN  /\ pc[c] = "delegation"
      /\ \/ Compose(c, "delegate", 0) /\ (UNCHANGED faults \/ Fault("query"))
         \/ /\ stake > 0 /\ UNCHANGED faults
            /\ \/ Compose(c, "withdraw", 0)
               \/ \E amount \in Portion(stake, Share["undelegate"]) :
                    IF amount = 0 THEN ToNext(c) ELSE Compose(c, "undelegate", amount)
      /\ UNCHANGED <<fundOpen, runnerVars, chainVars, mempool, relayVars>>

Amount(c, share, to) ==
  \E amount \in Portion(liquid[Wallet(c)], Share[share]) :
    /\ msg' = [msg EXCEPT ![c].amount = amount]
    /\ Goto(c, to) /\ UNCHANGED idx

\* The balance for a send or a stake; an amount of zero is sent too, and refused.
AnswerBalance(c) ==
  /\ pc[c] = "balance"
  /\ Amount(c, msg[c].op, "send")
  /\ UNCHANGED <<fundOpen, runnerVars, chainVars, mempool, relayVars, faults>>

\* calculateIbcTimeoutHeight() answers.
AnswerTimeout(c) ==
  /\ pc[c] = "timeout"
  /\ ToTransfer(c, 1)
  /\ UNCHANGED <<fundOpen, runnerVars, chainVars, mempool, relayVars, faults>>

HasEnough(w) == liquid[w] >= AlreadyHas

AnswerRoom(c) ==
  /\ pc[c] = "room"
  /\ IF HasEnough(msg[c].to) THEN ToNext(c) ELSE Goto(c, "holding") /\ UNCHANGED <<idx, msg>>
  /\ UNCHANGED <<fundOpen, runnerVars, chainVars, mempool, relayVars, faults>>

\* Mutant: gaiad's IBC wallets look for nund.
BackDenomNund(c) == "nund"

\* The denom a chain's IBC wallets send; what they have of it.
BackDenom(c) == IF c = "fund" THEN "nund" ELSE ibcDenom

AnswerHolding(c) ==
  /\ pc[c] = "holding"
  /\ IF BackDenom(c) = (IF c = "fund" THEN "nund" ELSE "voucher")
     THEN \/ /\ 0 \in Portion(liquid[Wallet(c)], Share[c])
             /\ ToNext(c)
          \/ Amount(c, c, "send") /\ msg'[c].amount > 0
     ELSE ToNext(c)
  /\ UNCHANGED <<fundOpen, runnerVars, chainVars, mempool, relayVars, faults>>

\* A sendTx returns.
Send(c) ==
  /\ pc[c] = "send"
  /\ SendTx(Wallet(c), msg[c])
  /\ ToNext(c)
  /\ UNCHANGED <<fundOpen, ibcOpen, ibcDenom, pending, chainVars, relayVars, faults>>

\* moveSentToPending()
End(c) ==
  /\ pc[c] = "end" /\ Goto(c, "idle")
  /\ IF c = "fund" THEN pending' = pending \cup sent /\ sent' = {} ELSE UNCHANGED <<pending, sent>>
  /\ UNCHANGED <<idx, msg, fundOpen, ibcOpen, ibcDenom, chainVars, mempool, relayVars, faults>>

\* A query rejects, other than a delegation's: the rest of the handler is skipped, and what
\* it sent stays in sentTxs.
Abort(c) ==
  /\ pc[c] \in {"fundEnd", "gaiadEnd", "balance", "timeout", "room", "holding"}
  /\ Fault("query") /\ Goto(c, "idle")
  /\ idx' = [idx EXCEPT ![c] = 1]
  /\ msg' = [msg EXCEPT ![c] = NoMsg]
  /\ fundOpen' = [fundOpen EXCEPT ![c] = FALSE]
  /\ UNCHANGED <<runnerVars, chainVars, mempool, relayVars>>

---------------------------------------------------------------------------
(* The chains. *)

\* A wallet's next tx is executed.  What is unstaked is gone for the rehearsal.
Execute(w) ==
  LET m == Head(mempool[w])
      out == [liquid EXCEPT ![w] = @ - m.amount]
  IN  /\ mempool[w] # <<>>
      /\ mempool' = [mempool EXCEPT ![w] = Tail(@)]
      /\ IF ~Takes(w, m) THEN failed' = failed \cup {w} /\ UNCHANGED <<liquid, delegated, flying>>
         ELSE /\ liquid' = CASE m.op = "send" -> [out EXCEPT ![m.to] = @ + m.amount]
                             [] m.op \in {"delegate", "transfer"} -> out
                             [] OTHER -> liquid
              /\ delegated' = CASE m.op = "delegate"   -> [delegated EXCEPT ![w] = @ + m.amount]
                                [] m.op = "undelegate" -> [delegated EXCEPT ![w] = @ - m.amount]
                                [] OTHER -> delegated
              /\ flying' = IF m.op = "transfer" THEN [flying EXCEPT ![m.to] = @ + m.amount] ELSE flying
              /\ UNCHANGED failed
      /\ UNCHANGED <<handlerVars, runnerVars, relayVars, faults>>

---------------------------------------------------------------------------
(* The relayer: run_hermes.sh.  The flag is left whatever became of the channel. *)

HermesStarts ==
  /\ hermes = "down"
  /\ hermes' = IF initialised THEN "running" ELSE "create"
  /\ UNCHANGED <<handlerVars, runnerVars, chainVars, mempool, initialised, channels, faults>>

\* `hermes create channel`: the handshake begins; ends; or fails where it is.
HermesCreates ==
  /\ \/ /\ hermes = "create" /\ hermes' = "handshake"
        /\ channels' = Append(channels, "INIT") /\ UNCHANGED faults
     \/ /\ hermes = "handshake" /\ hermes' = "touch"
        /\ channels' = [channels EXCEPT ![Len(channels)] = "OPEN"] /\ UNCHANGED faults
     \/ /\ hermes \in {"create", "handshake"} /\ hermes' = "touch"
        /\ Fault("create") /\ UNCHANGED channels
  /\ UNCHANGED <<handlerVars, runnerVars, chainVars, mempool, initialised>>

HermesTouches ==
  /\ hermes = "touch" /\ hermes' = "running"
  /\ initialised' = TRUE
  /\ UNCHANGED <<handlerVars, runnerVars, chainVars, mempool, channels, faults>>

\* The container stops and is started again.
HermesCrashes ==
  /\ hermes # "down" /\ hermes' = "down"
  /\ Fault("crash")
  /\ UNCHANGED <<handlerVars, runnerVars, chainVars, mempool, initialised, channels>>

\* `hermes start`: packets for a wallet are relayed, before they time out.
Relay(w) ==
  /\ hermes = "running" /\ flying[w] > 0
  /\ liquid' = [liquid EXCEPT ![w] = @ + flying[w]]
  /\ flying' = [flying EXCEPT ![w] = 0]
  /\ UNCHANGED <<handlerVars, runnerVars, delegated, failed, mempool, relayVars, faults>>

---------------------------------------------------------------------------

Handler(c) ==
  \/ OnBlock(c) \/ CheckFundEnd(c) \/ CheckGaiadEnd(c) \/ ChooseModule(c) \/ StakeRandomMsg(c)
  \/ AnswerBalance(c) \/ AnswerTimeout(c) \/ AnswerRoom(c) \/ AnswerHolding(c) \/ Send(c) \/ End(c)
Hermes == HermesStarts \/ HermesCreates \/ HermesTouches \/ \E w \in Ibcs : Relay(w)

Next ==
  \/ \E c \in Chains : Handler(c) \/ Abort(c)
  \/ \E w \in Wallets : Execute(w)
  \/ Hermes
  \/ HermesCrashes

Spec == Init /\ [][Next]_vars

\* Blocks keep coming and hold what was sent, awaits return and the relayer goes on.  Nothing
\* is assumed of the dice.
FairSpec ==
  /\ Spec
  /\ \A c \in Chains : WF_vars(Handler(c))
  /\ \A w \in Wallets : WF_vars(Execute(w))
  /\ WF_vars(Hermes)

---------------------------------------------------------------------------
(* Properties *)

IsMsg(m) == m.op \in Ops \cup {"none"} /\ m.amount \in Nat /\ m.to \in Wallets \cup {Test(0)}

TypeOK ==
  /\ pc \in [Chains -> {"idle", "fundEnd", "gaiadEnd", "test", "delegation", "balance", "timeout",
                       "room", "holding", "send", "end"}]
  /\ idx \in [Chains -> {1} \cup 1 .. NumTests + NumIbc]
  /\ \A c \in Chains : IsMsg(msg[c]) /\ (pc[c] \in {"idle", "end"} => msg[c] = NoMsg)
  /\ fundOpen \in [Chains -> BOOLEAN] /\ ibcOpen \in BOOLEAN
  /\ ibcDenom = IF ibcOpen THEN "voucher" ELSE ""
  /\ sent \subseteq Tests /\ pending \subseteq Tests
  /\ liquid \in [Wallets -> Nat] /\ delegated \in [Tests -> Nat] /\ flying \in [Ibcs -> Nat]
  /\ DOMAIN mempool = Wallets
  /\ \A w \in Wallets : \A k \in DOMAIN mempool[w] : IsMsg(mempool[w][k])
  /\ hermes \in {"down", "create", "handshake", "touch", "running"} /\ initialised \in BOOLEAN
  /\ \A k \in DOMAIN channels : channels[k] \in {"INIT", "OPEN"}
  /\ failed \subseteq Wallets
  /\ faults \in 0 .. MaxFaults

\* A tx of a test wallet does not fail in its block: what its holding was when it was read is
\* still there, for a wallet sends again only when its last tx is through (pendingTxs), though
\* a block may leave a tx out or a handler end early.
GatedNeverFail == failed \cap Tests = {}

\* Once the first channel is open FUND goes out and comes back again and again, across
\* restarts of the relayer, and however much the wallets on the other side already have.
Crossing(c) == \E i \in 1 .. NumIbc : flying[Ibc(c, i)] > 0
VouchersReturn ==
  (<>(FirstOpen /\ TransferChannelOpen({channels[1]}, {channels[1]})
      /\ \E i \in 1 .. NumIbc : liquid[Ibc("fund", i)] > 1))
    => []<>Crossing("gaiad") /\ []<>Crossing("fund")
=============================================================================
