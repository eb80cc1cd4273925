--------------------------- MODULE Transfers_proofs ---------------------------
(***************************************************************************)
(* For any wallets, holdings and shares, and any number of delayed txs and *)
(* of crashes and failures of the relayer: as long as no query rejects, no *)
(* tx of a test wallet fails in its block.  The types, and that no holding *)
(* is below zero, hold whatever the queries do.                            *)
(***************************************************************************)
EXTENDS Transfers, SequenceTheorems, TLAPS

Pcs == {"idle", "fundEnd", "gaiadEnd", "test", "delegation", "balance", "timeout", "room",
        "holding", "send", "end"}
Moves == {"send", "delegate", "undelegate", "withdraw"}

\* A message with the address that its kind has.
Msgs == {m \in [op : Ops \cup {"none"}, amount : Nat, to : Wallets \cup {Test(0)}] :
           /\ m.op = "send" => m.to \in Tests
           /\ m.op = "transfer" => m.to \in Ibcs}
Packets == {m \in Msgs : m.op = "transfer"}

\* What a handler is about at each await.
Shape(c) ==
  /\ pc[c] \in {"test", "delegation", "balance"} =>
       c = "fund" /\ idx[c] \in 1 .. NumTests /\ msg[c].op # "transfer"
  /\ pc[c] = "balance" => msg[c].op \in {"send", "delegate"}
  /\ pc[c] \in {"room", "holding"} => idx[c] \in 1 .. NumIbc /\ msg[c].op = "transfer"
  /\ pc[c] = "send" =>
       \/ idx[c] \in 1 .. NumIbc /\ msg[c].op = "transfer"
       \/ c = "fund" /\ idx[c] \in 1 .. NumTests /\ msg[c].op \in Moves
  /\ pc[c] \in {"idle", "fundEnd", "gaiadEnd", "timeout", "end"} => idx[c] = 1 /\ msg[c] = NoMsg

Local ==
  /\ pc \in [Chains -> Pcs]
  /\ idx \in [Chains -> Nat \ {0}]
  /\ msg \in [Chains -> Msgs]
  /\ \A c \in Chains : Shape(c)

Held ==
  /\ liquid \in [Wallets -> Nat]
  /\ delegated \in [Tests -> Nat]
  /\ flying \in [Ibcs -> Nat]

AtTests == \/ pc["fund"] \in {"test", "delegation", "balance"}
           \/ pc["fund"] = "send" /\ msg["fund"].op # "transfer"

\* Between blocks nobody is in sentTxs; during one, the wallets that had their turn.  The wallet
\* whose turn it is was found idle.
Turns ==
  /\ pc["fund"] \in {"idle", "fundEnd", "gaiadEnd"} => sent = {}
  /\ AtTests => sent \subseteq {Test(j) : j \in 1 .. idx["fund"] - 1}
  /\ AtTests /\ pc["fund"] # "test" => Test(idx["fund"]) \notin pending

\* A test wallet has one tx on its way at most, is known for it, and can still afford it.
OneOnItsWay(w) ==
  \/ mempool[w] = <<>>
  \/ /\ w \in sent \cup pending
     /\ \E m \in Msgs : mempool[w] = <<m>> /\ m.op \in Moves /\ Takes(w, m)

Queues ==
  /\ DOMAIN mempool = Wallets
  /\ \A w \in Tests : OneOnItsWay(w)
  /\ \A w \in Ibcs : mempool[w] \in Seq(Packets)

GateInv == Local /\ Held /\ Turns /\ Queues /\ failed \cap Tests = {}

---------------------------------------------------------------------------
(* Wallets. *)

LEMMA Names ==
  /\ Tests \cap Ibcs = {} /\ Wallets = Tests \cup Ibcs
  /\ \A i \in 1 .. NumTests : Test(i) \in Tests
  /\ \A c \in Chains, i \in 1 .. NumIbc : Ibc(c, i) \in Ibcs
  /\ \A i, j \in Nat : Test(i) = Test(j) => i = j
BY DEF Tests, Ibcs, Wallets, Test, Ibc, Chains

LEMMA Numbers == NumTests \in Nat /\ NumIbc \in Nat
BY TransfersAssumption

\* Nothing has been sent.
LEMMA GateInit == Init => GateInv
<1> SUFFICES ASSUME Init PROVE GateInv
  OBVIOUS
<1>1. NoMsg \in Msgs
  BY DEF NoMsg, Msgs
<1>2. Local
  <2>1. pc = [c \in Chains |-> "idle"] /\ idx = [c \in Chains |-> 1]
        /\ msg = [c \in Chains |-> NoMsg]
    BY DEF Init
  <2>2. pc \in [Chains -> Pcs] /\ idx \in [Chains -> Nat \ {0}] /\ msg \in [Chains -> Msgs]
    BY <1>1, <2>1 DEF Pcs
  <2>3. \A c \in Chains : Shape(c)
    BY <2>1 DEF Shape
  <2> QED
    BY <2>2, <2>3 DEF Local
<1>3. Held
  <2>1. \A holding \in Holdings : holding \in [Wallets -> Nat]
    BY TransfersAssumption
  <2>2. /\ liquid \in Holdings /\ delegated = [w \in Tests |-> 0]
        /\ flying = [w \in Ibcs |-> 0]
    BY DEF Init
  <2> QED
    BY <2>1, <2>2 DEF Held
<1>4. Turns
  BY DEF Init, Turns, AtTests, Chains
<1>5. Queues
  <2>1. mempool = [w \in Wallets |-> <<>>]
    BY DEF Init
  <2> QED
    BY <2>1, Names DEF Queues, OneOnItsWay
<1>6. failed \cap Tests = {}
  BY DEF Init
<1> QED
  BY <1>2, <1>3, <1>4, <1>5, <1>6 DEF GateInv

---------------------------------------------------------------------------
(* A handler comes to the next thing to do. *)

Elsewhere(c) ==
  \A d \in Chains : d # c => pc'[d] = pc[d] /\ idx'[d] = idx[d] /\ msg'[d] = msg[d]

LEMMA GoTest ==
  ASSUME Local, NEW c \in Chains, NEW i \in Nat \ {0}, NEW open, ToTest(c, i, open)
  PROVE  /\ Local' /\ Elsewhere(c)
         /\ \/ pc'[c] = "test" /\ c = "fund" /\ idx'[c] = i
            \/ pc'[c] \in {"timeout", "end"}
<1>1. NoMsg \in Msgs /\ NoMsg.op = "none"
  BY DEF NoMsg, Msgs
<1>2. CASE c = "gaiad" \/ i > NumTests
  <2>1. /\ pc' = [pc EXCEPT ![c] = IF open THEN "timeout" ELSE "end"]
        /\ idx' = [idx EXCEPT ![c] = 1] /\ msg' = [msg EXCEPT ![c] = NoMsg]
    BY <1>2 DEF ToTest, ToIbc, Goto
  <2>2. /\ pc'[c] \in {"timeout", "end"} /\ idx'[c] = 1 /\ msg'[c] = NoMsg
        /\ Elsewhere(c)
    BY <2>1 DEF Local, Elsewhere
  <2>3. pc' \in [Chains -> Pcs] /\ idx' \in [Chains -> Nat \ {0}] /\ msg' \in [Chains -> Msgs]
    BY <1>1, <2>1 DEF Local, Pcs
  <2>4. \A d \in Chains : Shape(d)'
    BY <2>2 DEF Local, Shape, Elsewhere
  <2> QED
    BY <2>2, <2>3, <2>4 DEF Local
<1>3. CASE ~(c = "gaiad" \/ i > NumTests)
  <2>1. /\ pc' = [pc EXCEPT ![c] = "test"] /\ c = "fund" /\ i \in 1 .. NumTests
        /\ idx' = [idx EXCEPT ![c] = i] /\ msg' = [msg EXCEPT ![c] = NoMsg]
    BY <1>3, Numbers DEF ToTest, Goto, Chains
  <2>2. pc'[c] = "test" /\ idx'[c] = i /\ msg'[c] = NoMsg /\ Elsewhere(c)
    BY <2>1 DEF Local, Elsewhere
  <2>3. pc' \in [Chains -> Pcs] /\ idx' \in [Chains -> Nat \ {0}] /\ msg' \in [Chains -> Msgs]
    BY <1>1, <2>1 DEF Local, Pcs
  <2>4. \A d \in Chains : Shape(d)'
    BY <1>1, <2>1, <2>2 DEF Local, Shape, Elsewhere
  <2> QED
    BY <2>1, <2>2, <2>3, <2>4 DEF Local
<1> QED
  BY <1>2, <1>3

LEMMA GoTransfer ==
  ASSUME Local, NEW c \in Chains, NEW i \in Nat \ {0}, ToTransfer(c, i)
  PROVE  Local' /\ Elsewhere(c) /\ pc'[c] \in {"room", "holding", "end"}
<1>1. NoMsg \in Msgs
  BY DEF NoMsg, Msgs
<1>2. /\ idx' = [idx EXCEPT ![c] = IF i <= NumIbc THEN i ELSE 1]
      /\ idx' \in [Chains -> Nat \ {0}]
  BY DEF ToTransfer, Local
<1>3. CASE i > NumIbc
  <2>1. pc' = [pc EXCEPT ![c] = "end"] /\ msg' = [msg EXCEPT ![c] = NoMsg]
    BY <1>3 DEF ToTransfer, Goto
  <2>2. pc'[c] = "end" /\ idx'[c] = 1 /\ msg'[c] = NoMsg /\ Elsewhere(c)
    BY <1>2, <1>3, <2>1, Numbers DEF Local, Elsewhere
  <2>3. pc' \in [Chains -> Pcs] /\ msg' \in [Chains -> Msgs]
    BY <1>1, <2>1 DEF Local, Pcs
  <2>4. \A d \in Chains : Shape(d)'
    BY <2>2 DEF Local, Shape, Elsewhere
  <2> QED
    BY <1>2, <2>2, <2>3, <2>4 DEF Local
<1>4. CASE ~(i > NumIbc)
  <2>1. PICK j \in 1 .. NumIbc :
          msg' = [msg EXCEPT ![c] = [op |-> "transfer", amount |-> 0, to |-> Ibc(Other(c), j)]]
    BY <1>4 DEF ToTransfer
  <2>2. Other(c) \in Chains
    BY DEF Other, Chains
  <2>3. [op |-> "transfer", amount |-> 0, to |-> Ibc(Other(c), j)] \in Msgs
    BY <2>2, Names DEF Msgs, Ops
  <2>4. pc' = [pc EXCEPT ![c] = IF c = "fund" THEN "room" ELSE "holding"]
    BY <1>4 DEF ToTransfer, Goto
  <2>5. /\ pc'[c] \in {"room", "holding"} /\ idx'[c] = i /\ msg'[c].op = "transfer"
        /\ Elsewhere(c) /\ i \in 1 .. NumIbc
    BY <1>2, <1>4, <2>1, <2>4, Numbers DEF Local, Elsewhere
  <2>6. pc' \in [Chains -> Pcs] /\ msg' \in [Chains -> Msgs]
    BY <2>1, <2>3, <2>4 DEF Local, Pcs
  <2>7. \A d \in Chains : Shape(d)'
    BY <2>5 DEF Local, Shape, Elsewhere
  <2> QED
    BY <1>2, <2>5, <2>6, <2>7 DEF Local
<1> QED
  BY <1>3, <1>4, Numbers

\* A handler that is at no wallet has no message.
LEMMA AtRest ==
  ASSUME Local, NEW c \in Chains, pc[c] \in {"idle", "fundEnd", "gaiadEnd", "timeout", "end"}
  PROVE  idx[c] = 1 /\ msg[c] = NoMsg
BY DEF Local, Shape

\* It stays with the wallet it is at.
LEMMA Stay ==
  ASSUME Local, NEW c \in Chains, NEW to \in Pcs, NEW m \in Msgs,
         pc' = [pc EXCEPT ![c] = to], idx' = idx, msg' = [msg EXCEPT ![c] = m],
         to \in {"test", "delegation", "balance"} =>
           c = "fund" /\ idx[c] \in 1 .. NumTests /\ m.op # "transfer",
         to = "balance" => m.op \in {"send", "delegate"},
         to \in {"room", "holding"} => idx[c] \in 1 .. NumIbc /\ m.op = "transfer",
         to = "send" => \/ idx[c] \in 1 .. NumIbc /\ m.op = "transfer"
                        \/ c = "fund" /\ idx[c] \in 1 .. NumTests /\ m.op \in Moves,
         to \in {"idle", "fundEnd", "gaiadEnd", "timeout", "end"} => idx[c] = 1 /\ m = NoMsg
  PROVE  Local' /\ Elsewhere(c) /\ pc'[c] = to /\ msg'[c] = m
<1>1. pc'[c] = to /\ msg'[c] = m /\ idx'[c] = idx[c] /\ Elsewhere(c)
  BY DEF Local, Elsewhere
<1>2. pc' \in [Chains -> Pcs] /\ idx' \in [Chains -> Nat \ {0}] /\ msg' \in [Chains -> Msgs]
  BY DEF Local
<1>3. Shape(c)'
  BY <1>1 DEF Shape
<1>4. \A d \in Chains \ {c} : Shape(d)'
  BY <1>1 DEF Local, Shape, Elsewhere
<1> QED
  BY <1>1, <1>2, <1>3, <1>4 DEF Local

\* Whatever it does for the IBC wallets, or on gaiad, is none of the test wallets' turns.
LEMMA TurnsKept ==
  ASSUME Turns, NEW c \in Chains, Elsewhere(c), UNCHANGED <<sent, pending>>,
         c = "fund" => \/ pc'[c] \in {"timeout", "end", "room", "holding"}
                       \/ pc'[c] = "send" /\ msg'[c].op = "transfer"
  PROVE  Turns'
<1>1. CASE c = "fund"
  BY <1>1 DEF Turns, AtTests
<1>2. CASE c = "gaiad"
  <2>1. /\ pc'["fund"] = pc["fund"] /\ idx'["fund"] = idx["fund"]
        /\ msg'["fund"] = msg["fund"]
    BY <1>2 DEF Elsewhere, Chains
  <2> QED
    BY <2>1 DEF Turns, AtTests
<1> QED
  BY <1>1, <1>2 DEF Chains

\* A tx on its way stays affordable while the holdings are.
LEMMA QueuesKept ==
  ASSUME Queues, UNCHANGED <<mempool, liquid, delegated>>,
         \A w \in Tests : w \in sent \cup pending /\ mempool[w] # <<>> => w \in sent' \cup pending'
  PROVE  Queues'
BY DEF Queues, OneOnItsWay, Takes

\* The next test wallet's turn, after those before it.
LEMMA TurnsNextTest ==
  ASSUME Local, NEW c \in Chains, NEW i \in Nat \ {0}, NEW open, ToTest(c, i, open), Turns,
         c = "fund" => sent' \subseteq {Test(j) : j \in 1 .. i - 1},
         c # "fund" => sent' = sent /\ pending' = pending
  PROVE  Local' /\ Turns'
<1>1. /\ Local' /\ Elsewhere(c)
      /\ \/ pc'[c] = "test" /\ c = "fund" /\ idx'[c] = i
         \/ pc'[c] \in {"timeout", "end"}
  BY GoTest
<1>2. CASE c = "fund"
  BY <1>1, <1>2 DEF Turns, AtTests
<1>3. CASE c # "fund"
  <2>1. /\ pc'["fund"] = pc["fund"] /\ idx'["fund"] = idx["fund"]
        /\ msg'["fund"] = msg["fund"]
    BY <1>1, <1>3 DEF Elsewhere, Chains
  <2> QED
    BY <1>1, <1>3, <2>1 DEF Turns, AtTests
<1> QED
  BY <1>2, <1>3, <1>1

---------------------------------------------------------------------------
(* The handlers' steps. *)

LEMMA ShareBounds == \A s \in Shares : Share[s][1] \in Nat /\ Share[s][2] \in Share[s][1] .. 1000
BY TransfersAssumption, Zenon

\* A share of a holding is a number.
LEMMA Portions ==
  ASSUME NEW holding \in Nat, NEW s \in Shares, NEW amount \in Portion(holding, Share[s])
  PROVE  amount \in Nat
<1>1. Share[s][1] \in Nat /\ Share[s][2] \in Nat
  <2>1. Share[s][1] \in Nat /\ Share[s][2] \in Share[s][1] .. 1000
    BY ShareBounds
  <2>2. PICK low, high : low = Share[s][1] /\ high = Share[s][2]
    OBVIOUS
  <2>3. low \in Nat /\ high \in low .. 1000
    BY <2>1, <2>2
  <2>4. high \in Nat
    BY <2>3
  <2> QED
    BY <2>2, <2>3, <2>4
<1>2. CASE holding = 0
  BY <1>2 DEF Portion
<1>3. CASE holding # 0
  <2>1. \A a, b \in Nat : a * b \in Nat
    OBVIOUS
  <2>2. \A n \in Nat : n \div 1000 \in Nat
    OBVIOUS
  <2>3. PICK a, b : a = Share[s][1] /\ b = Share[s][2]
    OBVIOUS
  <2>4. (holding * a) \div 1000 \in Nat /\ (holding * b) \div 1000 \in Nat
    BY <1>1, <2>1, <2>2, <2>3
  <2>5. amount \in (holding * a) \div 1000 .. (holding * b) \div 1000
    BY <1>3, <2>3 DEF Portion
  <2> QED
    BY <2>4, <2>5
<1> QED
  BY <1>2, <1>3

\* An amount is filled in.
LEMMA Filled ==
  ASSUME Local, NEW c \in Chains, NEW amount \in Nat
  PROVE  /\ [msg EXCEPT ![c].amount = amount] = [msg EXCEPT ![c] = [msg[c] EXCEPT !.amount = amount]]
         /\ [msg[c] EXCEPT !.amount = amount] \in Msgs
         /\ [msg[c] EXCEPT !.amount = amount].op = msg[c].op
<1>1. msg[c] \in Msgs
  BY DEF Local
<1> QED
  BY <1>1 DEF Local, Msgs

\* The steps that ask something, or go on: nothing is sent.
LEMMA AskKeeps ==
  ASSUME "query" \notin Faults, GateInv, NEW c \in Chains,
         \/ CheckFundEnd(c) \/ CheckGaiadEnd(c) \/ ChooseModule(c) \/ StakeRandomMsg(c)
         \/ AnswerBalance(c) \/ AnswerTimeout(c) \/ AnswerRoom(c) \/ AnswerHolding(c)
  PROVE  Local' /\ Turns'
<1>1. /\ Local /\ Turns /\ Held /\ pc \in [Chains -> Pcs] /\ idx[c] \in Nat \ {0}
      /\ msg[c] \in Msgs /\ msg = [msg EXCEPT ![c] = msg[c]] /\ idx[c] + 1 \in Nat \ {0}
  BY DEF GateInv, Local
<1>2. UNCHANGED <<sent, pending>>
  BY DEF CheckFundEnd, CheckGaiadEnd, ChooseModule, StakeRandomMsg, AnswerBalance, AnswerTimeout,
         AnswerRoom, AnswerHolding, runnerVars
<1>3. CASE CheckFundEnd(c)
  <2>0. idx[c] = 1 /\ msg[c] = NoMsg
    BY <1>1, <1>3, AtRest DEF CheckFundEnd
  <2>1. Local' /\ Elsewhere(c) /\ pc'[c] = "gaiadEnd"
    BY <1>1, <1>3, <2>0, Stay DEF CheckFundEnd, Goto, Pcs
  <2> QED
    <3>1. CASE c = "fund"
      BY <1>1, <1>2, <1>3, <2>1, <3>1 DEF Turns, AtTests, CheckFundEnd
    <3>2. CASE c # "fund"
      BY <1>1, <1>2, <2>1, <3>2, TurnsKept
    <3> QED
      BY <3>1, <3>2
<1>4. CASE CheckGaiadEnd(c)
  <2>1. pc[c] = "gaiadEnd" /\ ToTest(c, 1, ibcOpen')
    BY <1>4 DEF CheckGaiadEnd
  <2>2. c = "fund" => sent' \subseteq {Test(j) : j \in 1 .. 1 - 1}
    BY <1>1, <1>2, <2>1 DEF Turns
  <2>3. 1 \in Nat \ {0} /\ sent' = sent /\ pending' = pending /\ Local /\ Turns
    BY <1>1, <1>2
  <2> QED
    BY <2>1, <2>2, <2>3, TurnsNextTest
<1>5. CASE ChooseModule(c)
  <2>1. pc[c] = "test" /\ c = "fund" /\ idx[c] \in 1 .. NumTests
    BY <1>1, <1>5 DEF ChooseModule, Local, Shape
  <2>2. sent \subseteq {Test(j) : j \in 1 .. idx[c] - 1}
    BY <1>1, <2>1 DEF Turns, AtTests
  <2>3. CASE ToTest(c, idx[c] + 1, ibcOpen)
    <3>1. sent' \subseteq {Test(j) : j \in 1 .. (idx[c] + 1) - 1}
      BY <1>1, <1>2, <2>2
    <3> QED
      BY <1>1, <1>2, <2>1, <2>3, <3>1, TurnsNextTest
  <2>4. CASE /\ ~Busy(Test(idx[c])) /\ pc' = [pc EXCEPT ![c] = "balance"] /\ idx' = idx
             /\ \E j \in (1 .. NumTests) \ {idx[c]} :
                  msg' = [msg EXCEPT ![c] = [op |-> "send", amount |-> 0, to |-> Test(j)]]
    <3>1. PICK j \in 1 .. NumTests :
            msg' = [msg EXCEPT ![c] = [op |-> "send", amount |-> 0, to |-> Test(j)]]
      BY <2>4
    <3>2. [op |-> "send", amount |-> 0, to |-> Test(j)] \in Msgs
      BY Names DEF Msgs, Ops
    <3>3. Local' /\ pc'[c] = "balance"
      BY <1>1, <2>1, <2>4, <3>1, <3>2, Stay DEF Pcs
    <3> QED
      BY <1>2, <2>1, <2>2, <2>4, <3>3 DEF Turns, AtTests, Busy
  <2>5. CASE /\ ~Busy(Test(idx[c])) /\ pc' = [pc EXCEPT ![c] = "delegation"]
             /\ idx' = idx /\ msg' = msg
    <3>1. msg[c].op # "transfer"
      BY <1>1, <2>1 DEF Local, Shape
    <3>2. Local' /\ pc'[c] = "delegation"
      BY <1>1, <2>1, <2>5, <3>1, Stay DEF Pcs
    <3> QED
      BY <1>2, <2>1, <2>2, <2>5, <3>2 DEF Turns, AtTests, Busy
  <2> QED
    BY <1>5, <2>3, <2>4, <2>5 DEF ChooseModule, Goto
<1>6. CASE StakeRandomMsg(c)
  <2>1. /\ pc[c] = "delegation" /\ c = "fund" /\ idx[c] \in 1 .. NumTests
        /\ msg[c].op # "transfer"
    BY <1>1, <1>6 DEF StakeRandomMsg, Local, Shape
  <2>2. /\ sent \subseteq {Test(j) : j \in 1 .. idx[c] - 1} /\ Test(idx[c]) \notin pending
    BY <1>1, <2>1 DEF Turns, AtTests
  <2>3. CASE ToNext(c)
    <3>1. ToTest(c, idx[c] + 1, ibcOpen)
      BY <2>1, <2>3 DEF ToNext
    <3>2. sent' \subseteq {Test(j) : j \in 1 .. (idx[c] + 1) - 1}
      BY <1>1, <1>2, <2>2
    <3> QED
      BY <1>1, <1>2, <2>1, <3>1, <3>2, TurnsNextTest
  <2>4. ASSUME NEW op \in {"delegate", "undelegate", "withdraw"}, NEW amount \in Nat,
               Compose(c, op, amount)
        PROVE  Local' /\ Turns'
    <3>1. [op |-> op, amount |-> amount, to |-> Test(0)] \in Msgs
      BY DEF Msgs, Ops
    <3>2. Local' /\ pc'[c] \in {"balance", "send"} /\ idx' = idx /\ Elsewhere(c)
      BY <1>1, <2>1, <2>4, <3>1, Stay DEF Compose, Goto, Pcs, Moves
    <3> QED
      BY <1>2, <2>1, <2>2, <3>2 DEF Turns, AtTests
  <2>5. \A amount \in Portion(delegated[Test(idx[c])], Share["undelegate"]) : amount \in Nat
    <3>1. delegated[Test(idx[c])] \in Nat
      BY <1>1, <2>1, Names DEF Held
    <3> QED
      BY <3>1, Portions DEF Shares
  <2> QED
    BY <1>6, <2>3, <2>4, <2>5 DEF StakeRandomMsg
<1>7. CASE AnswerBalance(c)
  <2>1. /\ pc[c] = "balance" /\ c = "fund" /\ idx[c] \in 1 .. NumTests
        /\ msg[c].op \in {"send", "delegate"}
    BY <1>1, <1>7 DEF AnswerBalance, Local, Shape
  <2>2. PICK amount \in Portion(liquid[Wallet(c)], Share[msg[c].op]) :
          /\ msg' = [msg EXCEPT ![c].amount = amount]
          /\ pc' = [pc EXCEPT ![c] = "send"] /\ idx' = idx
    BY <1>7 DEF AnswerBalance, Amount, Goto
  <2>3. amount \in Nat
    <3>1. Wallet(c) \in Wallets
      BY <2>1, Names DEF Wallet
    <3> QED
      BY <1>1, <2>1, <3>1, Portions DEF Held, Shares
  <2>4. Local' /\ pc'[c] = "send" /\ msg'[c].op = msg[c].op
    <3> DEFINE m == [msg[c] EXCEPT !.amount = amount]
    <3>1. m \in Msgs /\ m.op = msg[c].op /\ msg' = [msg EXCEPT ![c] = m]
      BY <1>1, <2>2, <2>3, Filled
    <3>2. m.op \in Moves
      BY <2>1, <3>1 DEF Moves
    <3> HIDE DEF m
    <3>3. Local /\ "send" \in Pcs /\ pc' = [pc EXCEPT ![c] = "send"] /\ idx' = idx
      BY <1>1, <2>2 DEF Pcs
    <3>4. c = "fund" /\ idx[c] \in 1 .. NumTests
      BY <2>1
    <3>5. Local' /\ Elsewhere(c) /\ pc'[c] = "send" /\ msg'[c] = m
      BY <3>1, <3>2, <3>3, <3>4, Stay
    <3> QED
      BY <3>1, <3>5
  <2> QED
    BY <1>1, <1>2, <2>1, <2>2, <2>4 DEF Turns, AtTests
<1>8. CASE AnswerTimeout(c)
  <2>1. Local' /\ Elsewhere(c) /\ pc'[c] \in {"room", "holding", "end"}
    BY <1>1, <1>8, GoTransfer DEF AnswerTimeout
  <2> QED
    BY <1>1, <1>2, <2>1, TurnsKept
<1>9. ASSUME ToNext(c), pc[c] \in {"room", "holding"}
      PROVE  Local' /\ Turns'
  <2>1. ToTransfer(c, idx[c] + 1)
    BY <1>1, <1>9 DEF Local, Shape, ToNext
  <2>2. Local' /\ Elsewhere(c) /\ pc'[c] \in {"room", "holding", "end"}
    BY <1>1, <2>1, GoTransfer
  <2> QED
    BY <1>1, <1>2, <2>2, TurnsKept
<1>10. CASE AnswerRoom(c)
  <2>1. pc[c] = "room" /\ idx[c] \in 1 .. NumIbc /\ msg[c].op = "transfer"
    BY <1>1, <1>10 DEF AnswerRoom, Local, Shape
  <2>2. CASE pc' = [pc EXCEPT ![c] = "holding"] /\ idx' = idx /\ msg' = msg
    <3>1. Local' /\ Elsewhere(c) /\ pc'[c] = "holding"
      BY <1>1, <2>1, <2>2, Stay DEF Pcs
    <3> QED
      BY <1>1, <1>2, <3>1, TurnsKept
  <2> QED
    BY <1>9, <1>10, <2>1, <2>2 DEF AnswerRoom, Goto
<1>11. CASE AnswerHolding(c)
  <2>1. pc[c] = "holding" /\ idx[c] \in 1 .. NumIbc /\ msg[c].op = "transfer"
    BY <1>1, <1>11 DEF AnswerHolding, Local, Shape
  <2>2. CASE Amount(c, c, "send")
    <3>1. PICK amount \in Portion(liquid[Wallet(c)], Share[c]) :
            /\ msg' = [msg EXCEPT ![c].amount = amount]
            /\ pc' = [pc EXCEPT ![c] = "send"] /\ idx' = idx
      BY <2>2 DEF Amount, Goto
    <3>2. amount \in Nat
      <4>1. Wallet(c) \in Wallets
        BY <2>1, Names DEF Wallet
      <4>2. c \in Shares
        BY DEF Chains, Shares
      <4> QED
        BY <1>1, <4>1, <4>2, Portions DEF Held
    <3>3. Local' /\ Elsewhere(c) /\ pc'[c] = "send" /\ msg'[c].op = "transfer"
      <4> DEFINE m == [msg[c] EXCEPT !.amount = amount]
      <4>1. m \in Msgs /\ m.op = msg[c].op /\ msg' = [msg EXCEPT ![c] = m]
        BY <1>1, <3>1, <3>2, Filled
      <4> HIDE DEF m
      <4>2. Local /\ "send" \in Pcs /\ pc' = [pc EXCEPT ![c] = "send"] /\ idx' = idx
        BY <1>1, <3>1 DEF Pcs
      <4>3. idx[c] \in 1 .. NumIbc /\ m.op = "transfer"
        BY <2>1, <4>1
      <4>4. Local' /\ Elsewhere(c) /\ pc'[c] = "send" /\ msg'[c] = m
        BY <4>1, <4>2, <4>3, Stay
      <4> QED
        BY <4>3, <4>4
    <3> QED
      BY <1>1, <1>2, <3>3, TurnsKept
  <2> QED
    BY <1>9, <1>11, <2>1, <2>2 DEF AnswerHolding
<1> QED
  BY <1>3, <1>4, <1>5, <1>6, <1>7, <1>8, <1>10, <1>11

\* A new block: the wallets whose tx is through leave pendingTxs, and sentTxs is empty.
LEMMA OnBlockKeeps ==
  ASSUME GateInv, NEW c \in Chains, OnBlock(c)
  PROVE  GateInv'
<1>1. /\ Local /\ Turns /\ Queues /\ pc[c] = "idle" /\ sent' = sent
      /\ pending' = IF c = "fund" THEN {w \in pending : mempool[w] # <<>>} ELSE pending
      /\ UNCHANGED <<mempool, liquid, delegated, flying, failed>>
  BY DEF OnBlock, GateInv, chainVars
<1>2. c = "fund" => sent' = {}
  BY <1>1 DEF Turns
<1>3. Queues'
  BY <1>1, QueuesKept
<1>4. CASE ToTest(c, 1, TRUE)
  <2>1. 1 \in Nat \ {0} /\ (c = "fund" => sent' \subseteq {Test(j) : j \in 1 .. 1 - 1})
    BY <1>2
  <2>2. Local' /\ Turns'
    BY <1>1, <1>4, <2>1, TurnsNextTest
  <2> QED
    BY <1>1, <1>3, <2>2 DEF GateInv, Held
<1>5. CASE pc' = [pc EXCEPT ![c] = "fundEnd"] /\ idx' = idx /\ msg' = msg
  <2>1. /\ msg[c] \in Msgs /\ msg' = [msg EXCEPT ![c] = msg[c]] /\ "fundEnd" \in Pcs
        /\ idx[c] = 1 /\ msg[c] = NoMsg
    BY <1>1, <1>5, AtRest DEF Local, Pcs
  <2>2. Local' /\ Elsewhere(c) /\ pc'[c] = "fundEnd"
    BY <1>1, <1>5, <2>1, Stay
  <2>3. CASE c = "fund"
    <3>1. sent' = {} /\ pc'["fund"] = "fundEnd"
      BY <1>2, <2>2, <2>3
    <3>2. Turns'
      BY <3>1 DEF Turns, AtTests
    <3> QED
      BY <1>1, <1>3, <2>2, <3>2 DEF GateInv, Held
  <2>4. CASE c # "fund"
    <3>1. sent' = sent /\ pending' = pending
      BY <1>1, <2>4
    <3>2. Turns'
      BY <1>1, <2>2, <2>4, <3>1, TurnsKept
    <3> QED
      BY <1>1, <1>3, <2>2, <3>2 DEF GateInv, Held
  <2> QED
    BY <2>3, <2>4
<1> QED
  BY <1>4, <1>5 DEF OnBlock, Goto

\* What was sent becomes pending.
LEMMA EndKeeps ==
  ASSUME GateInv, NEW c \in Chains, End(c)
  PROVE  GateInv'
<1>1. /\ Local /\ Turns /\ Queues /\ pc' = [pc EXCEPT ![c] = "idle"] /\ idx' = idx /\ msg' = msg
      /\ IF c = "fund" THEN pending' = pending \cup sent /\ sent' = {}
                       ELSE pending' = pending /\ sent' = sent
      /\ UNCHANGED <<mempool, liquid, delegated, flying, failed>>
  BY DEF End, Goto, GateInv, chainVars
<1>2. Queues'
  BY <1>1, QueuesKept
<1>3. /\ msg[c] \in Msgs /\ msg' = [msg EXCEPT ![c] = msg[c]] /\ "idle" \in Pcs
      /\ idx[c] = 1 /\ msg[c] = NoMsg
  BY <1>1, AtRest DEF Local, Pcs, End
<1>4. Local' /\ Elsewhere(c) /\ pc'[c] = "idle"
  BY <1>1, <1>3, Stay
<1>5. CASE c = "fund"
  BY <1>1, <1>2, <1>4, <1>5 DEF GateInv, Held, Turns, AtTests
<1>6. CASE c # "fund"
  <2>1. Turns'
    BY <1>1, <1>4, <1>6, TurnsKept
  <2> QED
    BY <1>1, <1>2, <1>4, <2>1 DEF GateInv, Held
<1> QED
  BY <1>5, <1>6

\* A test wallet's message goes to an empty queue, as its turn came only when it was idle.
LEMMA SendKeeps ==
  ASSUME GateInv, NEW c \in Chains, Send(c)
  PROVE  GateInv'
<1>1. /\ Local /\ Turns /\ Queues /\ pc[c] = "send" /\ SendTx(Wallet(c), msg[c]) /\ ToNext(c)
      /\ msg[c] \in Msgs /\ idx[c] \in Nat \ {0} /\ idx[c] + 1 \in Nat \ {0}
      /\ UNCHANGED <<pending, liquid, delegated, flying, failed>>
  BY DEF Send, GateInv, Local, chainVars
<1>2. CASE idx[c] \in 1 .. NumIbc /\ msg[c].op = "transfer"
  <2>1. Wallet(c) \in Ibcs /\ Wallet(c) \notin Tests /\ Wallet(c) \in Wallets
    BY <1>2, Names DEF Wallet
  <2>2. sent' = sent
    BY <1>1, <2>1 DEF SendTx
  <2>3. Queues'
    <3>1. CASE mempool' = mempool
      BY <1>1, <2>2, <3>1, QueuesKept
    <3>2. CASE mempool' = [mempool EXCEPT ![Wallet(c)] = Append(@, msg[c])]
      <4>1. msg[c] \in Packets /\ mempool[Wallet(c)] \in Seq(Packets)
        BY <1>1, <1>2, <2>1 DEF Packets, Queues
      <4>2. Append(mempool[Wallet(c)], msg[c]) \in Seq(Packets)
        BY <4>1
      <4>3. \A w \in Tests : mempool'[w] = mempool[w]
        BY <1>1, <2>1, <3>2, Names DEF Queues
      <4>4. \A w \in Ibcs : mempool'[w] \in Seq(Packets)
        BY <1>1, <2>1, <3>2, <4>2, Names DEF Queues
      <4> QED
        BY <1>1, <2>2, <3>2, <4>3, <4>4 DEF Queues, OneOnItsWay, Takes
    <3> QED
      BY <1>1, <3>1, <3>2 DEF SendTx
  <2>4. ToTransfer(c, idx[c] + 1)
    BY <1>1, <1>2 DEF ToNext
  <2>5. Local' /\ Elsewhere(c) /\ pc'[c] \in {"room", "holding", "end"}
    BY <1>1, <2>4, GoTransfer
  <2>6. Turns'
    BY <1>1, <2>2, <2>5, TurnsKept
  <2> QED
    BY <1>1, <2>3, <2>5, <2>6 DEF GateInv, Held
<1>3. CASE c = "fund" /\ idx[c] \in 1 .. NumTests /\ msg[c].op \in Moves
  <2>0. PICK w, m : w = Test(idx[c]) /\ m = msg[c]
    OBVIOUS
  <2>1. msg[c].op # "transfer" /\ Wallet(c) = w /\ w \in Tests /\ w \in Wallets
    BY <1>3, <2>0, Names DEF Moves, Wallet
  <2>2. sent \subseteq {Test(j) : j \in 1 .. idx[c] - 1} /\ w \notin pending
    BY <1>1, <1>3, <2>0, <2>1 DEF Turns, AtTests
  <2>3. w \notin sent
    BY <1>1, <2>0, <2>2, Names
  <2>4. mempool[w] = <<>>
    BY <1>1, <2>1, <2>2, <2>3 DEF Queues, OneOnItsWay
  <2>5. sent' \subseteq {Test(j) : j \in 1 .. (idx[c] + 1) - 1} /\ sent \subseteq sent'
    BY <1>1, <2>0, <2>1, <2>2 DEF SendTx
  <2>6. ToTest(c, idx[c] + 1, ibcOpen)
    BY <1>1, <2>1 DEF ToNext
  <2>7. Local' /\ Turns'
    BY <1>1, <1>3, <2>5, <2>6, TurnsNextTest
  <2>8. Queues'
    <3>1. CASE mempool' = mempool
      BY <1>1, <2>5, <3>1, QueuesKept
    <3>2. CASE /\ mempool' = [mempool EXCEPT ![w] = Append(@, m)]
               /\ Takes(w, m) /\ w \in sent'
      <4>1. mempool'[w] = <<m>>
        <5>1. mempool'[w] = Append(mempool[w], m)
          BY <1>1, <2>1, <3>2 DEF Queues
        <5> QED
          BY <2>4, <5>1
      <4>5. OneOnItsWay(w)'
        <5>1. Takes(w, m)'
          BY <1>1, <3>2 DEF Takes
        <5> QED
          BY <1>1, <1>3, <2>0, <3>2, <4>1, <5>1 DEF OneOnItsWay
      <4>2. \A u \in Wallets : u # w => mempool'[u] = mempool[u]
        BY <1>1, <3>2 DEF Queues
      <4>3. \A u \in Tests : OneOnItsWay(u)'
        <5> SUFFICES ASSUME NEW u \in Tests, u # w PROVE OneOnItsWay(u)'
          BY <4>5
        <5>1. mempool'[u] = mempool[u] /\ sent \cup pending \subseteq sent' \cup pending'
          BY <1>1, <2>5, <4>2, Names
        <5> QED
          BY <1>1, <5>1 DEF Queues, OneOnItsWay, Takes
      <4>4. \A u \in Ibcs : mempool'[u] \in Seq(Packets)
        BY <1>1, <2>1, <4>2, Names DEF Queues
      <4> QED
        BY <1>1, <3>2, <4>3, <4>4 DEF Queues
    <3> QED
      BY <1>1, <2>0, <2>1, <3>1, <3>2 DEF SendTx
  <2> QED
    BY <1>1, <2>7, <2>8 DEF GateInv, Held
<1> QED
  BY <1>1, <1>2, <1>3 DEF Local, Shape

---------------------------------------------------------------------------
(* The chains, the relayer, and the theorem. *)

\* A wallet's holding leaves it by its own txs only.
LEMMA ExecuteKeeps ==
  ASSUME GateInv, NEW w \in Wallets, Execute(w)
  PROVE  GateInv'
<1> DEFINE m == Head(mempool[w])
<1>1. /\ Local /\ Turns /\ Held /\ Queues /\ mempool[w] # <<>>
      /\ mempool' = [mempool EXCEPT ![w] = Tail(@)]
      /\ UNCHANGED <<pc, idx, msg, sent, pending>>
  BY DEF Execute, GateInv, handlerVars, runnerVars
<1>2. Local' /\ Turns'
  BY <1>1 DEF Local, Shape, Turns, AtTests
<1>3. \A u \in Wallets : u # w => mempool'[u] = mempool[u]
  BY <1>1 DEF Queues
<1>4. mempool'[w] = Tail(mempool[w]) /\ DOMAIN mempool' = Wallets
  BY <1>1 DEF Queues
<1>5. CASE w \in Ibcs
  <2>1. /\ mempool[w] \in Seq(Packets) /\ m \in Packets /\ Tail(mempool[w]) \in Seq(Packets)
        /\ w \notin Tests
    BY <1>1, <1>5, Names DEF Queues
  <2>2. m.op = "transfer" /\ m.to \in Ibcs /\ m.amount \in Nat
    BY <2>1 DEF Packets, Msgs
  <2>3. /\ delegated' = delegated /\ Held'
        /\ failed' \cap Tests = {} /\ \A u \in Tests : liquid'[u] = liquid[u]
    <3>1. CASE ~Takes(w, m)
      BY <1>1, <2>1, <3>1 DEF Execute, Held, GateInv
    <3>2. CASE Takes(w, m)
      <4>1. m.amount \in 1 .. liquid[w] /\ liquid[w] \in Nat
        BY <1>1, <2>2, <3>2 DEF Takes, Held
      <4>2. liquid[w] - m.amount \in Nat /\ m.amount \in Nat
        BY <4>1
      <4>3. /\ liquid' = [liquid EXCEPT ![w] = @ - m.amount] /\ delegated' = delegated
            /\ flying' = [flying EXCEPT ![m.to] = @ + m.amount] /\ failed' = failed
        BY <2>2, <3>2 DEF Execute
      <4>4. flying[m.to] + m.amount \in Nat
        BY <1>1, <2>2, <4>2 DEF Held
      <4>5. liquid' \in [Wallets -> Nat] /\ flying' \in [Ibcs -> Nat]
        BY <1>1, <4>2, <4>3, <4>4 DEF Held
      <4>6. \A u \in Tests : liquid'[u] = liquid[u]
        BY <1>1, <2>1, <4>3, Names DEF Held
      <4> QED
        BY <1>1, <4>3, <4>5, <4>6 DEF Held, GateInv
    <3> QED
      BY <3>1, <3>2
  <2>4. \A u \in Tests : OneOnItsWay(u)'
    BY <1>1, <1>3, <2>1, <2>3, Names DEF Queues, OneOnItsWay, Takes
  <2>5. \A u \in Ibcs : mempool'[u] \in Seq(Packets)
    BY <1>1, <1>3, <1>4, <2>1, Names DEF Queues
  <2> QED
    BY <1>2, <1>4, <2>3, <2>4, <2>5 DEF GateInv, Queues
<1>6. CASE w \in Tests
  <2>1. /\ m \in Msgs /\ mempool[w] = <<m>> /\ m.op \in Moves /\ Takes(w, m)
    <3>1. PICK n \in Msgs : mempool[w] = <<n>> /\ n.op \in Moves /\ Takes(w, n)
      BY <1>1, <1>6 DEF Queues, OneOnItsWay
    <3>2. m = n
      BY <3>1
    <3> QED
      BY <3>1, <3>2
  <2>2. mempool'[w] = <<>>
    <3>1. Tail(<<m>>) = <<>>
      OBVIOUS
    <3> HIDE DEF m
    <3> QED
      BY <1>4, <2>1, <3>1
  <2>3. liquid[w] \in Nat /\ delegated[w] \in Nat
    BY <1>1, <1>6, Names DEF Held
  <2> HIDE DEF m
  <2> DEFINE Kept == /\ Held' /\ failed' = failed
                     /\ \A u \in Tests : u # w => liquid'[u] >= liquid[u] /\ delegated'[u] = delegated[u]
  <2>4. ASSUME m.op = "send" PROVE Kept
    <3>1. m.to \in Tests /\ m.to \in Wallets /\ m.amount \in 1 .. liquid[w]
      BY <2>1, <2>4, Names DEF Msgs, Takes
    <3> DEFINE out == [liquid EXCEPT ![w] = @ - m.amount]
    <3>2. /\ liquid' = [out EXCEPT ![m.to] = @ + m.amount] /\ delegated' = delegated
          /\ flying' = flying /\ failed' = failed
      BY <2>1, <2>4 DEF Execute, m
    <3>3. out \in [Wallets -> Nat] /\ \A u \in Wallets : u # w => out[u] = liquid[u]
      BY <1>1, <2>3, <3>1 DEF Held
    <3> HIDE DEF out
    <3>4. liquid' \in [Wallets -> Nat] /\ \A u \in Wallets : liquid'[u] >= out[u]
      BY <2>3, <3>1, <3>2, <3>3
    <3>5. \A u \in Wallets : u # w => liquid'[u] >= liquid[u]
      BY <3>3, <3>4
    <3> QED
      BY <1>1, <3>2, <3>4, <3>5, Names DEF Held
  <2>5. ASSUME m.op = "delegate" PROVE Kept
    <3>1. m.amount \in 1 .. liquid[w]
      BY <2>1, <2>5 DEF Takes
    <3>2. /\ liquid' = [liquid EXCEPT ![w] = @ - m.amount]
          /\ delegated' = [delegated EXCEPT ![w] = @ + m.amount]
          /\ flying' = flying /\ failed' = failed
      BY <2>1, <2>5 DEF Execute, m
    <3>3. liquid[w] - m.amount \in Nat /\ delegated[w] + m.amount \in Nat
      BY <2>3, <3>1
    <3> QED
      BY <1>1, <1>6, <3>2, <3>3, Names DEF Held
  <2>6. ASSUME m.op = "undelegate" PROVE Kept
    <3>1. m.amount \in 1 .. delegated[w]
      BY <2>1, <2>6 DEF Takes
    <3>2. /\ liquid' = liquid
          /\ delegated' = [delegated EXCEPT ![w] = @ - m.amount]
          /\ flying' = flying /\ failed' = failed
      BY <2>1, <2>6 DEF Execute, m
    <3>3. delegated[w] - m.amount \in Nat
      BY <2>3, <3>1
    <3> QED
      BY <1>1, <1>6, <3>2, <3>3, Names DEF Held
  <2>7. ASSUME m.op = "withdraw" PROVE Kept
    BY <1>1, <2>1, <2>7, Names DEF Execute, m, Held
  <2>8. Kept
    <3>1. m.op \in {"send", "delegate", "undelegate", "withdraw"}
      BY <2>1 DEF Moves
    <3> QED
      BY <3>1, <2>4, <2>5, <2>6, <2>7
  <2>9. \A u \in Tests : OneOnItsWay(u)'
    <3> SUFFICES ASSUME NEW u \in Tests, u # w, mempool[u] # <<>> PROVE OneOnItsWay(u)'
      BY <1>3, <2>2, Names DEF OneOnItsWay
    <3>1. PICK n \in Msgs : mempool[u] = <<n>> /\ n.op \in Moves /\ Takes(u, n)
      BY <1>1 DEF Queues, OneOnItsWay
    <3>2. mempool'[u] = <<n>> /\ u \in sent' \cup pending'
      BY <1>1, <1>3, <3>1, Names DEF Queues, OneOnItsWay
    <3>3. /\ liquid'[u] >= liquid[u] /\ delegated'[u] = delegated[u]
          /\ liquid[u] \in Nat /\ liquid'[u] \in Nat
      BY <1>1, <2>8, Names DEF Held
    <3>4. Takes(u, n)'
      BY <3>1, <3>3 DEF Takes
    <3> QED
      BY <3>1, <3>2, <3>4 DEF OneOnItsWay
  <2>10. \A u \in Ibcs : mempool'[u] \in Seq(Packets)
    BY <1>1, <1>3, <1>6, Names DEF Queues
  <2> QED
    BY <1>2, <1>4, <2>8, <2>9, <2>10 DEF GateInv, Queues
<1> QED
  BY <1>5, <1>6, Names

\* Packets reach IBC wallets only.
LEMMA RelayKeeps ==
  ASSUME GateInv, NEW w \in Ibcs, Relay(w)
  PROVE  GateInv'
<1>1. /\ liquid' = [liquid EXCEPT ![w] = @ + flying[w]] /\ flying' = [flying EXCEPT ![w] = 0]
      /\ UNCHANGED <<pc, idx, msg, sent, pending, delegated, failed, mempool>>
  BY DEF Relay, handlerVars, runnerVars
<1>2. Held'
  <2>1. w \in Wallets /\ liquid[w] \in Nat /\ flying[w] \in Nat
    BY Names DEF GateInv, Held
  <2> QED
    BY <1>1, <2>1 DEF GateInv, Held
<1>3. \A u \in Tests : liquid'[u] = liquid[u]
  BY <1>1, Names DEF GateInv, Held
<1>4. Queues'
  BY <1>1, <1>3 DEF GateInv, Queues, OneOnItsWay, Takes
<1>5. Local' /\ Turns'
  BY <1>1 DEF GateInv, Local, Shape, Turns, AtTests
<1> QED
  BY <1>1, <1>2, <1>4, <1>5 DEF GateInv

LEMMA GateStutters ==
  ASSUME GateInv, UNCHANGED <<pc, idx, msg, sent, pending, liquid, delegated, flying, failed, mempool>>
  PROVE  GateInv'
<1>1. Local' /\ Turns'
  BY DEF GateInv, Local, Shape, Turns, AtTests
<1>2. Queues'
  BY DEF GateInv, Queues, OneOnItsWay, Takes
<1> QED
  BY <1>1, <1>2 DEF GateInv, Held

LEMMA GateNext ==
  ASSUME "query" \notin Faults, GateInv, [Next]_vars
  PROVE  GateInv'
<1>1. ASSUME NEW c \in Chains, Handler(c)
      PROVE  GateInv'
  <2>1. CASE OnBlock(c) \/ Send(c) \/ End(c)
    BY <2>1, OnBlockKeeps, SendKeeps, EndKeeps
  <2>2. CASE \/ CheckFundEnd(c) \/ CheckGaiadEnd(c) \/ ChooseModule(c) \/ StakeRandomMsg(c)
             \/ AnswerBalance(c) \/ AnswerTimeout(c) \/ AnswerRoom(c) \/ AnswerHolding(c)
    <3>1. Local' /\ Turns'
      BY <2>2, AskKeeps
    <3>2. UNCHANGED <<sent, pending, liquid, delegated, flying, failed, mempool>>
      BY <2>2
         DEF CheckFundEnd, CheckGaiadEnd, ChooseModule, StakeRandomMsg, AnswerBalance,
             AnswerTimeout, AnswerRoom, AnswerHolding, runnerVars, chainVars
    <3>3. Queues'
      BY <3>2, QueuesKept DEF GateInv
    <3> QED
      BY <3>1, <3>2, <3>3 DEF GateInv, Held
  <2> QED
    BY <1>1, <2>1, <2>2 DEF Handler
<1>2. ASSUME NEW c \in Chains, Abort(c)
      PROVE  FALSE
  BY <1>2 DEF Abort, Fault
<1>3. ASSUME \/ HermesStarts \/ HermesCreates \/ HermesTouches \/ HermesCrashes \/ UNCHANGED vars
      PROVE  GateInv'
  BY <1>3, GateStutters
     DEF HermesStarts, HermesCreates, HermesTouches, HermesCrashes, vars, handlerVars, runnerVars,
         chainVars
<1> QED
  BY <1>1, <1>2, <1>3, ExecuteKeeps, RelayKeeps DEF Next, Hermes

\* As long as no query rejects, no tx of a test wallet fails in its block: for any number of
\* wallets, any holdings and shares, and any number of txs left out of a block (pendingTxs).
\* With rejected queries it does not hold: moveSentToPending is skipped.
THEOREM TransfersGatedNeverFail ==
  ASSUME "query" \notin Faults
  PROVE  Spec => []GatedNeverFail
<1>1. GateInv /\ [Next]_vars => GateInv'
  BY GateNext
<1>2. GateInv => GatedNeverFail
  BY DEF GateInv, GatedNeverFail
<1> QED
  BY GateInit, <1>1, <1>2, PTL DEF Spec

---------------------------------------------------------------------------
(* The types, whatever the queries answer. *)

\* A wallet's txs are what its kind sends.
QueuesTyped ==
  /\ DOMAIN mempool = Wallets
  /\ \A w \in Tests : mempool[w] \in Seq({m \in Msgs : m.op \in Moves})
  /\ \A w \in Ibcs : mempool[w] \in Seq(Packets)

\* The denom that comes back is known once the channel is open.
FlagsOK ==
  /\ fundOpen \in [Chains -> BOOLEAN] /\ ibcOpen \in BOOLEAN /\ initialised \in BOOLEAN
  /\ ibcDenom = IF ibcOpen THEN "voucher" ELSE ""

RelayerOK ==
  /\ hermes \in {"down", "create", "handshake", "touch", "running"}
  /\ channels \in Seq({"INIT", "OPEN"})
  /\ hermes = "handshake" => channels # <<>>

WalletsOK ==
  /\ sent \subseteq Tests /\ pending \subseteq Tests /\ failed \subseteq Wallets
  /\ faults \in 0 .. MaxFaults

TransferTypes == Local /\ Held /\ QueuesTyped /\ FlagsOK /\ RelayerOK /\ WalletsOK

\* Every message of a handler or of a queue is one.
LEMMA MsgsAreMsg == \A m \in Msgs : IsMsg(m)
BY DEF Msgs, IsMsg

\* The wallet a handler is at is one of those it has, or the first.
LEMMA IndexInRange ==
  ASSUME Local, NEW c \in Chains
  PROVE  idx[c] \in {1} \cup 1 .. NumTests + NumIbc
<1>1. pc[c] \in Pcs /\ Shape(c)
  BY DEF Local
<1>2. CASE pc[c] \in {"idle", "fundEnd", "gaiadEnd", "timeout", "end"}
  BY <1>1, <1>2 DEF Shape
<1>3. CASE pc[c] \in {"test", "delegation", "balance", "room", "holding", "send"}
  <2>1. idx[c] \in 1 .. NumTests \/ idx[c] \in 1 .. NumIbc
    BY <1>1, <1>3 DEF Shape
  <2> QED
    BY <2>1, Numbers
<1> QED
  BY <1>1, <1>2, <1>3 DEF Pcs

\* The parts are the type invariant.
LEMMA TransferTypesOK == TransferTypes => TypeOK
<1> SUFFICES ASSUME TransferTypes PROVE TypeOK
  OBVIOUS
<1>1. pc \in [Chains -> {"idle", "fundEnd", "gaiadEnd", "test", "delegation", "balance", "timeout",
                        "room", "holding", "send", "end"}]
  BY Zenon DEF TransferTypes, Local, Pcs
<1>2. idx \in [Chains -> {1} \cup 1 .. NumTests + NumIbc]
  <2>1. idx \in [Chains -> Nat \ {0}]
    BY DEF TransferTypes, Local
  <2> QED
    BY <2>1, IndexInRange DEF TransferTypes
<1>3. \A c \in Chains : IsMsg(msg[c]) /\ (pc[c] \in {"idle", "end"} => msg[c] = NoMsg)
  <2>1. \A c \in Chains : msg[c] \in Msgs /\ Shape(c)
    BY DEF TransferTypes, Local
  <2> QED
    BY <2>1, MsgsAreMsg DEF Shape
<1>4. \A w \in Wallets : \A k \in DOMAIN mempool[w] : IsMsg(mempool[w][k])
  <2> SUFFICES ASSUME NEW w \in Wallets, NEW k \in DOMAIN mempool[w] PROVE IsMsg(mempool[w][k])
    OBVIOUS
  <2>1. \/ mempool[w] \in Seq({m \in Msgs : m.op \in Moves})
        \/ mempool[w] \in Seq(Packets)
    BY Names DEF TransferTypes, QueuesTyped
  <2>2. mempool[w][k] \in {m \in Msgs : m.op \in Moves} \/ mempool[w][k] \in Packets
    BY <2>1
  <2>3. mempool[w][k] \in Msgs
    BY <2>2 DEF Packets
  <2> QED
    BY <2>3, MsgsAreMsg
<1>5. \A k \in DOMAIN channels : channels[k] \in {"INIT", "OPEN"}
  <2>1. channels \in Seq({"INIT", "OPEN"})
    BY DEF TransferTypes, RelayerOK
  <2> QED
    BY <2>1
<1>6. /\ fundOpen \in [Chains -> BOOLEAN] /\ ibcOpen \in BOOLEAN /\ initialised \in BOOLEAN
      /\ ibcDenom = IF ibcOpen THEN "voucher" ELSE ""
  BY Zenon DEF TransferTypes, FlagsOK
<1>7. /\ liquid \in [Wallets -> Nat] /\ delegated \in [Tests -> Nat] /\ flying \in [Ibcs -> Nat]
      /\ DOMAIN mempool = Wallets
      /\ hermes \in {"down", "create", "handshake", "touch", "running"}
      /\ sent \subseteq Tests /\ pending \subseteq Tests /\ failed \subseteq Wallets
      /\ faults \in 0 .. MaxFaults
  BY Zenon DEF TransferTypes, Held, QueuesTyped, RelayerOK, WalletsOK
<1> QED
  BY <1>1, <1>2, <1>3, <1>4, <1>5, <1>6, <1>7, Zenon DEF TypeOK

\* The first state has the types.
LEMMA TransferTypesInit == Init => TransferTypes
<1> SUFFICES ASSUME Init PROVE TransferTypes
  OBVIOUS
<1>1. Local /\ Held
  BY GateInit DEF GateInv
<1>2. QueuesTyped
  <2>1. mempool = [w \in Wallets |-> <<>>]
    BY DEF Init
  <2> QED
    BY <2>1, Names DEF QueuesTyped
<1>3. FlagsOK
  <2>1. fundOpen = [c \in Chains |-> FALSE] /\ ibcOpen = FALSE /\ ibcDenom = "" /\ initialised = FALSE
    BY DEF Init
  <2>2. fundOpen \in [Chains -> BOOLEAN]
    BY <2>1, Zenon
  <2> QED
    BY <2>1, <2>2 DEF FlagsOK
<1>4. RelayerOK
  <2>1. <<>> \in Seq({"INIT", "OPEN"})
    BY EmptySeq
  <2> QED
    BY <2>1 DEF Init, RelayerOK
<1>5. WalletsOK
  <2>1. 0 \in 0 .. MaxFaults
    BY TransfersAssumption
  <2> QED
    BY <2>1 DEF Init, WalletsOK
<1> QED
  BY <1>1, <1>2, <1>3, <1>4, <1>5 DEF TransferTypes

\* A step that counts a fault, or none.
LEMMA FaultsCounted ==
  ASSUME WalletsOK, NEW kind, UNCHANGED faults \/ Fault(kind)
  PROVE  faults' \in 0 .. MaxFaults
<1>1. MaxFaults \in Nat
  BY TransfersAssumption
<1> QED
  BY <1>1 DEF WalletsOK, Fault

\* What a step leaves alone.
LEMMA HeldFrame ==
  ASSUME Held, UNCHANGED <<liquid, delegated, flying>>
  PROVE  Held'
BY DEF Held

LEMMA QueuesFrame ==
  ASSUME QueuesTyped, UNCHANGED mempool
  PROVE  QueuesTyped'
BY DEF QueuesTyped

LEMMA LocalFrame ==
  ASSUME Local, UNCHANGED <<pc, idx, msg>>
  PROVE  Local'
BY DEF Local, Shape

LEMMA FlagsFrame ==
  ASSUME FlagsOK, UNCHANGED <<fundOpen, ibcOpen, ibcDenom, initialised>>
  PROVE  FlagsOK'
BY Zenon DEF FlagsOK

LEMMA RelayerFrame ==
  ASSUME RelayerOK, UNCHANGED <<hermes, channels>>
  PROVE  RelayerOK'
BY DEF RelayerOK

---------------------------------------------------------------------------
(* The handlers' steps, and the types. *)

\* After a wallet's turn, and after the channel's two queries.
LEMMA NextTyped ==
  ASSUME Local, NEW c \in Chains, ToNext(c)
  PROVE  Local'
<1>1. idx[c] + 1 \in Nat \ {0}
  BY DEF Local
<1> QED
  BY <1>1, GoTest, GoTransfer DEF ToNext

\* An amount of what the wallet has goes into its message.
LEMMA AmountTyped ==
  ASSUME Local, Held, NEW c \in Chains, NEW share \in Shares, Wallet(c) \in Wallets,
         Amount(c, share, "send"),
         \/ idx[c] \in 1 .. NumIbc /\ msg[c].op = "transfer"
         \/ c = "fund" /\ idx[c] \in 1 .. NumTests /\ msg[c].op \in Moves
  PROVE  Local'
<1>1. PICK amount \in Portion(liquid[Wallet(c)], Share[share]) :
        /\ msg' = [msg EXCEPT ![c].amount = amount]
        /\ pc' = [pc EXCEPT ![c] = "send"] /\ idx' = idx
  BY DEF Amount, Goto
<1>2. amount \in Nat
  BY Portions DEF Held
<1> DEFINE m == [msg[c] EXCEPT !.amount = amount]
<1>3. m \in Msgs /\ m.op = msg[c].op /\ msg' = [msg EXCEPT ![c] = m]
  BY <1>1, <1>2, Filled
<1> HIDE DEF m
<1>4. "send" \in Pcs
  BY DEF Pcs
<1> QED
  BY <1>1, <1>3, <1>4, Stay

\* What a handler's step makes of its await, its wallet and its message.
LEMMA LocalTyped ==
  ASSUME Local, Held, NEW c \in Chains, Handler(c)
  PROVE  Local'
<1>1. /\ idx[c] \in Nat \ {0} /\ msg[c] \in Msgs /\ Shape(c)
      /\ msg = [msg EXCEPT ![c] = msg[c]]
  BY DEF Local
<1>2. CASE OnBlock(c)
  <2>1. idx[c] = 1 /\ msg[c] = NoMsg /\ 1 \in Nat \ {0}
    BY <1>2, AtRest DEF OnBlock
  <2>2. \/ ToTest(c, 1, TRUE)
        \/ pc' = [pc EXCEPT ![c] = "fundEnd"] /\ idx' = idx /\ msg' = msg
    BY <1>2 DEF OnBlock, Goto
  <2>3. CASE ToTest(c, 1, TRUE)
    BY <2>1, <2>3, GoTest
  <2>4. CASE pc' = [pc EXCEPT ![c] = "fundEnd"] /\ idx' = idx /\ msg' = msg
    <3>1. "fundEnd" \in Pcs
      BY DEF Pcs
    <3> QED
      BY <1>1, <2>1, <2>4, <3>1, Stay
  <2> QED
    BY <2>2, <2>3, <2>4
<1>3. CASE CheckFundEnd(c)
  <2>1. /\ idx[c] = 1 /\ msg[c] = NoMsg
        /\ pc' = [pc EXCEPT ![c] = "gaiadEnd"] /\ idx' = idx /\ msg' = msg
    BY <1>3, AtRest DEF CheckFundEnd, Goto
  <2> QED
    BY <1>1, <2>1, Stay DEF Pcs
<1>4. CASE CheckGaiadEnd(c)
  <2>1. ToTest(c, 1, ibcOpen') /\ 1 \in Nat \ {0}
    BY <1>4 DEF CheckGaiadEnd
  <2> QED
    BY <2>1, GoTest
<1>5. CASE ChooseModule(c)
  <2>1. c = "fund" /\ idx[c] \in 1 .. NumTests /\ msg[c].op # "transfer"
    BY <1>1, <1>5 DEF ChooseModule, Shape
  <2>2. CASE ToTest(c, idx[c] + 1, ibcOpen)
    <3>1. idx[c] + 1 \in Nat \ {0}
      BY <1>1
    <3> QED
      BY <2>2, <3>1, GoTest
  <2>3. CASE /\ pc' = [pc EXCEPT ![c] = "balance"] /\ idx' = idx
             /\ \E j \in (1 .. NumTests) \ {idx[c]} :
                  msg' = [msg EXCEPT ![c] = [op |-> "send", amount |-> 0, to |-> Test(j)]]
    <3>1. PICK j \in 1 .. NumTests :
            msg' = [msg EXCEPT ![c] = [op |-> "send", amount |-> 0, to |-> Test(j)]]
      BY <2>3
    <3>2. [op |-> "send", amount |-> 0, to |-> Test(j)] \in Msgs
      BY Names DEF Msgs, Ops
    <3> QED
      BY <2>1, <2>3, <3>1, <3>2, Stay DEF Pcs
  <2>4. CASE pc' = [pc EXCEPT ![c] = "delegation"] /\ idx' = idx /\ msg' = msg
    BY <1>1, <2>1, <2>4, Stay DEF Pcs
  <2> QED
    BY <1>5, <2>2, <2>3, <2>4 DEF ChooseModule, Goto
<1>6. CASE StakeRandomMsg(c)
  <2>1. c = "fund" /\ idx[c] \in 1 .. NumTests
    BY <1>1, <1>6 DEF StakeRandomMsg, Shape
  <2>2. ASSUME NEW op \in {"delegate", "undelegate", "withdraw"}, NEW amount \in Nat,
               Compose(c, op, amount)
        PROVE  Local'
    <3>1. [op |-> op, amount |-> amount, to |-> Test(0)] \in Msgs
      BY DEF Msgs, Ops
    <3> QED
      BY <2>1, <2>2, <3>1, Stay DEF Compose, Goto, Pcs, Moves
  <2>3. \A amount \in Portion(delegated[Test(idx[c])], Share["undelegate"]) : amount \in Nat
    <3>1. delegated[Test(idx[c])] \in Nat
      BY <2>1, Names DEF Held
    <3> QED
      BY <3>1, Portions DEF Shares
  <2> QED
    BY <1>6, <2>2, <2>3, NextTyped DEF StakeRandomMsg
<1>7. CASE AnswerBalance(c)
  <2>1. /\ c = "fund" /\ idx[c] \in 1 .. NumTests /\ msg[c].op \in {"send", "delegate"}
        /\ Amount(c, msg[c].op, "send")
    BY <1>1, <1>7 DEF AnswerBalance, Shape
  <2>2. Wallet(c) \in Wallets /\ msg[c].op \in Shares \cap Moves
    BY <2>1, Names DEF Wallet, Shares, Moves
  <2> QED
    BY <2>1, <2>2, AmountTyped
<1>8. CASE AnswerTimeout(c)
  <2>1. ToTransfer(c, 1) /\ 1 \in Nat \ {0}
    BY <1>8 DEF AnswerTimeout
  <2> QED
    BY <2>1, GoTransfer
<1>9. CASE AnswerRoom(c)
  <2>1. idx[c] \in 1 .. NumIbc /\ msg[c].op = "transfer"
    BY <1>1, <1>9 DEF AnswerRoom, Shape
  <2>2. ToNext(c) \/ (pc' = [pc EXCEPT ![c] = "holding"] /\ idx' = idx /\ msg' = msg)
    BY <1>9 DEF AnswerRoom, Goto
  <2> QED
    BY <1>1, <2>1, <2>2, NextTyped, Stay DEF Pcs
<1>10. CASE AnswerHolding(c)
  <2>1. idx[c] \in 1 .. NumIbc /\ msg[c].op = "transfer"
    BY <1>1, <1>10 DEF AnswerHolding, Shape
  <2>2. Wallet(c) \in Wallets /\ c \in Shares
    BY <2>1, Names DEF Wallet, Chains, Shares
  <2> QED
    BY <1>10, <2>1, <2>2, NextTyped, AmountTyped DEF AnswerHolding
<1>11. CASE Send(c)
  BY <1>11, NextTyped DEF Send
<1>12. CASE End(c)
  <2>1. /\ idx[c] = 1 /\ msg[c] = NoMsg
        /\ pc' = [pc EXCEPT ![c] = "idle"] /\ idx' = idx /\ msg' = msg
    BY <1>12, AtRest DEF End, Goto
  <2> QED
    BY <1>1, <2>1, Stay DEF Pcs
<1> QED
  BY <1>2, <1>3, <1>4, <1>5, <1>6, <1>7, <1>8, <1>9, <1>10, <1>11, <1>12 DEF Handler

\* What a handler sends goes to its wallet's queue.
LEMMA SendTyped ==
  ASSUME Local, QueuesTyped, NEW c \in Chains, Send(c)
  PROVE  QueuesTyped' /\ sent' \subseteq sent \cup Tests
<1> DEFINE w == Wallet(c)
<1>1. /\ SendTx(w, msg[c]) /\ msg[c] \in Msgs
      /\ \/ idx[c] \in 1 .. NumIbc /\ msg[c].op = "transfer"
         \/ c = "fund" /\ idx[c] \in 1 .. NumTests /\ msg[c].op \in Moves
  BY DEF Send, Local, Shape
<1>2. \/ w \in Ibcs /\ w \notin Tests /\ msg[c] \in Packets
      \/ w \in Tests /\ w \notin Ibcs /\ msg[c] \in {m \in Msgs : m.op \in Moves}
  BY <1>1, Names DEF Wallet, Packets, Moves
<1> HIDE DEF w
<1>3. CASE mempool' = mempool
  BY <1>1, <1>3, QueuesFrame DEF SendTx
<1>4. CASE mempool' = [mempool EXCEPT ![w] = Append(@, msg[c])]
  <2>1. DOMAIN mempool' = Wallets /\ \A u \in Wallets : u # w => mempool'[u] = mempool[u]
    BY <1>4 DEF QueuesTyped
  <2>2. mempool'[w] = Append(mempool[w], msg[c])
    BY <1>2, <1>4, Names DEF QueuesTyped
  <2>3. CASE w \in Ibcs /\ w \notin Tests /\ msg[c] \in Packets
    <3>1. mempool'[w] \in Seq(Packets)
      BY <2>2, <2>3 DEF QueuesTyped
    <3> QED
      BY <1>1, <2>1, <2>3, <3>1, Names DEF QueuesTyped, SendTx
  <2>4. CASE w \in Tests /\ w \notin Ibcs /\ msg[c] \in {m \in Msgs : m.op \in Moves}
    <3>1. mempool'[w] \in Seq({m \in Msgs : m.op \in Moves})
      BY <2>2, <2>4 DEF QueuesTyped
    <3> QED
      BY <1>1, <2>1, <2>4, <3>1, Names DEF QueuesTyped, SendTx
  <2> QED
    BY <1>2, <2>3, <2>4
<1> QED
  BY <1>1, <1>3, <1>4 DEF SendTx

\* What a handler's step makes of the flags.
LEMMA FlagsTyped ==
  ASSUME FlagsOK, NEW c \in Chains, Handler(c) \/ Abort(c)
  PROVE  FlagsOK'
<1>1. FirstOpen \in BOOLEAN
  BY Zenon DEF FirstOpen
<1>2. initialised' = initialised
  BY DEF Handler, Abort, OnBlock, CheckFundEnd, CheckGaiadEnd, ChooseModule, StakeRandomMsg,
         AnswerBalance, AnswerTimeout, AnswerRoom, AnswerHolding, Send, End, relayVars
<1>3. CASE CheckFundEnd(c) \/ Abort(c)
  <2>1. ibcOpen' = ibcOpen /\ ibcDenom' = ibcDenom
    BY <1>3 DEF CheckFundEnd, Abort, runnerVars
  <2>2. fundOpen' \in [Chains -> BOOLEAN]
    BY <1>1, <1>3, Zenon DEF CheckFundEnd, Abort, FlagsOK
  <2> QED
    BY <1>2, <2>1, <2>2, Zenon DEF FlagsOK
<1>4. CASE CheckGaiadEnd(c)
  <2> DEFINE both == fundOpen[c] /\ FirstOpen
  <2>1. /\ ibcOpen' = (ibcOpen \/ both) /\ ibcDenom' = IF both THEN "voucher" ELSE ibcDenom
        /\ fundOpen' = [fundOpen EXCEPT ![c] = FALSE]
    BY <1>4, Zenon DEF CheckGaiadEnd
  <2>2. fundOpen' \in [Chains -> BOOLEAN] /\ ibcOpen' \in BOOLEAN
    BY <2>1, Zenon DEF FlagsOK
  <2>3. ibcDenom' = IF ibcOpen' THEN "voucher" ELSE ""
    BY <2>1 DEF FlagsOK
  <2> QED
    BY <1>2, <2>2, <2>3, Zenon DEF FlagsOK
<1>5. CASE \/ OnBlock(c) \/ ChooseModule(c) \/ StakeRandomMsg(c) \/ AnswerBalance(c)
           \/ AnswerTimeout(c) \/ AnswerRoom(c) \/ AnswerHolding(c) \/ Send(c) \/ End(c)
  <2>1. UNCHANGED <<fundOpen, ibcOpen, ibcDenom>>
    BY <1>5
       DEF OnBlock, ChooseModule, StakeRandomMsg, AnswerBalance, AnswerTimeout, AnswerRoom,
           AnswerHolding, Send, End, runnerVars
  <2> QED
    BY <1>2, <2>1, FlagsFrame
<1> QED
  BY <1>3, <1>4, <1>5 DEF Handler

\* A handler's step, or one that a rejected query ends.
LEMMA TransferHandler ==
  ASSUME TransferTypes, NEW c \in Chains, Handler(c) \/ Abort(c)
  PROVE  TransferTypes'
<1>0. Local /\ Held /\ QueuesTyped /\ FlagsOK /\ RelayerOK /\ WalletsOK
  BY DEF TransferTypes
<1>1. UNCHANGED <<liquid, delegated, flying, failed, hermes, channels>>
  BY DEF Handler, Abort, OnBlock, CheckFundEnd, CheckGaiadEnd, ChooseModule, StakeRandomMsg,
         AnswerBalance, AnswerTimeout, AnswerRoom, AnswerHolding, Send, End, chainVars, relayVars
<1>2. Local'
  <2>1. CASE Abort(c)
    <3>1. /\ pc' = [pc EXCEPT ![c] = "idle"] /\ idx' = [idx EXCEPT ![c] = 1]
          /\ msg' = [msg EXCEPT ![c] = NoMsg]
      BY <2>1 DEF Abort, Goto
    <3>2. NoMsg \in Msgs /\ "idle" \in Pcs
      BY DEF NoMsg, Msgs, Pcs
    <3>3. pc' \in [Chains -> Pcs] /\ idx' \in [Chains -> Nat \ {0}] /\ msg' \in [Chains -> Msgs]
      BY <1>0, <3>1, <3>2 DEF Local
    <3>4. \A d \in Chains : Shape(d)'
      BY <1>0, <3>1 DEF Local, Shape
    <3> QED
      BY <3>3, <3>4 DEF Local
  <2> QED
    BY <1>0, <2>1, LocalTyped
<1>3. QueuesTyped' /\ sent' \subseteq Tests
  <2>1. CASE Send(c)
    BY <1>0, <2>1, SendTyped DEF WalletsOK
  <2>2. CASE ~Send(c)
    <3>1. mempool' = mempool /\ sent' \in {sent, {}}
      BY <2>2
         DEF Handler, Abort, OnBlock, CheckFundEnd, CheckGaiadEnd, ChooseModule, StakeRandomMsg,
             AnswerBalance, AnswerTimeout, AnswerRoom, AnswerHolding, End, runnerVars
    <3> QED
      BY <1>0, <3>1, QueuesFrame DEF WalletsOK
  <2> QED
    BY <2>1, <2>2
<1>4. pending' \subseteq pending \cup sent
  BY DEF Handler, Abort, OnBlock, CheckFundEnd, CheckGaiadEnd, ChooseModule, StakeRandomMsg,
         AnswerBalance, AnswerTimeout, AnswerRoom, AnswerHolding, Send, End, runnerVars
<1>5. faults' \in 0 .. MaxFaults
  <2>1. UNCHANGED faults \/ Fault("delay") \/ Fault("query")
    BY DEF Handler, Abort, OnBlock, CheckFundEnd, CheckGaiadEnd, ChooseModule, StakeRandomMsg,
           AnswerBalance, AnswerTimeout, AnswerRoom, AnswerHolding, Send, End
  <2> QED
    BY <1>0, <2>1, FaultsCounted
<1>6. WalletsOK'
  BY <1>0, <1>1, <1>3, <1>4, <1>5 DEF WalletsOK
<1> QED
  BY <1>0, <1>1, <1>2, <1>3, <1>6, HeldFrame, FlagsTyped, RelayerFrame DEF TransferTypes

---------------------------------------------------------------------------

\* A tx takes no more than there is, from a holding or from a stake.
LEMMA TransferExecute ==
  ASSUME TransferTypes, NEW w \in Wallets, Execute(w)
  PROVE  TransferTypes'
<1> DEFINE m == Head(mempool[w])
<1>0. Local /\ Held /\ QueuesTyped /\ FlagsOK /\ RelayerOK /\ WalletsOK
  BY DEF TransferTypes
<1>1. /\ mempool[w] # <<>> /\ mempool' = [mempool EXCEPT ![w] = Tail(@)]
      /\ UNCHANGED <<pc, idx, msg, fundOpen, ibcOpen, ibcDenom, sent, pending, hermes, initialised,
                     channels, faults>>
  BY DEF Execute, handlerVars, runnerVars, relayVars
<1>2. /\ w \in Tests => /\ m \in Msgs /\ m.op \in Moves
                        /\ Tail(mempool[w]) \in Seq({n \in Msgs : n.op \in Moves})
      /\ w \in Ibcs => m \in Packets /\ Tail(mempool[w]) \in Seq(Packets)
  <2>1. \A T : mempool[w] \in Seq(T) => m \in T /\ Tail(mempool[w]) \in Seq(T)
    BY <1>1
  <2> HIDE DEF m
  <2> QED
    BY <1>0, <2>1 DEF QueuesTyped
<1>3. QueuesTyped'
  BY <1>0, <1>1, <1>2, Names DEF QueuesTyped
<1>4. failed' \subseteq Wallets
  BY <1>0 DEF Execute, WalletsOK
<1>5. WalletsOK'
  BY <1>0, <1>1, <1>4 DEF WalletsOK
<1>6. liquid[w] \in Nat /\ m.amount \in Nat /\ (w \in Tests => delegated[w] \in Nat)
  BY <1>0, <1>2, Names DEF Held, Msgs, Packets
<1>7. Held'
  <2>1. CASE ~Takes(w, m)
    BY <1>0, <2>1, HeldFrame DEF Execute
  <2>2. CASE Takes(w, m) /\ w \in Ibcs
    <3>1. m.op = "transfer" /\ m.to \in Ibcs
      BY <1>2, <2>2 DEF Packets, Msgs
    <3>2. liquid[w] - m.amount \in Nat
      BY <1>6, <2>2, <3>1 DEF Takes
    <3>3. /\ liquid' = [liquid EXCEPT ![w] = @ - m.amount] /\ delegated' = delegated
          /\ flying' = [flying EXCEPT ![m.to] = @ + m.amount]
      BY <2>2, <3>1 DEF Execute
    <3>4. flying[m.to] + m.amount \in Nat
      BY <1>0, <1>6, <3>1 DEF Held
    <3> HIDE DEF m
    <3> QED
      BY <1>0, <3>2, <3>3, <3>4 DEF Held
  <2>3. CASE Takes(w, m) /\ w \in Tests /\ m.op = "send"
    <3>1. m.to \in Wallets /\ liquid[w] - m.amount \in Nat
      BY <1>2, <1>6, <2>3, Names DEF Msgs, Takes
    <3> DEFINE out == [liquid EXCEPT ![w] = @ - m.amount]
    <3>2. liquid' = [out EXCEPT ![m.to] = @ + m.amount] /\ delegated' = delegated /\ flying' = flying
      BY <2>3 DEF Execute
    <3> HIDE DEF m
    <3>3. out \in [Wallets -> Nat]
      BY <1>0, <3>1 DEF Held
    <3> HIDE DEF out
    <3>4. out[m.to] + m.amount \in Nat
      BY <1>6, <3>1, <3>3
    <3> QED
      BY <1>0, <3>2, <3>3, <3>4 DEF Held
  <2>4. CASE Takes(w, m) /\ w \in Tests /\ m.op = "delegate"
    <3>1. liquid[w] - m.amount \in Nat /\ delegated[w] + m.amount \in Nat
      BY <1>6, <2>4 DEF Takes
    <3>2. /\ liquid' = [liquid EXCEPT ![w] = @ - m.amount]
          /\ delegated' = [delegated EXCEPT ![w] = @ + m.amount] /\ flying' = flying
      BY <2>4 DEF Execute
    <3> HIDE DEF m
    <3> QED
      BY <1>0, <3>1, <3>2 DEF Held
  <2>5. CASE Takes(w, m) /\ w \in Tests /\ m.op = "undelegate"
    <3>1. delegated[w] - m.amount \in Nat
      BY <1>6, <2>5 DEF Takes
    <3>2. /\ delegated' = [delegated EXCEPT ![w] = @ - m.amount]
          /\ liquid' = liquid /\ flying' = flying
      BY <2>5 DEF Execute
    <3> HIDE DEF m
    <3> QED
      BY <1>0, <3>1, <3>2 DEF Held
  <2>6. CASE Takes(w, m) /\ w \in Tests /\ m.op = "withdraw"
    <3>1. UNCHANGED <<liquid, delegated, flying>>
      BY <2>6 DEF Execute
    <3> QED
      BY <1>0, <3>1, HeldFrame
  <2>7. w \in Tests => m.op \in {"send", "delegate", "undelegate", "withdraw"}
    BY <1>2 DEF Moves
  <2> QED
    BY <2>1, <2>2, <2>3, <2>4, <2>5, <2>6, <2>7, Names
<1> QED
  BY <1>0, <1>1, <1>3, <1>5, <1>7, LocalFrame, FlagsFrame, RelayerFrame DEF TransferTypes

\* The relayer.
LEMMA TransferHermes ==
  ASSUME TransferTypes, Hermes \/ HermesCrashes
  PROVE  TransferTypes'
<1>0. Local /\ Held /\ QueuesTyped /\ FlagsOK /\ RelayerOK /\ WalletsOK
  BY DEF TransferTypes
<1>1. UNCHANGED <<pc, idx, msg, fundOpen, ibcOpen, ibcDenom, sent, pending, failed, mempool>>
  BY DEF Hermes, HermesStarts, HermesCreates, HermesTouches, HermesCrashes, Relay, handlerVars,
         runnerVars, chainVars
<1>2. initialised' \in BOOLEAN
  BY <1>0, Zenon
     DEF Hermes, HermesStarts, HermesCreates, HermesTouches, HermesCrashes, Relay, relayVars, FlagsOK
<1>3. FlagsOK'
  BY <1>0, <1>1, <1>2, Zenon DEF FlagsOK
<1>4. channels' \in Seq({"INIT", "OPEN"})
  <2>0. \/ channels' \in {channels, Append(channels, "INIT")}
        \/ hermes = "handshake" /\ channels' = [channels EXCEPT ![Len(channels)] = "OPEN"]
    BY DEF Hermes, HermesStarts, HermesCreates, HermesTouches, HermesCrashes, Relay, relayVars
  <2>1. channels \in Seq({"INIT", "OPEN"}) /\ Len(channels) \in Nat
    BY <1>0 DEF RelayerOK
  <2>2. Append(channels, "INIT") \in Seq({"INIT", "OPEN"})
    BY <2>1
  <2>3. CASE channels # <<>>
    <3>1. Len(channels) \in 1 .. Len(channels) /\ "OPEN" \in {"INIT", "OPEN"}
      BY <2>1, <2>3
    <3>2. [channels EXCEPT ![Len(channels)] = "OPEN"] \in Seq({"INIT", "OPEN"})
      BY <2>1, <3>1, ExceptSeq
    <3> QED
      BY <2>0, <2>1, <2>2, <3>2
  <2> QED
    BY <1>0, <2>0, <2>1, <2>2, <2>3 DEF RelayerOK
<1>5. hermes' \in {"down", "create", "handshake", "touch", "running"}
  BY <1>0
     DEF Hermes, HermesStarts, HermesCreates, HermesTouches, HermesCrashes, Relay, relayVars, RelayerOK
<1>6. hermes' = "handshake" => channels' # <<>>
  BY <1>0
     DEF Hermes, HermesStarts, HermesCreates, HermesTouches, HermesCrashes, Relay, relayVars, RelayerOK
<1>7. faults' \in 0 .. MaxFaults
  <2>1. UNCHANGED faults \/ Fault("create") \/ Fault("crash")
    BY DEF Hermes, HermesStarts, HermesCreates, HermesTouches, HermesCrashes, Relay
  <2> QED
    BY <1>0, <2>1, FaultsCounted
<1>8. WalletsOK' /\ RelayerOK'
  BY <1>0, <1>1, <1>4, <1>5, <1>7, <1>6 DEF WalletsOK, RelayerOK
<1>9. Held'
  <2>1. CASE \E w \in Ibcs : Relay(w)
    <3>1. PICK w \in Ibcs : Relay(w)
      BY <2>1
    <3>2. w \in Wallets /\ liquid[w] + flying[w] \in Nat
      BY <1>0, Names DEF Held
    <3> QED
      BY <1>0, <3>1, <3>2 DEF Relay, Held
  <2>2. CASE UNCHANGED <<liquid, delegated, flying>>
    BY <1>0, <2>2, HeldFrame
  <2> QED
    BY <2>1, <2>2
       DEF Hermes, HermesStarts, HermesCreates, HermesTouches, HermesCrashes, chainVars
<1> QED
  BY <1>0, <1>1, <1>3, <1>8, <1>9, LocalFrame, QueuesFrame DEF TransferTypes

\* The types hold whatever the queries and the relayer do: a handler is at one of its wallets
\* or at none, the voucher's denom is known exactly from when the channel was found open, and
\* no holding or stake is ever below zero (runModules, runIbcTransfers, checkIbcChannel).
THEOREM TransfersTypeOK == Spec => []TypeOK
<1>1. TransferTypes /\ [Next]_vars => TransferTypes'
  <2> SUFFICES ASSUME TransferTypes, [Next]_vars PROVE TransferTypes'
    OBVIOUS
  <2>1. CASE UNCHANGED vars
    <3>1. /\ UNCHANGED <<pc, idx, msg, fundOpen, ibcOpen, ibcDenom, sent, pending, mempool>>
          /\ UNCHANGED <<liquid, delegated, flying, failed, hermes, initialised, channels, faults>>
      BY <2>1 DEF vars, handlerVars, runnerVars, chainVars, relayVars
    <3>2. WalletsOK'
      BY <3>1 DEF TransferTypes, WalletsOK
    <3> QED
      BY <3>1, <3>2, LocalFrame, HeldFrame, QueuesFrame, FlagsFrame, RelayerFrame
         DEF TransferTypes
  <2> QED
    BY <2>1, TransferHandler, TransferExecute, TransferHermes DEF Next
<1> QED
  BY TransferTypesInit, TransferTypesOK, <1>1, PTL DEF Spec
=============================================================================
