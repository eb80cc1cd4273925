-------------------------- MODULE WalletSequence --------------------------
(***************************************************************************)
(* The locally tracked signing data of one Wallet and the concurrent       *)
(* TxFactory.sendTx calls that draw on it (tx_runner: wallet/wallet.mjs,   *)
(* tx/tx_factory.mjs).                                                     *)
(*                                                                         *)
(* A caller is one sendTx in progress.  JavaScript runs a call up to its   *)
(* next await without interruption, so each action below is the code       *)
(* between two awaits; the awaits are where other callers, the chain and   *)
(* the und CLI run.  The chain is external: of it the model keeps the      *)
(* account's committed sequence and the sequence CheckTx wants next, which *)
(* also counts the transactions waiting in the mempool.                    *)
(***************************************************************************)
EXTENDS Integers

CONSTANTS
  Callers,     \* sendTx calls that may overlap for this wallet
  Nobody,      \* "no promise": seqInit = null
  Faults,      \* the kinds of fault the environment may commit
  MaxFaults,   \* bound: how many faults a behaviour contains
  MaxSeq       \* bound: callers stop starting txs once CheckTx has accepted this many

FaultKinds == {"simulate", "getSequence", "getChainId", "requestLost",
               "answerLost", "rejected", "mempoolLost", "cli"}

ASSUME NobodyAssumption == Nobody \notin Callers
ASSUME BoundsAssumption == MaxFaults \in Nat /\ MaxSeq \in Nat
ASSUME FaultsAssumption == Faults \subseteq FaultKinds

Null == -1      \* #sequence and the CLI's sequence before they are read

VARIABLES
  sequence,      \* Wallet.#sequence
  chainId,       \* TRUE iff Wallet.#chainId is not null
  seqInit,       \* the caller whose resync is the shared #seqInit promise, or Nobody
  resync,        \* where each caller's resyncSignerData() is
  read,          \* what each resync's getSequence answered
  waitsOn,       \* whose resync each caller awaits in signerData()
  pc,            \* where each caller's sendTx is
  usedSeq,       \* the sequence signerData() handed each caller
  usedChainId,   \* whether the chain id handed out with it was known
  expected,      \* the sequence named in a caller's mismatch rejection
  committed,     \* the account's sequence in committed state
  checkSeq,      \* the sequence CheckTx wants: committed plus the mempool
  cliSeq,        \* the sequence a CLI tx in progress was signed with, or Null
  faults,        \* faults so far
  overlap,       \* history: a mismatch was adopted while others held a sequence
  serial,        \* history: no two calls have held a sequence at once
  unpaid         \* history, while serial: events that moved CheckTx's view without the
                 \* wallet, less the mismatch rejections since; -1 once those outnumber them

initVars  == <<seqInit, resync, read, waitsOn>>
chainVars == <<committed, checkSeq, cliSeq>>
usedVars  == <<usedSeq, usedChainId, expected>>
histVars  == <<overlap, serial, unpaid>>
vars == <<sequence, chainId, initVars, pc, usedVars, chainVars, faults, histVars>>

---------------------------------------------------------------------------

\* The awaits of sendTx while its sequence is reserved.
Holding == {"sign", "broadcast", "accepted", "mismatch", "error"}

PcStates == {"idle", "simulate", "signerData", "await", "resumed"} \cup Holding

ResyncStates == {"none", "getSequence", "answered", "getChainId"}

\* The other callers that still hold a sequence.
OthersHold(c) == \E d \in Callers \ {c} : pc[d] \in Holding

Fault(kind) ==
  /\ kind \in Faults
  /\ faults < MaxFaults
  /\ faults' = faults + 1

Goto(c, from, to) ==
  /\ pc[c] = from
  /\ pc' = [pc EXCEPT ![c] = to]

Disturbed == unpaid' = IF serial THEN unpaid + 1 ELSE unpaid
Paid == unpaid' = IF serial /\ unpaid >= 0 THEN unpaid - 1 ELSE unpaid

Init ==
  /\ sequence = Null
  /\ chainId = FALSE
  /\ seqInit = Nobody
  /\ resync = [c \in Callers |-> "none"]
  /\ read = [c \in Callers |-> 0]
  /\ waitsOn = [c \in Callers |-> Nobody]
  /\ pc = [c \in Callers |-> "idle"]
  /\ usedSeq = [c \in Callers |-> 0]
  /\ usedChainId = [c \in Callers |-> FALSE]
  /\ expected = [c \in Callers |-> 0]
  /\ committed = 0
  /\ checkSeq = 0
  /\ cliSeq = Null
  /\ faults = 0
  /\ overlap = FALSE
  /\ serial = TRUE
  /\ unpaid = 0

---------------------------------------------------------------------------
(* sendTx up to signerData(). *)

\* A call without a fee estimates gas first; one with a fee goes straight on.
SendTx(c) ==
  /\ checkSeq < MaxSeq
  /\ \E next \in {"simulate", "signerData"} : Goto(c, "idle", next)
  /\ UNCHANGED <<sequence, chainId, initVars, usedVars, chainVars, faults, histVars>>

Simulate(c) ==
  /\ Goto(c, "simulate", "signerData")
  /\ UNCHANGED <<sequence, chainId, initVars, usedVars, chainVars, faults, histVars>>

\* simulate() rejects: nothing was reserved, so the catch touches nothing.
SimulateFails(c) ==
  /\ Fault("simulate")
  /\ Goto(c, "simulate", "idle")
  /\ UNCHANGED <<sequence, chainId, initVars, usedVars, chainVars, histVars>>

\* The synchronous end of signerData(): hand out and advance in one step.
HandOut(c) ==
  /\ usedSeq' = [usedSeq EXCEPT ![c] = sequence]
  /\ usedChainId' = [usedChainId EXCEPT ![c] = chainId]
  /\ sequence' = sequence + 1
  /\ pc' = [pc EXCEPT ![c] = "sign"]
  /\ serial' = (serial /\ ~OthersHold(c))
  /\ UNCHANGED <<overlap, unpaid>>

\* Mutant: signerData() forgets to wait for the first read.
TakeSequenceUnread(c) ==
  /\ pc[c] = "signerData"
  /\ HandOut(c)
  /\ UNCHANGED <<chainId, initVars, expected, chainVars, faults>>

\* signerData() with the counter already seeded.
TakeSequence(c) ==
  /\ pc[c] = "signerData"
  /\ sequence # Null
  /\ HandOut(c)
  /\ UNCHANGED <<chainId, initVars, expected, chainVars, faults>>

\* Mutant: every caller starts a resync of its own.
AwaitInitUnshared(c) ==
  /\ sequence = Null
  /\ Goto(c, "signerData", "await")
  /\ seqInit' = c
  /\ resync' = [resync EXCEPT ![c] = "getSequence"]
  /\ waitsOn' = [waitsOn EXCEPT ![c] = c]
  /\ UNCHANGED <<sequence, chainId, read, usedVars, chainVars, faults, histVars>>

\* signerData() on first use: start the shared resync, or join the one running.
AwaitInit(c) ==
  /\ sequence = Null
  /\ Goto(c, "signerData", "await")
  /\ IF seqInit = Nobody
     THEN /\ seqInit' = c
          /\ resync' = [resync EXCEPT ![c] = "getSequence"]
          /\ waitsOn' = [waitsOn EXCEPT ![c] = c]
     ELSE /\ waitsOn' = [waitsOn EXCEPT ![c] = seqInit]
          /\ UNCHANGED <<seqInit, resync>>
  /\ UNCHANGED <<sequence, chainId, read, usedVars, chainVars, faults, histVars>>

\* signerData() after its await.
Resume(c) ==
  /\ pc[c] = "resumed"
  /\ HandOut(c)
  /\ UNCHANGED <<chainId, initVars, expected, chainVars, faults>>

---------------------------------------------------------------------------
(* resyncSignerData(), run by the caller that created the promise. *)

\* The promise settles: finally() forgets it, and everyone awaiting it moves to `next`.
Settle(owner, next) ==
  /\ seqInit' = Nobody
  /\ resync' = [resync EXCEPT ![owner] = "none"]
  /\ pc' = [c \in Callers |-> IF pc[c] = "await" /\ waitsOn[c] = owner
                              THEN next ELSE pc[c]]
  /\ read' = [read EXCEPT ![owner] = 0]
  /\ waitsOn' = [c \in Callers |-> IF waitsOn[c] = owner THEN Nobody ELSE waitsOn[c]]

\* The node answers getSequence from committed state.
AnswerSequence(o) ==
  /\ resync[o] = "getSequence"
  /\ resync' = [resync EXCEPT ![o] = "answered"]
  /\ read' = [read EXCEPT ![o] = committed]
  /\ UNCHANGED <<sequence, chainId, seqInit, waitsOn, pc, usedVars, chainVars,
                 faults, histVars>>

\* The answer arrives: the counter is set before the chain id is asked for.
SetSequence(o) ==
  /\ resync[o] = "answered"
  /\ sequence' = read[o]
  /\ IF chainId
     THEN Settle(o, "resumed")
     ELSE /\ resync' = [resync EXCEPT ![o] = "getChainId"]
          /\ UNCHANGED <<seqInit, read, waitsOn, pc>>
  /\ UNCHANGED <<chainId, usedVars, chainVars, faults, histVars>>

SetChainId(o) ==
  /\ resync[o] = "getChainId"
  /\ chainId' = TRUE
  /\ Settle(o, "resumed")
  /\ UNCHANGED <<sequence, usedVars, chainVars, faults, histVars>>

\* A query rejects: every sendTx awaiting it fails before reserving anything.
ResyncFails(o) ==
  /\ \/ resync[o] = "getSequence" /\ Fault("getSequence")
     \/ resync[o] = "getChainId" /\ Fault("getChainId")
  /\ Settle(o, "idle")
  /\ UNCHANGED <<sequence, chainId, usedVars, chainVars, histVars>>

---------------------------------------------------------------------------
(* sign(), broadcastTxSync() and CheckTx. *)

Sign(c) ==
  /\ Goto(c, "sign", "broadcast")
  /\ UNCHANGED <<sequence, chainId, initVars, usedVars, chainVars, faults, histVars>>

\* CheckTx lets the tx into the mempool.
Accept(c) ==
  /\ usedSeq[c] = checkSeq
  /\ usedChainId[c]
  /\ Goto(c, "broadcast", "accepted")
  /\ checkSeq' = checkSeq + 1
  /\ UNCHANGED <<sequence, chainId, initVars, usedVars, committed, cliSeq, faults,
                 histVars>>

\* The ante handler compares sequences first and names the one it wants.
Mismatch(c) ==
  /\ usedSeq[c] # checkSeq
  /\ Goto(c, "broadcast", "mismatch")
  /\ expected' = [expected EXCEPT ![c] = checkSeq]
  /\ UNCHANGED <<sequence, chainId, initVars, usedSeq, usedChainId, chainVars, faults,
                 histVars>>

\* A signature over the empty chain id does not verify.
BadSignature(c) ==
  /\ usedSeq[c] = checkSeq
  /\ ~usedChainId[c]
  /\ Goto(c, "broadcast", "error")
  /\ UNCHANGED <<sequence, chainId, initVars, usedVars, chainVars, faults, histVars>>

\* CheckTx rejects for another reason (fee, funds), or the request never arrives.
BroadcastFails(c) ==
  /\ Fault("rejected") \/ Fault("requestLost")
  /\ Goto(c, "broadcast", "error")
  /\ UNCHANGED <<sequence, chainId, initVars, usedVars, chainVars, histVars>>

\* The node's answer is lost on the way back: sendTx sees an error of another kind.
AnswerLost(c) ==
  /\ Fault("answerLost")
  /\ \E answer \in {"accepted", "mismatch"} : Goto(c, answer, "error")
  /\ Disturbed
  /\ UNCHANGED <<sequence, chainId, initVars, usedVars, chainVars, overlap, serial>>

---------------------------------------------------------------------------
(* The rest of sendTx: the try's success path and its catch. *)

\* The call is over: what it used is forgotten.
Finish(c) ==
  /\ pc' = [pc EXCEPT ![c] = "idle"]
  /\ usedSeq' = [usedSeq EXCEPT ![c] = 0]
  /\ usedChainId' = [usedChainId EXCEPT ![c] = FALSE]
  /\ expected' = [expected EXCEPT ![c] = 0]

Accepted(c) ==
  /\ pc[c] = "accepted"
  /\ Finish(c)
  /\ overlap' = (overlap /\ OthersHold(c))
  /\ UNCHANGED <<sequence, chainId, initVars, chainVars, faults, serial, unpaid>>

\* Mutant: the number after the expected one is adopted.
AdoptSequenceNext(c) ==
  /\ pc[c] = "mismatch"
  /\ sequence' = expected[c] + 1
  /\ Finish(c)
  /\ overlap' = OthersHold(c)
  /\ Paid
  /\ UNCHANGED <<chainId, initVars, chainVars, faults, serial>>

\* adoptSequence()
AdoptSequence(c) ==
  /\ pc[c] = "mismatch"
  /\ sequence' = expected[c]
  /\ Finish(c)
  /\ overlap' = OthersHold(c)
  /\ Paid
  /\ UNCHANGED <<chainId, initVars, chainVars, faults, serial>>

\* Mutants: roll back whoever took a number since; never roll back.
ReleasedAlways(seq) == IF sequence # Null THEN seq ELSE sequence
ReleasedNever(seq) == sequence

\* The counter after releaseSequence(seq).
Released(seq) == IF sequence # Null /\ sequence = seq + 1 THEN seq ELSE sequence

\* releaseSequence()
ReleaseSequence(c) ==
  /\ pc[c] = "error"
  /\ sequence' = Released(usedSeq[c])
  /\ Finish(c)
  /\ overlap' = (overlap /\ OthersHold(c))
  /\ UNCHANGED <<chainId, initVars, chainVars, faults, serial, unpaid>>

---------------------------------------------------------------------------
(* The chain and the und CLI, which the wallet's counter never hears of. *)

\* A block includes some of the mempool; CheckTx's view stays where it was.
Commit ==
  /\ committed' \in committed + 1 .. checkSeq
  /\ UNCHANGED <<sequence, chainId, initVars, pc, usedVars, checkSeq, cliSeq, faults,
                 histVars>>

\* Mempool txs vanish without consuming their sequence: the nodes restart for the
\* upgrade, or a block includes a tx that fails before the ante handler.
LoseMempool ==
  /\ Fault("mempoolLost")
  /\ checkSeq' \in committed .. checkSeq - 1
  /\ Disturbed
  /\ UNCHANGED <<sequence, chainId, initVars, pc, usedVars, committed, cliSeq, overlap,
                 serial>>

\* #inNode(): the CLI signs with the committed sequence ...
CliSign ==
  /\ cliSeq = Null
  /\ Fault("cli")
  /\ cliSeq' = committed
  /\ UNCHANGED <<sequence, chainId, initVars, pc, usedVars, committed, checkSeq, histVars>>

\* ... and broadcasts; code 32 leaves nothing behind.
CliBroadcast ==
  /\ cliSeq # Null
  /\ cliSeq' = Null
  /\ IF cliSeq = checkSeq
     THEN /\ checkSeq' = checkSeq + 1
          /\ Disturbed
     ELSE UNCHANGED <<checkSeq, unpaid>>
  /\ UNCHANGED <<sequence, chainId, initVars, pc, usedVars, committed, faults, overlap,
                 serial>>

\* The bound is reached and every call has returned.
AllSent ==
  /\ checkSeq >= MaxSeq
  /\ \A c \in Callers : pc[c] = "idle"
  /\ UNCHANGED vars

---------------------------------------------------------------------------

CallerStep(c) ==
  \/ SendTx(c) \/ Simulate(c) \/ TakeSequence(c) \/ AwaitInit(c) \/ Resume(c)
  \/ AnswerSequence(c) \/ SetSequence(c) \/ SetChainId(c)
  \/ Sign(c) \/ Accept(c) \/ Mismatch(c) \/ BadSignature(c)
  \/ Accepted(c) \/ AdoptSequence(c) \/ ReleaseSequence(c)

CallerFault(c) ==
  SimulateFails(c) \/ ResyncFails(c) \/ BroadcastFails(c) \/ AnswerLost(c)

Chain == Commit \/ LoseMempool \/ CliSign \/ CliBroadcast

Next ==
  \/ \E c \in Callers : CallerStep(c) \/ CallerFault(c)
  \/ Chain
  \/ AllSent

Spec == Init /\ [][Next]_vars

\* The event loop runs every settled await; every request is answered or fails; each
\* block brings the wallet's next sendTx.  Nothing obliges a block or a fault to happen.
FairSpec == Spec /\ \A c \in Callers : WF_vars(CallerStep(c))

---------------------------------------------------------------------------
(* Properties *)

TypeOK ==
  /\ sequence \in Nat \cup {Null}
  /\ chainId \in BOOLEAN
  /\ seqInit \in Callers \cup {Nobody}
  /\ resync \in [Callers -> ResyncStates]
  /\ read \in [Callers -> Nat]
  /\ waitsOn \in [Callers -> Callers \cup {Nobody}]
  /\ pc \in [Callers -> PcStates]
  /\ usedSeq \in [Callers -> Nat]
  /\ usedChainId \in [Callers -> BOOLEAN]
  /\ expected \in [Callers -> Nat]
  /\ committed \in Nat
  /\ checkSeq \in Nat
  /\ committed <= checkSeq
  /\ cliSeq \in Nat \cup {Null}
  /\ faults \in 0 .. MaxFaults
  /\ overlap \in BOOLEAN
  /\ serial \in BOOLEAN
  /\ unpaid \in Nat \cup {-1}

Holders == {c \in Callers : pc[c] \in Holding}

\* Of all this, a caller sees an allocator of sequences.
Allocator == INSTANCE SequenceAllocator
               WITH next <- sequence,
                    held <- [c \in Callers |-> IF pc[c] \in Holding THEN usedSeq[c]
                                                                   ELSE Null]

\* The counter is read from committed state only while nothing is handed out, moves back
\* by one only under the call that took the top number, and is otherwise only adopted:
\* signerData(), releaseSequence() and adoptSequence() implement SequenceAllocator.
ImplementsAllocator == Allocator!Spec

\* signerData() hands every overlapping sendTx a sequence of its own, below the counter,
\* whatever fails and in whatever order answers arrive - until a mismatch is adopted
\* while another call still holds a sequence (wallet.mjs: "makes each caller's sequence
\* unique").
UniqueReservations ==
  ~overlap => /\ \A c \in Holders : usedSeq[c] < sequence
              /\ \A c, d \in Holders : usedSeq[c] = usedSeq[d] => c = d

\* As long as no two calls hold a sequence at once, each event that moved CheckTx's view
\* behind the wallet's back - lost mempool, CLI tx, lost answer - costs the wallet at most
\* one rejected tx: the rejection itself puts the counter right (adoptSequence,
\* releaseSequence).
OneMismatchPerDisturbance == serial => unpaid >= 0

\* The wallet's txs get through in the end, once it has read the chain id: whatever the
\* overlapping calls adopted and released, the counter comes back to what CheckTx wants.
EventuallyAccepted == <>chainId => <>(checkSeq >= MaxSeq)

\* A wallet recovers from any fault (wallet.mjs: "resyncSignerData() re-reads from chain
\* whenever a tx errors, so we self-heal").
SelfHeals == <>(checkSeq >= MaxSeq)
===========================================================================
