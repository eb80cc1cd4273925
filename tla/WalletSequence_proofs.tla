---------------------- MODULE WalletSequence_proofs ----------------------
(***************************************************************************)
(* WalletSequence keeps its types, runs one resync at a time and           *)
(* implements SequenceAllocator, for every set of callers, every set of    *)
(* faults and every bound.                                                 *)
(***************************************************************************)
EXTENDS WalletSequence, TLAPS

AllocatorProofs == INSTANCE SequenceAllocator_proofs
                     WITH next <- sequence,
                          held <- [c \in Callers |-> IF pc[c] \in Holding THEN usedSeq[c]
                                                                         ELSE Null]

USE NobodyAssumption, BoundsAssumption, FaultsAssumption

\* The inductive strengthening: resyncSignerData() runs once at a time and only while the
\* counter is unread, and a sequence is held only once the counter has been read.
SingleFlight ==
  /\ \A c \in Callers : resync[c] # "none" => seqInit = c
  /\ \A c \in Callers : resync[c] \in {"getSequence", "answered"} => sequence = Null
  /\ \A c \in Callers : resync[c] = "getChainId" => sequence # Null
  /\ \A c \in Callers : pc[c] \in Holding \cup {"resumed"} => sequence # Null

Inv == TypeOK /\ SingleFlight

\* The invariant holds of a wallet that has signed nothing.
LEMMA InitInv == Init => Inv
<1> SUFFICES ASSUME Init PROVE Inv
  OBVIOUS
<1>1. /\ pc \in [Callers -> PcStates] /\ resync \in [Callers -> ResyncStates]
      /\ faults \in 0 .. MaxFaults
  BY DEF Init, PcStates, ResyncStates
<1>2. /\ chainId \in BOOLEAN /\ overlap \in BOOLEAN /\ serial \in BOOLEAN
      /\ usedChainId \in [Callers -> BOOLEAN]
  BY DEF Init
<1>3. TypeOK
  BY <1>1, <1>2 DEF Init, TypeOK, Null
<1>4. SingleFlight
  BY DEF Init, SingleFlight, Holding
<1> QED
  BY <1>3, <1>4 DEF Inv

\* Callers that wait for a settled promise move on; nobody else moves.
LEMMA SettleFacts ==
  ASSUME TypeOK, NEW o \in Callers, NEW next \in {"resumed", "idle"}, Settle(o, next)
  PROVE  /\ seqInit' = Nobody
         /\ resync' \in [Callers -> ResyncStates]
         /\ resync'[o] = "none"
         /\ \A c \in Callers \ {o} : resync'[c] = resync[c]
         /\ pc' \in [Callers -> PcStates]
         /\ \A c \in Callers : pc'[c] = pc[c] \/ pc'[c] = next
         /\ \A c \in Callers : pc[c] \in Holding => pc'[c] = pc[c]
         /\ read' \in [Callers -> Nat]
         /\ waitsOn' \in [Callers -> Callers \cup {Nobody}]
BY DEF Settle, TypeOK, PcStates, ResyncStates, Holding

\* sendTx up to the reservation of a sequence.
LEMMA SendStep ==
  ASSUME Inv, NEW c \in Callers,
         \/ SendTx(c) \/ Simulate(c) \/ SimulateFails(c) \/ AwaitInit(c)
         \/ TakeSequence(c) \/ Resume(c)
  PROVE  Inv'
<1> USE DEF Inv, TypeOK, SingleFlight, PcStates, ResyncStates, Holding, Null,
            initVars, usedVars, chainVars, histVars
<1>1. CASE SendTx(c) \/ Simulate(c)
  BY <1>1 DEF SendTx, Simulate, Goto
<1>2. CASE SimulateFails(c)
  BY <1>2 DEF SimulateFails, Fault, Goto
<1>3. CASE AwaitInit(c)
  BY <1>3 DEF AwaitInit, Goto
<1>4. CASE TakeSequence(c)
  BY <1>4 DEF TakeSequence, HandOut
<1>5. CASE Resume(c)
  BY <1>5 DEF Resume, HandOut
<1> QED
  BY <1>1, <1>2, <1>3, <1>4, <1>5

\* resyncSignerData().
LEMMA ResyncStep ==
  ASSUME Inv, NEW o \in Callers,
         AnswerSequence(o) \/ SetSequence(o) \/ SetChainId(o) \/ ResyncFails(o)
  PROVE  Inv'
<1> USE DEF initVars, usedVars, chainVars, histVars
<1>0. TypeOK /\ SingleFlight
  BY DEF Inv
<1>1. CASE AnswerSequence(o)
  BY <1>0, <1>1 DEF AnswerSequence, Inv, TypeOK, SingleFlight, ResyncStates
<1>2. CASE SetSequence(o) /\ chainId
  <2>1. Settle(o, "resumed") /\ sequence' = read[o] /\ sequence' # Null
    BY <1>0, <1>2 DEF SetSequence, TypeOK, Null
  <2>2. TypeOK'
    BY <1>0, <1>2, <2>1, SettleFacts DEF SetSequence, TypeOK
  <2>3. SingleFlight'
    BY <1>0, <1>2, <2>1, SettleFacts DEF SingleFlight, SetSequence
  <2> QED
    BY <2>2, <2>3 DEF Inv
<1>3. CASE SetSequence(o) /\ ~chainId
  BY <1>0, <1>3 DEF SetSequence, Inv, TypeOK, SingleFlight, ResyncStates, Null
<1>4. CASE SetChainId(o)
  <2>1. Settle(o, "resumed")
    BY <1>4 DEF SetChainId
  <2>2. TypeOK'
    BY <1>0, <1>4, <2>1, SettleFacts DEF SetChainId, TypeOK
  <2>3. SingleFlight'
    BY <1>0, <1>4, <2>1, SettleFacts DEF SingleFlight, SetChainId
  <2> QED
    BY <2>2, <2>3 DEF Inv
<1>5. CASE ResyncFails(o)
  <2>1. Settle(o, "idle") /\ faults' \in 0 .. MaxFaults
    BY <1>0, <1>5 DEF ResyncFails, Fault, TypeOK
  <2>2. TypeOK'
    BY <1>0, <1>5, <2>1, SettleFacts DEF ResyncFails, TypeOK
  <2>3. SingleFlight'
    BY <1>0, <1>5, <2>1, SettleFacts DEF SingleFlight, ResyncFails, Holding
  <2> QED
    BY <2>2, <2>3 DEF Inv
<1> QED
  BY <1>1, <1>2, <1>3, <1>4, <1>5

\* From sign() to the answer of CheckTx.
LEMMA BroadcastStep ==
  ASSUME Inv, NEW c \in Callers,
         \/ Sign(c) \/ Accept(c) \/ Mismatch(c) \/ BadSignature(c)
         \/ BroadcastFails(c) \/ AnswerLost(c)
  PROVE  Inv'
<1> USE DEF Inv, TypeOK, SingleFlight, PcStates, ResyncStates, Holding, Null, Goto, Fault,
            initVars, usedVars, chainVars, histVars
<1>1. CASE Sign(c) \/ BadSignature(c)
  BY <1>1 DEF Sign, BadSignature
<1>2. CASE Accept(c)
  BY <1>2 DEF Accept
<1>3. CASE Mismatch(c)
  BY <1>3 DEF Mismatch
<1>4. CASE BroadcastFails(c)
  BY <1>4 DEF BroadcastFails
<1>5. CASE AnswerLost(c)
  BY <1>5 DEF AnswerLost, Disturbed
<1> QED
  BY <1>1, <1>2, <1>3, <1>4, <1>5

\* The end of sendTx.
LEMMA FinishStep ==
  ASSUME Inv, NEW c \in Callers,
         Accepted(c) \/ AdoptSequence(c) \/ ReleaseSequence(c)
  PROVE  Inv'
<1> USE DEF Inv, TypeOK, SingleFlight, PcStates, ResyncStates, Holding, Null, Finish,
            OthersHold, initVars, usedVars, chainVars, histVars
<1>1. CASE Accepted(c)
  BY <1>1 DEF Accepted
<1>2. CASE AdoptSequence(c)
  BY <1>2 DEF AdoptSequence, Paid
<1>3. CASE ReleaseSequence(c)
  BY <1>3 DEF ReleaseSequence, Released
<1> QED
  BY <1>1, <1>2, <1>3

\* The chain and the CLI.
LEMMA ChainStep == ASSUME Inv, Chain PROVE Inv'
<1> USE DEF Inv, TypeOK, SingleFlight, Fault, Null, initVars, usedVars, chainVars, histVars
<1>1. CASE Commit
  BY <1>1 DEF Commit
<1>2. CASE LoseMempool
  BY <1>2 DEF LoseMempool, Disturbed
<1>3. CASE CliSign
  BY <1>3 DEF CliSign
<1>4. CASE CliBroadcast
  BY <1>4 DEF CliBroadcast, Disturbed
<1> QED
  BY <1>1, <1>2, <1>3, <1>4 DEF Chain

\* ... and while nothing changes.
LEMMA StutterStep == ASSUME Inv, UNCHANGED vars PROVE Inv'
BY DEF Inv, TypeOK, SingleFlight, vars, initVars, usedVars, chainVars, histVars

\* Types and the single resync, in every state.
LEMMA SpecInv == Spec => []Inv
<1>1. Inv /\ [Next]_vars => Inv'
  BY SendStep, ResyncStep, BroadcastStep, FinishStep, ChainStep, StutterStep
     DEF Next, CallerStep, CallerFault, AllSent
<1> QED
  BY <1>1, InitInv, PTL DEF Spec

\* The wallet's state and every sendTx in progress stay well typed, and CheckTx's view
\* never falls behind committed state.
THEOREM WalletTypeOK == Spec => []TypeOK
<1>1. Inv => TypeOK
  BY DEF Inv
<1> QED
  BY <1>1, SpecInv, PTL

---------------------------------------------------------------------------
(* The implementation of SequenceAllocator. *)

Held == [c \in Callers |-> IF pc[c] \in Holding THEN usedSeq[c] ELSE Null]

\* The numbers held change only at HandOut and Finish.
LEMMA HeldFacts ==
  ASSUME TypeOK
  PROVE  /\ \A c \in Callers : Held[c] # Null <=> pc[c] \in Holding
         /\ \A c \in Callers : pc[c] \in Holding => Held[c] = usedSeq[c]
         /\ \A c \in Callers : OthersHold(c) <=> Allocator!OthersHold(c)
BY DEF Held, TypeOK, Null, OthersHold, Allocator!OthersHold, Allocator!Null

\* Each step of the wallet is a step of the allocator or leaves it alone.
LEMMA StepImplements ==
  ASSUME Inv, [Next]_vars
  PROVE  [Allocator!Next]_(Allocator!vars)
<1> USE DEF Allocator!vars, Allocator!Null, Null
<1>0. TypeOK /\ SingleFlight
  BY DEF Inv
<1>1. ASSUME NEW c \in Callers, SetSequence(c) PROVE [Allocator!Next]_(Allocator!vars)
  <2>1. sequence = Null /\ sequence' \in Nat /\ UNCHANGED <<usedSeq, overlap>>
    BY <1>0, <1>1 DEF SetSequence, SingleFlight, TypeOK, usedVars, histVars
  <2>2. \A d \in Callers : pc[d] \notin Holding
    BY <1>0, <2>1 DEF SingleFlight
  <2>3. \A d \in Callers : pc'[d] \notin Holding
    BY <2>2, <1>1, <1>0 DEF SetSequence, Settle, Holding, TypeOK
  <2>4. Held' = Held
    BY <2>2, <2>3 DEF Held
  <2> QED
    BY <2>1, <2>4 DEF Allocator!Next, Allocator!Seed, Held
<1>2. ASSUME NEW c \in Callers, TakeSequence(c) \/ Resume(c)
      PROVE [Allocator!Next]_(Allocator!vars)
  <2>1. /\ HandOut(c) /\ pc[c] \notin Holding /\ UNCHANGED overlap /\ sequence # Null
        /\ sequence \in Nat
    BY <1>0, <1>2 DEF TakeSequence, Resume, SingleFlight, Holding, HandOut, TypeOK
  <2>2. Held' = [Held EXCEPT ![c] = sequence]
    BY <2>1, <1>0 DEF Held, HandOut, TypeOK, Holding
  <2>3. Allocator!Reserve(c)
    BY <2>1, <2>2, <1>0, HeldFacts DEF Allocator!Reserve, HandOut, Held
  <2> QED
    BY <2>3 DEF Allocator!Next
<1>3. ASSUME NEW c \in Callers, Accepted(c) \/ ReleaseSequence(c)
      PROVE [Allocator!Next]_(Allocator!vars)
  <2>1. /\ Finish(c) /\ pc[c] \in Holding
        /\ overlap' = (overlap /\ OthersHold(c))
    BY <1>3 DEF Accepted, ReleaseSequence, Holding
  <2>2. Held' = [Held EXCEPT ![c] = Null]
    BY <2>1, <1>0 DEF Held, Finish, TypeOK, Holding
  <2>3. \/ UNCHANGED sequence
        \/ sequence = Held[c] + 1 /\ sequence' = Held[c]
    BY <1>3, <1>0, <2>1, HeldFacts DEF Accepted, ReleaseSequence, Released
  <2>4. Allocator!Return(c)
    BY <2>1, <2>2, <2>3, <1>0, HeldFacts DEF Allocator!Return, Held
  <2> QED
    BY <2>4 DEF Allocator!Next
<1>4. ASSUME NEW c \in Callers, AdoptSequence(c) PROVE [Allocator!Next]_(Allocator!vars)
  <2>1. /\ Finish(c) /\ pc[c] \in Holding /\ overlap' = OthersHold(c)
        /\ sequence' \in Nat
    BY <1>4, <1>0 DEF AdoptSequence, Holding, TypeOK
  <2>2. Held' = [Held EXCEPT ![c] = Null]
    BY <2>1, <1>0 DEF Held, Finish, TypeOK, Holding
  <2>3. Held[c] # Null
    BY <2>1, <1>0, HeldFacts
  <2>4. OthersHold(c) = Allocator!OthersHold(c)
    BY <1>0, HeldFacts DEF OthersHold, Allocator!OthersHold
  <2>5. overlap' = Allocator!OthersHold(c)
    BY <2>1, <2>4, Zenon
  <2>6. Allocator!Adopt(c)
    BY <2>1, <2>2, <2>3, <2>5 DEF Allocator!Adopt, Held
  <2> QED
    BY <2>6 DEF Allocator!Next
<1>5. ASSUME NEW c \in Callers,
             \/ SendTx(c) \/ Simulate(c) \/ AwaitInit(c) \/ SimulateFails(c)
             \/ AnswerSequence(c) \/ SetChainId(c) \/ ResyncFails(c)
             \/ Sign(c) \/ Accept(c) \/ Mismatch(c) \/ BadSignature(c)
             \/ BroadcastFails(c) \/ AnswerLost(c)
      PROVE UNCHANGED Allocator!vars
  <2>1. UNCHANGED <<sequence, usedSeq, overlap>>
    BY <1>5 DEF SendTx, Simulate, AwaitInit, SimulateFails, AnswerSequence, SetChainId,
       ResyncFails, Sign, Accept, Mismatch, BadSignature, BroadcastFails, AnswerLost,
       usedVars, histVars
  <2>2. \A d \in Callers : pc'[d] \in Holding <=> pc[d] \in Holding
    BY <1>5, <1>0 DEF SendTx, Simulate, AwaitInit, SimulateFails, AnswerSequence,
       SetChainId, ResyncFails, Sign, Accept, Mismatch, BadSignature, BroadcastFails,
       AnswerLost, Goto, Settle, TypeOK, Holding
  <2>3. Held' = Held
    BY <2>1, <2>2 DEF Held
  <2> QED
    BY <2>1, <2>3 DEF Held
<1>6. ASSUME Chain \/ UNCHANGED vars PROVE UNCHANGED Allocator!vars
  <2>1. UNCHANGED <<sequence, usedSeq, pc, overlap>>
    BY <1>6 DEF Chain, Commit, LoseMempool, CliSign, CliBroadcast, vars, usedVars, histVars
  <2> QED
    BY <2>1
<1> QED
  BY <1>1, <1>2, <1>3, <1>4, <1>5, <1>6 DEF Next, CallerStep, CallerFault, AllSent

\* A wallet, its overlapping sendTx calls and a misbehaving chain together implement the
\* allocator of sequences: one initial read, hand-outs one at a time, roll-backs only
\* from the top.
THEOREM WalletImplementsAllocator == Spec => ImplementsAllocator
<1>1. Init => Allocator!Init
  BY DEF Init, Allocator!Init, Holding, Null, Allocator!Null
<1>2. Inv /\ [Next]_vars => [Allocator!Next]_(Allocator!vars)
  BY StepImplements
<1> QED
  BY <1>1, <1>2, SpecInv, PTL DEF Spec, ImplementsAllocator, Allocator!Spec

\* The numbers overlapping calls sign with are distinct unless one of them adopted a
\* mismatch under the others.
THEOREM WalletUniqueReservations == Spec => []UniqueReservations
<1>1. Spec => []Allocator!Distinct
  <2>1. Allocator!Init => AllocatorProofs!Init
    BY DEF Allocator!Init, AllocatorProofs!Init, Allocator!Null, AllocatorProofs!Null
  <2>2. [Allocator!Next]_(Allocator!vars) => [AllocatorProofs!Next]_(AllocatorProofs!vars)
    BY DEF Allocator!Next, Allocator!vars, Allocator!Seed, Allocator!Reserve,
       Allocator!Return, Allocator!Adopt, Allocator!OthersHold, Allocator!Null,
       AllocatorProofs!Next, AllocatorProofs!vars, AllocatorProofs!Seed,
       AllocatorProofs!Reserve, AllocatorProofs!Return, AllocatorProofs!Adopt,
       AllocatorProofs!OthersHold, AllocatorProofs!Null
  <2>3. AllocatorProofs!Distinct => Allocator!Distinct
    BY DEF Allocator!Distinct, Allocator!Holders, Allocator!Null,
       AllocatorProofs!Distinct, AllocatorProofs!Holders, AllocatorProofs!Null
  <2> QED
    BY <2>1, <2>2, <2>3, WalletImplementsAllocator, AllocatorProofs!AllocatorDistinct, PTL
       DEF ImplementsAllocator, Allocator!Spec, AllocatorProofs!Spec
<1>2. TypeOK /\ Allocator!Distinct => UniqueReservations
  BY HeldFacts DEF Allocator!Distinct, Allocator!Holders, UniqueReservations, Holders,
     Held, Allocator!Null, Null
<1> QED
  BY <1>1, <1>2, WalletTypeOK, PTL

---------------------------------------------------------------------------
(* A wallet whose calls have not held sequences at the same time. *)

\* At least n disturbances have not been paid for by a mismatch rejection.
Owed(n) == unpaid >= n

\* What holds of the call that holds a sequence, if its number or the counter is not what
\* CheckTx wants: some disturbance has not been paid for; a rejection on its way back has
\* a second one to spare if the number it names has gone stale.
Holder(c) ==
  /\ sequence = usedSeq[c] + 1
  /\ pc[c] \in {"sign", "broadcast", "error"} /\ ~Owed(1) => usedSeq[c] = checkSeq
  /\ pc[c] = "accepted" /\ ~Owed(1) => sequence = checkSeq
  /\ pc[c] = "mismatch" => Owed(1)
  /\ pc[c] = "mismatch" /\ ~Owed(2) => expected[c] = checkSeq

\* The inductive strengthening of OneMismatchPerDisturbance.
Settled ==
  /\ unpaid >= 0
  /\ \A c, d \in Callers : pc[c] \in Holding /\ pc[d] \in Holding => c = d
  /\ sequence = Null /\ ~Owed(1) =>
       committed = 0 /\ checkSeq = 0 /\ \A c \in Callers : read[c] = 0
  /\ sequence # Null /\ ~Owed(1) /\ (\A c \in Callers : pc[c] \notin Holding) =>
       sequence = checkSeq
  /\ \A c \in Callers : pc[c] \in Holding => Holder(c)

SerialInv == serial => Settled

\* A call that takes a sequence under another's ends the serial history.
LEMMA SerialReserve ==
  ASSUME Inv, SerialInv, NEW c \in Callers, TakeSequence(c) \/ Resume(c), Inv'
  PROVE  SerialInv'
<1> SUFFICES ASSUME serial' PROVE Settled'
  BY DEF SerialInv
<1> USE DEF Holding, Null, Owed
<1>0. TypeOK /\ TypeOK' /\ SingleFlight
  BY DEF Inv
<1>1. /\ HandOut(c) /\ pc[c] \notin Holding /\ sequence # Null
      /\ UNCHANGED <<read, expected, committed, checkSeq, unpaid>>
  BY <1>0 DEF TakeSequence, Resume, HandOut, SingleFlight, initVars, chainVars
<1>2. serial /\ ~OthersHold(c)
  BY <1>0, <1>1 DEF HandOut, TypeOK
<1>3. Settled /\ \A d \in Callers : pc[d] \notin Holding
  BY <1>1, <1>2 DEF SerialInv, OthersHold
<1>4. \A d \in Callers : pc'[d] \in Holding <=> d = c
  BY <1>0, <1>1, <1>3 DEF HandOut, TypeOK
<1>5. sequence \in Nat /\ sequence' = sequence + 1 /\ usedSeq'[c] = sequence /\ pc'[c] = "sign"
  BY <1>0, <1>1 DEF HandOut, TypeOK
<1>6. Holder(c)'
  BY <1>0, <1>1, <1>3, <1>5 DEF Settled, Holder, TypeOK
<1> QED
  BY <1>0, <1>1, <1>3, <1>4, <1>5, <1>6 DEF Settled, TypeOK

\* The steps before a reservation and those of resyncSignerData().
LEMMA SerialPrepare ==
  ASSUME Inv, SerialInv, NEW c \in Callers, Inv',
         \/ SendTx(c) \/ Simulate(c) \/ SimulateFails(c) \/ AwaitInit(c)
         \/ AnswerSequence(c) \/ SetSequence(c) \/ SetChainId(c) \/ ResyncFails(c)
  PROVE  SerialInv'
<1> SUFFICES ASSUME serial' PROVE Settled'
  BY DEF SerialInv
<1> USE DEF Holding, Null, Owed
<1>0. TypeOK /\ TypeOK' /\ SingleFlight
  BY DEF Inv
<1>1. /\ UNCHANGED <<usedSeq, expected, committed, checkSeq, serial, unpaid>>
      /\ \A d \in Callers : pc'[d] \in Holding <=> pc[d] \in Holding
      /\ \A d \in Callers : pc[d] \in Holding => pc'[d] = pc[d]
  <2>1. CASE SendTx(c) \/ Simulate(c) \/ SimulateFails(c) \/ AwaitInit(c)
    BY <1>0, <2>1 DEF SendTx, Simulate, SimulateFails, AwaitInit, Goto, TypeOK,
       usedVars, chainVars, histVars
  <2>2. CASE AnswerSequence(c) \/ (SetSequence(c) /\ ~chainId)
    BY <2>2 DEF AnswerSequence, SetSequence, usedVars, chainVars, histVars
  <2>3. ASSUME NEW next \in {"resumed", "idle"}, Settle(c, next)
        PROVE  /\ \A d \in Callers : pc'[d] \in Holding <=> pc[d] \in Holding
               /\ \A d \in Callers : pc[d] \in Holding => pc'[d] = pc[d]
    BY <1>0, <2>3, SettleFacts
  <2>4. CASE SetSequence(c) /\ chainId
    BY <2>3, <2>4 DEF SetSequence, usedVars, chainVars, histVars
  <2>5. CASE SetChainId(c) \/ ResyncFails(c)
    BY <2>3, <2>5 DEF SetChainId, ResyncFails, usedVars, chainVars, histVars
  <2> QED
    BY <2>1, <2>2, <2>4, <2>5
<1>2. Settled
  BY <1>1 DEF SerialInv
<1>3. CASE SetSequence(c)
  <2>1. sequence = Null /\ sequence' = read[c] /\ \A d \in Callers : read'[d] \in {0, read[d]}
    BY <1>0, <1>3 DEF SetSequence, Settle, SingleFlight, TypeOK
  <2>2. \A d \in Callers : pc[d] \notin Holding
    BY <1>0, <2>1 DEF SingleFlight
  <2> QED
    BY <1>0, <1>1, <1>2, <2>1, <2>2 DEF Settled, TypeOK
<1>4. CASE AnswerSequence(c)
  <2>1. sequence = Null /\ sequence' = Null /\ read' = [read EXCEPT ![c] = committed]
    BY <1>0, <1>4 DEF AnswerSequence, SingleFlight
  <2>2. \A d \in Callers : pc[d] \notin Holding
    BY <1>0, <2>1 DEF SingleFlight
  <2> QED
    BY <1>0, <1>1, <1>2, <2>1, <2>2 DEF Settled, TypeOK
<1>5. CASE \/ SendTx(c) \/ Simulate(c) \/ SimulateFails(c) \/ AwaitInit(c)
           \/ SetChainId(c) \/ ResyncFails(c)
  <2>1. sequence' = sequence /\ \A d \in Callers : read'[d] \in {0, read[d]}
    BY <1>0, <1>5 DEF SendTx, Simulate, SimulateFails, AwaitInit, SetChainId, ResyncFails,
       Settle, TypeOK, initVars
  <2> QED
    BY <1>0, <1>1, <1>2, <2>1 DEF Settled, Holder, TypeOK
<1> QED
  BY <1>3, <1>4, <1>5

\* From sign() to the answer of CheckTx, of the one call that holds a sequence.
LEMMA SerialBroadcast ==
  ASSUME Inv, SerialInv, NEW c \in Callers, Inv',
         \/ Sign(c) \/ Accept(c) \/ Mismatch(c) \/ BadSignature(c)
         \/ BroadcastFails(c) \/ AnswerLost(c)
  PROVE  SerialInv'
<1> SUFFICES ASSUME serial' PROVE Settled'
  BY DEF SerialInv
<1> USE DEF Holding, Null, Owed
<1>0. TypeOK /\ TypeOK' /\ SingleFlight
  BY DEF Inv
<1>1. /\ UNCHANGED <<sequence, read, usedSeq, committed, serial>>
      /\ pc[c] \in Holding /\ pc'[c] \in Holding
      /\ \A d \in Callers \ {c} : pc'[d] = pc[d]
  BY <1>0 DEF Sign, Accept, Mismatch, BadSignature, BroadcastFails, AnswerLost, Goto,
     TypeOK, initVars, usedVars, chainVars, histVars
<1>2. Settled /\ Holder(c) /\ \A d \in Callers \ {c} : pc[d] \notin Holding
  BY <1>1 DEF SerialInv, Settled
<1>3. Holder(c)' /\ unpaid' >= 0
  <2>1. CASE Sign(c) \/ BroadcastFails(c) \/ BadSignature(c)
    BY <1>0, <1>2, <2>1 DEF Sign, BroadcastFails, BadSignature, Goto, Holder, Settled,
       TypeOK, usedVars, chainVars, histVars
  <2>2. CASE Accept(c)
    BY <1>0, <1>2, <2>2 DEF Accept, Goto, Holder, Settled, TypeOK, usedVars, histVars
  <2>3. CASE Mismatch(c)
    BY <1>0, <1>2, <2>3 DEF Mismatch, Goto, Holder, Settled, TypeOK, chainVars, histVars
  <2>4. CASE AnswerLost(c)
    BY <1>0, <1>1, <1>2, <2>4 DEF AnswerLost, Disturbed, Goto, Holder, Settled, TypeOK,
       usedVars, chainVars
  <2> QED
    BY <2>1, <2>2, <2>3, <2>4
<1>4. \A d \in Callers : pc'[d] \in Holding => d = c
  BY <1>1, <1>2
<1>5. sequence' # Null
  BY <1>0, <1>1 DEF SingleFlight
<1> QED
  BY <1>1, <1>3, <1>4, <1>5 DEF Settled

\* The end of sendTx: no call holds a sequence any more.
LEMMA SerialFinish ==
  ASSUME Inv, SerialInv, NEW c \in Callers, Inv',
         Accepted(c) \/ AdoptSequence(c) \/ ReleaseSequence(c)
  PROVE  SerialInv'
<1> SUFFICES ASSUME serial' PROVE Settled'
  BY DEF SerialInv
<1> USE DEF Holding, Null, Owed
<1>0. TypeOK /\ TypeOK' /\ SingleFlight
  BY DEF Inv
<1>1. /\ Finish(c) /\ UNCHANGED <<read, committed, checkSeq, serial>>
      /\ pc[c] \in Holding
  BY DEF Accepted, AdoptSequence, ReleaseSequence, initVars, chainVars
<1>2. Settled /\ Holder(c) /\ \A d \in Callers \ {c} : pc[d] \notin Holding
  BY <1>1 DEF SerialInv, Settled
<1>3. \A d \in Callers : pc'[d] \notin Holding
  BY <1>0, <1>1, <1>2 DEF Finish, TypeOK
<1>4. unpaid' >= 0 /\ sequence' # Null /\ (~Owed(1)' => sequence' = checkSeq')
  <2>1. CASE Accepted(c)
    BY <1>0, <1>1, <1>2, <2>1 DEF Accepted, Holder, Settled, TypeOK
  <2>2. CASE AdoptSequence(c)
    BY <1>0, <1>1, <1>2, <2>2 DEF AdoptSequence, Paid, Holder, Settled, TypeOK
  <2>3. CASE ReleaseSequence(c)
    BY <1>0, <1>1, <1>2, <2>3 DEF ReleaseSequence, Released, Holder, Settled, TypeOK
  <2> QED
    BY <2>1, <2>2, <2>3
<1> QED
  BY <1>3, <1>4 DEF Settled

\* Blocks, lost mempools and CLI txs disturb the wallet, and are counted.
LEMMA SerialChain ==
  ASSUME Inv, SerialInv, Chain \/ UNCHANGED vars
  PROVE  SerialInv'
<1> SUFFICES ASSUME serial' PROVE Settled'
  BY DEF SerialInv
<1> USE DEF Owed
<1>0. TypeOK
  BY DEF Inv
<1>1. UNCHANGED <<sequence, read, pc, usedSeq, expected, serial>>
  BY DEF Chain, Commit, LoseMempool, CliSign, CliBroadcast, vars, initVars, usedVars,
     chainVars, histVars
<1>2. Settled /\ serial
  BY <1>1 DEF SerialInv
<1>3. /\ committed' \in Nat /\ checkSeq' \in Nat
      /\ \/ UNCHANGED <<checkSeq, unpaid>> /\ (committed' = committed \/ checkSeq > 0)
         \/ unpaid' = unpaid + 1
  <2>1. CASE Commit
    BY <1>0, <2>1 DEF Commit, TypeOK, histVars
  <2>2. CASE LoseMempool
    <3>1. unpaid' = unpaid + 1 /\ committed' = committed
      BY <1>2, <2>2 DEF LoseMempool, Disturbed
    <3>2. checkSeq' \in committed .. checkSeq - 1
      BY <2>2 DEF LoseMempool
    <3> QED
      BY <1>0, <3>1, <3>2 DEF TypeOK
  <2>3. CASE CliSign \/ UNCHANGED vars
    BY <1>0, <2>3 DEF CliSign, TypeOK, vars, chainVars, histVars
  <2>4. CASE CliBroadcast
    <3>1. committed' = committed
      BY <2>4 DEF CliBroadcast
    <3>2. \/ UNCHANGED <<checkSeq, unpaid>>
          \/ unpaid' = unpaid + 1 /\ checkSeq' = checkSeq + 1
      BY <1>2, <2>4 DEF CliBroadcast, Disturbed
    <3> QED
      BY <1>0, <3>1, <3>2 DEF TypeOK
  <2> QED
    BY <2>1, <2>2, <2>3, <2>4 DEF Chain
<1> QED
  BY <1>0, <1>1, <1>2, <1>3 DEF Settled, Holder, TypeOK

\* While no two calls have held a sequence at once, however many faults occur, a wallet
\* sees at most one mismatch rejection for each event that moved CheckTx's view without
\* it: the README's "corrects itself on the wallet's next transaction".
THEOREM SerialWalletHeals == Spec => []OneMismatchPerDisturbance
<1>1. Init => SerialInv
  BY DEF Init, SerialInv, Settled, Holder, Owed, Holding, Null
<1>2. Inv /\ Inv' /\ SerialInv /\ [Next]_vars => SerialInv'
  BY SerialReserve, SerialPrepare, SerialBroadcast, SerialFinish, SerialChain
     DEF Next, CallerStep, CallerFault, AllSent
<1>3. SerialInv => OneMismatchPerDisturbance
  BY DEF SerialInv, Settled, OneMismatchPerDisturbance
<1> QED
  BY <1>1, <1>2, <1>3, SpecInv, PTL DEF Spec
===========================================================================
