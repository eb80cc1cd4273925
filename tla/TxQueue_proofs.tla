---------------------------- MODULE TxQueue_proofs ----------------------------
(***************************************************************************)
(* The queues that follow a wallet's txs keep their types for any txs, any *)
(* handlers and any answers.  A wallet that waits until nothing of it is   *)
(* pending, and sends one tx in a block under at most two handlers, has at *)
(* most one lookup at a time; so it loses no tx, and logs no result twice. *)
(***************************************************************************)
EXTENDS TxQueue, SequenceTheorems, FiniteSetTheorems, TLAPS

PromiseRecords == [tx : Txs, state : PromiseStates]

LEMMA Numbers ==
  /\ MaxPerBlock \in Nat /\ MaxPromises \in Nat /\ MaxChecks \in Nat /\ MaxAborts \in Nat
  /\ IsFiniteSet(Txs) /\ Txs # {}
BY QueueAssumption

\* A promise that nothing refers to has some tx or other.
LEMMA SomeTx == (CHOOSE t \in Txs : TRUE) \in Txs
BY Numbers

---------------------------------------------------------------------------
(* Positions: one for each rank, and the first. *)

LEMMA RankedPosition ==
  ASSUME NEW n \in Nat, NEW K \in SUBSET (1 .. n), NEW i \in 1 .. Cardinality(K)
  PROVE  \E k \in K : Cardinality({j \in K : j <= k}) = i
<1> DEFINE UpTo(k) == {j \in K : j <= k}
           rank == [k \in K |-> Cardinality(UpTo(k))]
<1>1. IsFiniteSet(K) /\ Cardinality(K) \in Nat
  <2>1. IsFiniteSet(1 .. n)
    BY FS_Interval
  <2> QED
    BY <2>1, FS_Subset, FS_CardinalityType
<1>2. \A k \in K : IsFiniteSet(UpTo(k)) /\ Cardinality(UpTo(k)) \in 1 .. Cardinality(K)
  <2> TAKE k \in K
  <2>1. UpTo(k) \in SUBSET K /\ k \in UpTo(k)
    OBVIOUS
  <2> HIDE DEF UpTo
  <2>2. /\ IsFiniteSet(UpTo(k)) /\ Cardinality(UpTo(k)) <= Cardinality(K)
        /\ Cardinality(UpTo(k)) \in Nat
    BY <1>1, <2>1, FS_Subset, FS_CardinalityType
  <2>3. Cardinality(UpTo(k)) # 0
    BY <2>1, <2>2, FS_EmptySet
  <2> QED
    BY <1>1, <2>2, <2>3
<1>3. ASSUME NEW j \in K, NEW k \in K, j < k
      PROVE  Cardinality(UpTo(j)) # Cardinality(UpTo(k))
  <2>1. j \in Nat /\ k \in Nat /\ \A l \in K : l \in Nat
    OBVIOUS
  <2>2. \A l \in UpTo(j) : l \in UpTo(k)
    BY <1>3, <2>1
  <2>3. k \in UpTo(k)
    BY <2>1
  <2>4. k \notin UpTo(j)
    BY <1>3, <2>1
  <2>5. UpTo(j) \in SUBSET UpTo(k)
    BY <2>2
  <2> HIDE DEF UpTo
  <2> QED
    BY <1>2, <2>3, <2>4, <2>5, FS_Subset
<1>4. rank \in Injection(K, 1 .. Cardinality(K))
  <2>1. rank \in [K -> 1 .. Cardinality(K)]
    BY <1>2
  <2>2. \A j, k \in K : rank[j] = rank[k] => j = k
    <3> SUFFICES ASSUME NEW j \in K, NEW k \in K, j # k PROVE rank[j] # rank[k]
      OBVIOUS
    <3>1. j < k \/ k < j
      OBVIOUS
    <3> HIDE DEF UpTo
    <3> QED
      BY <1>3, <3>1
  <2> QED
    BY <2>1, <2>2 DEF Injection, IsInjective
<1>5. rank \in Surjection(K, 1 .. Cardinality(K))
  <2>1. IsFiniteSet(1 .. Cardinality(K)) /\ Cardinality(1 .. Cardinality(K)) = Cardinality(K)
    BY <1>1, FS_Interval
  <2> HIDE DEF rank
  <2> QED
    BY <1>4, <2>1, FS_Injection
<1>6. PICK k \in K : rank[k] = i
  BY <1>5 DEF Surjection
<1> QED
  BY <1>6

\* A set of positions that is not empty has a first one.
LEMMA FirstPosition ==
  ASSUME NEW n \in Nat, NEW K \in SUBSET (1 .. n), K # {}
  PROVE  Min(K) \in K
<1>1. IsFiniteSet(K) /\ Cardinality(K) \in Nat /\ Cardinality(K) # 0
  <2>1. IsFiniteSet(1 .. n)
    BY FS_Interval
  <2> QED
    BY <2>1, FS_Subset, FS_CardinalityType, FS_EmptySet
<1>2. PICK k \in K : Cardinality({j \in K : j <= k}) = 1
  <2>1. 1 \in 1 .. Cardinality(K)
    BY <1>1
  <2> QED
    BY <2>1, RankedPosition
<1>3. \A j \in K : j <= k => j = k
  <2>1. IsFiniteSet({j \in K : j <= k})
    BY <1>1, FS_Subset
  <2>2. PICK x : {j \in K : j <= k} = {x}
    BY <1>2, <2>1, FS_Singleton
  <2>3. k \in {j \in K : j <= k}
    OBVIOUS
  <2> QED
    BY <2>2, <2>3
<1>4. \A j \in K : k <= j
  BY <1>3
<1> QED
  BY <1>4 DEF Min

---------------------------------------------------------------------------
(* What the loops leave of a queue, and what they take. *)

LEMMA EveryOtherTyped ==
  ASSUME NEW T, NEW s \in Seq(T), NEW first \in {1, 2}
  PROVE  EveryOther(s, first) \in Seq(T)
<1> DEFINE n == (Len(s) - first + 2) \div 2
<1>1. Len(s) \in Nat
  OBVIOUS
<1>2. n \in Nat
  BY <1>1
<1>3. \A i \in 1 .. n : 2 * i - 2 + first \in 1 .. Len(s)
  BY <1>1
<1>4. \A i \in 1 .. n : s[2 * i - 2 + first] \in T
  BY <1>3, ElementOfSeq
<1>5. EveryOther(s, first) = [i \in 1 .. n |-> s[2 * i - 2 + first]]
  BY DEF EveryOther
<1>6. EveryOther(s, first) \in [1 .. n -> T]
  BY <1>4, <1>5
<1> HIDE DEF n
<1> QED
  BY <1>2, <1>6, SeqDef

LEMMA KeepPositionsTyped ==
  ASSUME NEW T, NEW s \in Seq(T), NEW K \in SUBSET (DOMAIN s)
  PROVE  KeepPositions(s, K) \in Seq(T) /\ ToSet(KeepPositions(s, K)) \subseteq ToSet(s)
<1> DEFINE Rank(k) == Cardinality({j \in K : j <= k})
           at(i) == CHOOSE k \in K : Rank(k) = i
<1>1. Len(s) \in Nat /\ DOMAIN s = 1 .. Len(s)
  OBVIOUS
<1>2. Cardinality(K) \in Nat
  <2>1. IsFiniteSet(1 .. Len(s))
    BY <1>1, FS_Interval
  <2> QED
    BY <1>1, <2>1, FS_Subset, FS_CardinalityType
<1>3. \A i \in 1 .. Cardinality(K) : at(i) \in K
  <2> TAKE i \in 1 .. Cardinality(K)
  <2>1. \E k \in K : Rank(k) = i
    BY <1>1, RankedPosition
  <2> HIDE DEF Rank
  <2> QED
    BY <2>1
<1>4. KeepPositions(s, K) = [i \in 1 .. Cardinality(K) |-> s[at(i)]]
  BY DEF KeepPositions
<1> HIDE DEF at
<1>5. \A i \in 1 .. Cardinality(K) : s[at(i)] \in T /\ s[at(i)] \in ToSet(s)
  BY <1>1, <1>3, ElementOfSeq DEF ToSet
<1>6. KeepPositions(s, K) \in [1 .. Cardinality(K) -> T]
  BY <1>4, <1>5
<1>7. KeepPositions(s, K) \in Seq(T)
  BY <1>2, <1>6, SeqDef
<1>8. ToSet(KeepPositions(s, K)) \subseteq ToSet(s)
  <2> SUFFICES ASSUME NEW x \in ToSet(KeepPositions(s, K)) PROVE x \in ToSet(s)
    OBVIOUS
  <2>1. PICK i \in DOMAIN KeepPositions(s, K) : x = KeepPositions(s, K)[i]
    BY DEF ToSet
  <2> QED
    BY <1>4, <1>5, <2>1
<1> QED
  BY <1>7, <1>8

LEMMA WithoutRejectedTyped ==
  ASSUME NEW s \in Seq(Promises)
  PROVE  WithoutRejected(s) \in Seq(Promises) /\ ToSet(WithoutRejected(s)) \subseteq ToSet(s)
BY KeepPositionsTyped DEF WithoutRejected

LEMMA WithoutReportedTyped ==
  ASSUME NEW s \in Seq(Promises), NEW n
  PROVE  WithoutReported(s, n) \in Seq(Promises) /\ ToSet(WithoutReported(s, n)) \subseteq ToSet(s)
BY KeepPositionsTyped DEF WithoutReported

\* The elements of a finite set, listed.
LEMMA Listing ==
  ASSUME NEW S, IsFiniteSet(S)
  PROVE  /\ SetToSeq(S) \in [1 .. Cardinality(S) -> S] /\ Cardinality(S) \in Nat
         /\ \A i, j \in 1 .. Cardinality(S) : SetToSeq(S)[i] = SetToSeq(S)[j] => i = j
<1>1. Cardinality(S) \in Nat /\ ExistsBijection(1 .. Cardinality(S), S)
  BY FS_CardinalityType
<1>2. PICK f \in [1 .. Cardinality(S) -> S] : IsInjective(f)
  BY <1>1 DEF ExistsBijection, Bijection, Injection
<1>3. SetToSeq(S) \in [1 .. Cardinality(S) -> S] /\ IsInjective(SetToSeq(S))
  BY <1>2 DEF SetToSeq
<1> QED
  BY <1>1, <1>3 DEF IsInjective

---------------------------------------------------------------------------
(* The reactions. *)

LEMMA NextReactionDecided ==
  ASSUME checks \in Seq(Seq(Promises)), ~Quiet
  PROVE  /\ NextReaction \in 1 .. Len(checks) /\ checks[NextReaction] \in Seq(Promises)
         /\ Decided(checks[NextReaction])
<1> DEFINE I == {k \in 1 .. Len(checks) : Decided(checks[k])}
<1>1. NextReaction = IF I # {} THEN Min(I) ELSE 0
  BY DEF NextReaction, SelectInSeq
<1>2. I # {} /\ I \in SUBSET (1 .. Len(checks)) /\ Len(checks) \in Nat
  BY DEF Quiet
<1> HIDE DEF I
<1>3. NextReaction \in I
  BY <1>1, <1>2, FirstPosition
<1> QED
  BY <1>3, ElementOfSeq DEF I

LEMMA FirstRejected ==
  ASSUME NEW snapshot \in Seq(Promises), \E p \in ToSet(snapshot) : Rejected(p)
  PROVE  /\ SelectInSeq(snapshot, Rejected) \in 1 .. Len(snapshot)
         /\ snapshot[SelectInSeq(snapshot, Rejected)] \in Promises
<1> DEFINE I == {k \in 1 .. Len(snapshot) : Rejected(snapshot[k])}
<1>1. SelectInSeq(snapshot, Rejected) = IF I # {} THEN Min(I) ELSE 0
  BY DEF SelectInSeq
<1>2. I # {} /\ I \in SUBSET (1 .. Len(snapshot)) /\ Len(snapshot) \in Nat
  BY DEF ToSet
<1> HIDE DEF I
<1>3. SelectInSeq(snapshot, Rejected) \in I
  BY <1>1, <1>2, FirstPosition
<1> QED
  BY <1>3, ElementOfSeq DEF I

LEMMA RemoveAtTyped ==
  ASSUME NEW T, NEW s \in Seq(T), NEW k \in 1 .. Len(s)
  PROVE  RemoveAt(s, k) \in Seq(T)
<1>1. Len(s) \in Nat
  OBVIOUS
<1>2. SubSeq(s, 1, k - 1) \in Seq(T)
  BY <1>1, ElementOfSeq, SubSeqProperties
<1>3. SubSeq(s, k + 1, Len(s)) \in Seq(T)
  BY <1>1, ElementOfSeq, SubSeqProperties
<1> QED
  BY <1>2, <1>3, ConcatProperties DEF RemoveAt

LEMMA CollectedTyped ==
  ASSUME promises \in [Promises -> PromiseRecords], NEW results, NEW snapshots
  PROVE  /\ Collected(results, snapshots) \in [Promises -> PromiseRecords]
         /\ \A p \in Promises : p \in ToSet(results) => Collected(results, snapshots)[p] = promises[p]
<1> DEFINE live == ToSet(results) \cup UNION {ToSet(snapshots[k]) : k \in DOMAIN snapshots}
           none == [tx |-> CHOOSE t \in Txs : TRUE, state |-> "free"]
<1>1. none \in PromiseRecords
  BY SomeTx DEF PromiseRecords, PromiseStates
<1>2. Collected(results, snapshots) = [p \in Promises |-> IF p \in live THEN promises[p] ELSE none]
  BY DEF Collected
<1>3. \A p \in ToSet(results) : p \in live
  OBVIOUS
<1> HIDE DEF live, none
<1> QED
  BY <1>1, <1>2, <1>3

---------------------------------------------------------------------------
(* The types. *)

\* The three queues, and what the lookups in them are.
QueuesOK ==
  /\ sentTxs \in Seq(Txs) /\ pendingTxs \in Seq(Txs) /\ txResults \in Seq(Promises)
  /\ promises \in [Promises -> PromiseRecords]
  /\ checks \in Seq(Seq(Promises))
  /\ \A p \in ToSet(txResults) : promises[p].state # "free"

CountsOK ==
  /\ pc \in [Handlers -> {"check", "act", "move"}]
  /\ chain \in [Txs -> {"unsent", "mempool", "indexed", "dropped"}]
  /\ reports \in [Txs -> 0 .. 2]
  /\ aborts \in 0 .. MaxAborts

LEMMA TypesSplit == TypeOK <=> QueuesOK /\ CountsOK
BY DEF TypeOK, QueuesOK, CountsOK, PromiseRecords

LEMMA QueueInit == Init => QueuesOK /\ CountsOK
<1> SUFFICES ASSUME Init PROVE QueuesOK /\ CountsOK
  OBVIOUS
<1>1. promises \in [Promises -> PromiseRecords]
  BY SomeTx DEF Init, PromiseRecords, PromiseStates
<1>2. QueuesOK
  BY <1>1 DEF Init, QueuesOK, ToSet
<1>3. CountsOK
  BY Numbers DEF Init, CountsOK
<1> QED
  BY <1>2, <1>3

LEMMA QueuesFrame ==
  ASSUME QueuesOK, UNCHANGED <<sentTxs, pendingTxs, txResults, promises, checks>>
  PROVE  QueuesOK'
BY DEF QueuesOK

LEMMA GotoTyped ==
  ASSUME CountsOK, NEW h, NEW from, NEW to \in {"check", "act", "move"}, Goto(h, from, to)
  PROVE  pc' \in [Handlers -> {"check", "act", "move"}]
BY DEF Goto, CountsOK

\* A free promise for each tx that is asked about.
LEMMA NewPromises ==
  ASSUME NEW free \in SUBSET Promises, NEW n \in Nat, n <= Cardinality(free)
  PROVE  /\ SubSeq(SetToSeq(free), 1, n) \in Seq(free)
         /\ SubSeq(SetToSeq(free), 1, n) \in Seq(Promises)
         /\ Len(SubSeq(SetToSeq(free), 1, n)) = n
<1>1. IsFiniteSet(free)
  <2>1. IsFiniteSet(Promises)
    BY Numbers, FS_Interval DEF Promises
  <2> QED
    BY <2>1, FS_Subset
<1>2. SetToSeq(free) \in [1 .. Cardinality(free) -> free] /\ Cardinality(free) \in Nat
  BY <1>1, Listing
<1>3. \A i \in 1 .. n : SetToSeq(free)[i] \in free
  BY <1>2
<1>4. /\ SubSeq(SetToSeq(free), 1, n) \in Seq(free)
      /\ Len(SubSeq(SetToSeq(free), 1, n)) = IF 1 <= n THEN n - 1 + 1 ELSE 0
  BY <1>3, SubSeqProperties
<1>5. SubSeq(SetToSeq(free), 1, n) \in Seq(Promises)
  BY <1>3, SubSeqProperties
<1> QED
  BY <1>4, <1>5

\* A check asks about txs of the queue, and nobody waits for a free promise.
LEMMA CheckTyped ==
  ASSUME QueuesOK, NEW h \in Handlers, CheckWalletTxs(h)
  PROVE  QueuesOK'
<1> DEFINE asked == Taken(pendingTxs)
           free  == {p \in Promises : promises[p].state = "free"}
           new   == SubSeq(SetToSeq(free), 1, Len(asked))
           waits == WithoutRejected(txResults) \o new
           none  == [tx |-> CHOOSE t \in Txs : TRUE, state |-> "free"]
<1>1. /\ Len(asked) <= Cardinality(free)
      /\ pendingTxs' = Skipped(pendingTxs) /\ sentTxs' = sentTxs
      /\ txResults' = waits
      /\ promises' = [p \in Promises |->
           IF \E k \in DOMAIN new : new[k] = p
           THEN [tx |-> asked[CHOOSE k \in DOMAIN new : new[k] = p], state |-> "inFlight"]
           ELSE IF p \in ToSet(waits) \/ \E k \in DOMAIN checks : p \in ToSet(checks[k])
           THEN promises[p] ELSE none]
      /\ checks' = IF waits = <<>> THEN checks ELSE Append(checks, waits)
  BY DEF CheckWalletTxs
<1>2. asked \in Seq(Txs) /\ Skipped(pendingTxs) \in Seq(Txs)
  BY EveryOtherTyped DEF QueuesOK, Taken, Skipped
<1>3. new \in Seq(free) /\ new \in Seq(Promises) /\ Len(new) = Len(asked)
  <2>1. Len(asked) \in Nat /\ free \in SUBSET Promises
    BY <1>2
  <2> HIDE DEF free
  <2> QED
    BY <1>1, <2>1, NewPromises
<1>4. WithoutRejected(txResults) \in Seq(Promises) /\ ToSet(WithoutRejected(txResults)) \subseteq ToSet(txResults)
  BY WithoutRejectedTyped DEF QueuesOK
<1>5. none \in PromiseRecords
  BY SomeTx DEF PromiseRecords, PromiseStates
<1> HIDE DEF asked, free, none
<1>6. ASSUME NEW p \in Promises, \E k \in DOMAIN new : new[k] = p
      PROVE  asked[CHOOSE k \in DOMAIN new : new[k] = p] \in Txs
  <2>1. (CHOOSE k \in DOMAIN new : new[k] = p) \in DOMAIN new
    BY <1>6
  <2>2. DOMAIN new = 1 .. Len(asked)
    BY <1>3
  <2> HIDE DEF new
  <2> QED
    BY <1>2, <2>1, <2>2, ElementOfSeq
<1> HIDE DEF new
<1>7. waits \in Seq(Promises) /\ \A p \in ToSet(waits) : p \in ToSet(txResults) \/ \E k \in DOMAIN new : new[k] = p
  <2>1. waits \in Seq(Promises)
    BY <1>3, <1>4, ConcatProperties
  <2>2. \A p \in ToSet(waits) : p \in ToSet(WithoutRejected(txResults)) \/ \E k \in DOMAIN new : new[k] = p
    <3> SUFFICES ASSUME NEW i \in DOMAIN waits
                 PROVE  \/ waits[i] \in ToSet(WithoutRejected(txResults))
                        \/ \E k \in DOMAIN new : new[k] = waits[i]
      BY DEF ToSet
    <3> DEFINE s == WithoutRejected(txResults)
    <3>1. s \in Seq(Promises) /\ Len(s) \in Nat /\ Len(new) \in Nat
      BY <1>3, <1>4
    <3> HIDE DEF s
    <3>2. i \in 1 .. Len(s) + Len(new) /\ waits[i] = IF i <= Len(s) THEN s[i] ELSE new[i - Len(s)]
      BY <1>3, <3>1, ConcatProperties DEF s
    <3>3. CASE i <= Len(s)
      BY <3>1, <3>2, <3>3 DEF ToSet, s
    <3>4. CASE ~(i <= Len(s))
      BY <1>3, <3>1, <3>2, <3>4
    <3> QED
      BY <3>3, <3>4
  <2> QED
    BY <1>4, <2>1, <2>2
<1> HIDE DEF waits
<1>8. promises' \in [Promises -> PromiseRecords]
  <2>1. \A p \in Promises : promises[p] \in PromiseRecords
    BY DEF QueuesOK
  <2>2. \A t \in Txs : [tx |-> t, state |-> "inFlight"] \in PromiseRecords
    BY DEF PromiseRecords, PromiseStates
  <2> QED
    BY <1>1, <1>5, <1>6, <2>1, <2>2
<1>9. checks' \in Seq(Seq(Promises))
  BY <1>1, <1>7, AppendProperties DEF QueuesOK
<1>10. \A p \in ToSet(waits) : promises'[p].state # "free"
  <2> TAKE p \in ToSet(waits)
  <2>1. p \in Promises
    BY <1>7, ElementOfSeq DEF ToSet
  <2>2. CASE \E k \in DOMAIN new : new[k] = p
    BY <1>1, <2>1, <2>2
  <2>3. CASE ~\E k \in DOMAIN new : new[k] = p
    BY <1>1, <1>7, <2>1, <2>3 DEF QueuesOK
  <2> QED
    BY <2>2, <2>3
<1> QED
  BY <1>1, <1>2, <1>7, <1>8, <1>9, <1>10 DEF QueuesOK

\* The sends, and what becomes pending.
LEMMA SendTyped ==
  ASSUME QueuesOK, CountsOK, NEW h \in Handlers, SendTxs(h)
  PROVE  QueuesOK' /\ CountsOK'
<1>1. PICK S \in SUBSET Unsent :
        /\ sentTxs' = sentTxs \o SetToSeq(S)
        /\ chain' = [t \in Txs |-> IF t \in S THEN "mempool" ELSE chain[t]]
  BY DEF SendTxs
<1>2. /\ UNCHANGED <<pendingTxs, txResults, promises, checks, reports, aborts>>
      /\ Goto(h, "act", "move")
  BY DEF SendTxs
<1>3. SetToSeq(S) \in Seq(Txs)
  <2>1. S \subseteq Txs /\ IsFiniteSet(S)
    BY Numbers, FS_Subset DEF Unsent
  <2>2. SetToSeq(S) \in [1 .. Cardinality(S) -> Txs] /\ Cardinality(S) \in Nat
    BY <2>1, Listing
  <2> QED
    BY <2>2, SeqDef
<1>4. sentTxs' \in Seq(Txs)
  BY <1>1, <1>3, ConcatProperties DEF QueuesOK
<1>5. chain' \in [Txs -> {"unsent", "mempool", "indexed", "dropped"}]
  BY <1>1 DEF CountsOK
<1>6. pc' \in [Handlers -> {"check", "act", "move"}]
  BY <1>2, GotoTyped
<1> QED
  BY <1>2, <1>4, <1>5, <1>6 DEF QueuesOK, CountsOK

LEMMA MoveTyped ==
  ASSUME QueuesOK, NEW h \in Handlers, MoveSentToPending(h)
  PROVE  QueuesOK'
<1>1. /\ pendingTxs' = pendingTxs \o Taken(sentTxs) /\ sentTxs' = Skipped(sentTxs)
      /\ UNCHANGED <<txResults, promises, checks>>
  BY DEF MoveSentToPending
<1>2. Taken(sentTxs) \in Seq(Txs) /\ Skipped(sentTxs) \in Seq(Txs)
  BY EveryOtherTyped DEF QueuesOK, Taken, Skipped
<1>3. pendingTxs' \in Seq(Txs)
  BY <1>1, <1>2, ConcatProperties DEF QueuesOK
<1> QED
  BY <1>1, <1>2, <1>3 DEF QueuesOK

\* A handler's step.
LEMMA QueueHandler ==
  ASSUME QueuesOK, CountsOK, NEW h \in Handlers, Handler(h) \/ Abort(h)
  PROVE  QueuesOK' /\ CountsOK'
<1>1. CASE CheckWalletTxs(h)
  <2>1. Goto(h, "check", "act") /\ UNCHANGED <<chain, reports, aborts>>
    BY <1>1 DEF CheckWalletTxs
  <2> QED
    BY <1>1, <2>1, CheckTyped, GotoTyped DEF CountsOK
<1>2. CASE SendTxs(h)
  BY <1>2, SendTyped
<1>3. CASE SendNothing(h)
  <2>1. /\ Goto(h, "act", "move")
        /\ UNCHANGED <<sentTxs, pendingTxs, txResults, promises, checks, chain, reports, aborts>>
    BY <1>3 DEF SendNothing, queueVars
  <2> QED
    BY <2>1, QueuesFrame, GotoTyped DEF CountsOK
<1>4. CASE MoveSentToPending(h)
  <2>1. Goto(h, "move", "check") /\ UNCHANGED <<chain, reports, aborts>>
    BY <1>4 DEF MoveSentToPending
  <2> QED
    BY <1>4, <2>1, MoveTyped, GotoTyped DEF CountsOK
<1>5. CASE Abort(h)
  <2>1. /\ aborts < MaxAborts /\ aborts' = aborts + 1
        /\ \E from \in {"act", "move"} : Goto(h, from, "check")
        /\ UNCHANGED <<sentTxs, pendingTxs, txResults, promises, checks, chain, reports>>
    BY <1>5 DEF Abort, queueVars
  <2>2. aborts' \in 0 .. MaxAborts
    BY <2>1, Numbers DEF CountsOK
  <2> QED
    BY <2>1, <2>2, QueuesFrame, GotoTyped DEF CountsOK
<1> QED
  BY <1>1, <1>2, <1>3, <1>4, <1>5 DEF Handler

\* The chain's step and the node's.
LEMMA QueueNode ==
  ASSUME QueuesOK, CountsOK, (\E t \in Txs : Resolve(t)) \/ (\E p \in Promises : Node(p))
  PROVE  QueuesOK' /\ CountsOK'
<1>1. ASSUME NEW t \in Txs, Resolve(t)
      PROVE  QueuesOK' /\ CountsOK'
  <2>1. PICK fate \in Fates : chain' = [chain EXCEPT ![t] = fate]
    BY <1>1 DEF Resolve
  <2>2. fate \in {"indexed", "dropped"}
    BY QueueAssumption
  <2>3. UNCHANGED <<sentTxs, pendingTxs, txResults, promises, checks, pc, reports, aborts>>
    BY <1>1 DEF Resolve, queueVars
  <2> QED
    BY <2>1, <2>2, <2>3, QueuesFrame DEF CountsOK
<1>2. ASSUME NEW p \in Promises, NEW how \in Answers, Answer(p, how)
      PROVE  QueuesOK' /\ CountsOK'
  <2>1. /\ promises' = [promises EXCEPT ![p].state = how]
        /\ UNCHANGED <<sentTxs, pendingTxs, txResults, checks, pc, chain, reports, aborts>>
    BY <1>2 DEF Answer, queueVars
  <2>2. how \in {"found", "notFound", "error"}
    BY QueueAssumption
  <2>3. promises' \in [Promises -> PromiseRecords]
    BY <2>1, <2>2 DEF QueuesOK, PromiseRecords, PromiseStates
  <2>4. \A q \in ToSet(txResults) : promises'[q].state # "free"
    <3>1. \A q \in ToSet(txResults) : q \in Promises
      BY ElementOfSeq DEF QueuesOK, ToSet
    <3> QED
      BY <2>1, <2>2, <3>1 DEF QueuesOK, PromiseRecords
  <2> QED
    BY <2>1, <2>3, <2>4 DEF QueuesOK, CountsOK
<1> QED
  BY <1>1, <1>2 DEF Node

\* The catch queues a tx again.
LEMMA RejectedTyped ==
  ASSUME QueuesOK, CountsOK, OnRejected
  PROVE  QueuesOK' /\ CountsOK'
<1> DEFINE snapshot == checks[NextReaction]
           first == promises[snapshot[SelectInSeq(snapshot, Rejected)]]
<1>1. /\ ~Quiet /\ \E p \in ToSet(snapshot) : Rejected(p)
      /\ pendingTxs' = IF first.state = "notFound" THEN Append(pendingTxs, first.tx) ELSE pendingTxs
      /\ checks' = RemoveAt(checks, NextReaction)
      /\ promises' = Collected(txResults, checks')
      /\ UNCHANGED <<sentTxs, txResults, pc, chain, reports, aborts>>
  BY DEF OnRejected
<1>2. NextReaction \in 1 .. Len(checks) /\ snapshot \in Seq(Promises)
  BY <1>1, NextReactionDecided DEF QueuesOK
<1>3. first \in PromiseRecords
  BY <1>1, <1>2, FirstRejected DEF QueuesOK
<1> HIDE DEF snapshot, first
<1>4. pendingTxs' \in Seq(Txs)
  <2>1. first.tx \in Txs
    BY <1>3 DEF PromiseRecords
  <2> QED
    BY <1>1, <2>1, AppendProperties DEF QueuesOK
<1>5. checks' \in Seq(Seq(Promises))
  BY <1>1, <1>2, RemoveAtTyped DEF QueuesOK
<1>6. /\ promises' \in [Promises -> PromiseRecords]
      /\ \A p \in Promises : p \in ToSet(txResults) => promises'[p] = promises[p]
  BY <1>1, CollectedTyped DEF QueuesOK
<1>7. \A p \in ToSet(txResults) : p \in Promises
  BY ElementOfSeq DEF QueuesOK, ToSet
<1>8. \A p \in ToSet(txResults') : promises'[p].state # "free"
  BY <1>1, <1>6, <1>7 DEF QueuesOK
<1> QED
  BY <1>1, <1>4, <1>5, <1>6, <1>8 DEF QueuesOK, CountsOK

\* The then logs results.
LEMMA FulfilledTyped ==
  ASSUME QueuesOK, CountsOK, OnFulfilled
  PROVE  QueuesOK' /\ CountsOK'
<1> DEFINE snapshot == checks[NextReaction]
           Logged(t) == Cardinality({k \in DOMAIN snapshot : promises[snapshot[k]].tx = t})
           Cap(n) == IF n > 2 THEN 2 ELSE n
<1>1. /\ ~Quiet
      /\ reports' = [t \in Txs |-> Cap(reports[t] + Logged(t))]
      /\ txResults' = WithoutReported(txResults, Len(snapshot))
      /\ checks' = RemoveAt(checks, NextReaction)
      /\ promises' = Collected(txResults', checks')
      /\ UNCHANGED <<sentTxs, pendingTxs, pc, chain, aborts>>
  BY DEF OnFulfilled
<1>2. NextReaction \in 1 .. Len(checks) /\ snapshot \in Seq(Promises)
  BY <1>1, NextReactionDecided DEF QueuesOK
<1> HIDE DEF snapshot
<1>3. \A t \in Txs : Logged(t) \in Nat
  <2> TAKE t \in Txs
  <2>1. DOMAIN snapshot = 1 .. Len(snapshot) /\ Len(snapshot) \in Nat
    BY <1>2
  <2>2. IsFiniteSet(DOMAIN snapshot)
    BY <2>1, FS_Interval
  <2>3. {k \in DOMAIN snapshot : promises[snapshot[k]].tx = t} \in SUBSET (DOMAIN snapshot)
    OBVIOUS
  <2> QED
    BY <2>2, <2>3, FS_Subset, FS_CardinalityType
<1> HIDE DEF Logged
<1>4. reports' \in [Txs -> 0 .. 2]
  BY <1>1, <1>3 DEF CountsOK
<1>5. txResults' \in Seq(Promises) /\ ToSet(txResults') \subseteq ToSet(txResults)
  BY <1>1, WithoutReportedTyped DEF QueuesOK
<1>6. checks' \in Seq(Seq(Promises))
  BY <1>1, <1>2, RemoveAtTyped DEF QueuesOK
<1>7. /\ promises' \in [Promises -> PromiseRecords]
      /\ \A p \in Promises : p \in ToSet(txResults') => promises'[p] = promises[p]
  BY <1>1, CollectedTyped DEF QueuesOK
<1>8. \A p \in ToSet(txResults) : p \in Promises
  BY ElementOfSeq DEF QueuesOK, ToSet
<1>9. \A p \in ToSet(txResults') : promises'[p].state # "free"
  BY <1>5, <1>7, <1>8 DEF QueuesOK
<1> QED
  BY <1>1, <1>4, <1>5, <1>6, <1>7, <1>9 DEF QueuesOK, CountsOK

LEMMA QueueNext ==
  ASSUME QueuesOK, CountsOK, [Next]_vars
  PROVE  QueuesOK' /\ CountsOK'
<1>1. CASE UNCHANGED vars
  <2>1. UNCHANGED <<sentTxs, pendingTxs, txResults, promises, checks, pc, chain, reports, aborts>>
    BY <1>1 DEF vars, queueVars
  <2> QED
    BY <2>1, QueuesFrame DEF CountsOK
<1> QED
  BY <1>1, QueueHandler, QueueNode, RejectedTyped, FulfilledTyped DEF Next

\* Whatever overlaps and however getTx ends, the queues hold hashes, txResults only lookups
\* that are in use, and every reaction finds the promises it was made for (checkWalletTxs,
\* moveSentToPending).
THEOREM QueueTypeOK == Spec => []TypeOK
<1>1. TypeOK /\ [Next]_vars => TypeOK'
  <2>1. QueuesOK' /\ CountsOK' => TypeOK'
    BY DEF TypeOK, QueuesOK, CountsOK, PromiseRecords
  <2> QED
    BY <2>1, TypesSplit, QueueNext
<1>2. Init => TypeOK
  BY QueueInit, TypesSplit
<1> QED
  BY <1>1, <1>2, PTL DEF Spec

---------------------------------------------------------------------------
(* A wallet that sends singly: it waits until nothing of it is pending,    *)
(* and no more than two handlers are in progress.                          *)

AtMostTwo == \A f, g, h \in Handlers : f = g \/ g = h \/ f = h

\* No hash is twice in a queue.
Distinct(s) == \A i, j \in DOMAIN s : s[i] = s[j] => i = j

\* At most one lookup, which is the whole of txResults; when its check is over it was rejected.
OneLookup ==
  /\ \/ txResults = <<>> /\ checks = <<>>
     \/ \E p \in Promises :
          /\ txResults = <<p>>
          /\ \/ checks = <<>> /\ promises[p].state = "notFound"
             \/ /\ checks = << <<p>> >>
                /\ promises[p].state \in {"inFlight", "found", "notFound"}
  /\ \A p \in Promises : promises[p].state = "inFlight" => checks = << <<p>> >>

LookedUp == IF checks = <<>> THEN {} ELSE {promises[txResults[1]].tx}

\* A tx is in one queue, or being looked up, and once.
OnePlace ==
  /\ Distinct(sentTxs) /\ Distinct(pendingTxs)
  /\ ToSet(sentTxs) \cap ToSet(pendingTxs) = {}
  /\ (ToSet(sentTxs) \cup ToSet(pendingTxs)) \cap LookedUp = {}

\* Those are the txs whose result is still to be logged.
Outstanding ==
  \A t \in Txs :
    /\ t \in ToSet(sentTxs) \cup ToSet(pendingTxs) \cup LookedUp
         <=> chain[t] # "unsent" /\ reports[t] = 0
    /\ reports[t] = 0 \/ (reports[t] = 1 /\ chain[t] # "unsent")

\* There are two at most, as each was sent by a handler that has not moved it on.
TwoAtMost ==
  /\ Len(sentTxs) + Len(pendingTxs) + Len(checks) <= 2
  /\ sentTxs # <<>> => \E h \in Handlers : pc[h] = "move"
  /\ Len(sentTxs) = 2 => \E g, h \in Handlers : g # h /\ pc[g] = "move" /\ pc[h] = "move"

SinglyInv == QueuesOK /\ CountsOK /\ OneLookup /\ OnePlace /\ Outstanding /\ TwoAtMost

---------------------------------------------------------------------------
(* Queues whose elements are distinct. *)

\* A splicing loop takes a part of the queue and leaves the rest.
LEMMA Halves ==
  ASSUME NEW s \in Seq(Txs), Distinct(s)
  PROVE  /\ Distinct(Taken(s)) /\ Distinct(Skipped(s))
         /\ ToSet(Taken(s)) \cup ToSet(Skipped(s)) = ToSet(s)
         /\ ToSet(Taken(s)) \cap ToSet(Skipped(s)) = {}
         /\ Len(Taken(s)) = (Len(s) + 1) \div 2 /\ Len(Skipped(s)) = Len(s) \div 2
<1>1. Len(s) \in Nat /\ DOMAIN s = 1 .. Len(s)
  OBVIOUS
<1>2. PICK n \in Nat : n = Len(s)
  BY <1>1
<1>3. /\ Taken(s) = [i \in 1 .. (n + 1) \div 2 |-> s[2 * i - 1]]
      /\ Skipped(s) = [i \in 1 .. n \div 2 |-> s[2 * i]]
  <2>1. /\ (n - 1 + 2) \div 2 = (n + 1) \div 2 /\ (n - 2 + 2) \div 2 = n \div 2
        /\ \A i \in Nat : 2 * i - 2 + 1 = 2 * i - 1 /\ 2 * i - 2 + 2 = 2 * i
    OBVIOUS
  <2> QED
    BY <1>2, <2>1 DEF Taken, Skipped, EveryOther
<1>4. /\ Taken(s) \in Seq(Txs) /\ DOMAIN Taken(s) = 1 .. (n + 1) \div 2
      /\ Skipped(s) \in Seq(Txs) /\ DOMAIN Skipped(s) = 1 .. n \div 2
  BY <1>3, EveryOtherTyped DEF Taken, Skipped
<1>5. PICK l, m \in Nat : m = (n + 1) \div 2 /\ l = n \div 2
  OBVIOUS
<1>6. /\ \A i \in 1 .. m : 2 * i - 1 \in 1 .. n
      /\ \A i \in 1 .. l : 2 * i \in 1 .. n
      /\ \A k \in 1 .. n : (\E i \in 1 .. m : k = 2 * i - 1) \/ (\E i \in 1 .. l : k = 2 * i)
  <2>1. 2 * m \in n .. n + 1 /\ 2 * l \in n - 1 .. n
    BY <1>5
  <2>2. \A k \in Nat : \E i \in Nat : k = 2 * i - 1 \/ k = 2 * i
    <3> TAKE k \in Nat
    <3>1. PICK i \in Nat : i = (k + 1) \div 2
      OBVIOUS
    <3>2. 2 * i \in k .. k + 1
      BY <3>1
    <3> QED
      BY <3>2
  <2> SUFFICES ASSUME NEW k \in 1 .. n
               PROVE  (\E i \in 1 .. m : k = 2 * i - 1) \/ (\E i \in 1 .. l : k = 2 * i)
    BY <2>1
  <2>3. k \in Nat
    OBVIOUS
  <2>4. \E i \in Nat : k = 2 * i - 1 \/ k = 2 * i
    BY <2>2, <2>3, Zenon
  <2>5. PICK i \in Nat : k = 2 * i - 1 \/ k = 2 * i
    BY <2>4
  <2>6. CASE k = 2 * i - 1
    <3>1. i \in 1 .. m
      BY <2>1, <2>6
    <3> QED
      BY <2>6, <3>1
  <2>7. CASE k = 2 * i
    <3>1. i \in 1 .. l
      BY <2>1, <2>7
    <3> QED
      BY <2>7, <3>1
  <2> QED
    BY <2>5, <2>6, <2>7
<1>7. /\ DOMAIN Taken(s) = 1 .. m /\ \A i \in 1 .. m : Taken(s)[i] = s[2 * i - 1]
      /\ DOMAIN Skipped(s) = 1 .. l /\ \A i \in 1 .. l : Skipped(s)[i] = s[2 * i]
  BY <1>3, <1>4, <1>5
<1>8. Len(Taken(s)) = m /\ Len(Skipped(s)) = l
  BY <1>4, <1>5, <1>7, LenProperties
<1>9. Distinct(Taken(s))
  <2> SUFFICES ASSUME NEW i \in 1 .. m, NEW j \in 1 .. m, s[2 * i - 1] = s[2 * j - 1] PROVE i = j
    BY <1>7 DEF Distinct
  <2>1. 2 * i - 1 \in DOMAIN s /\ 2 * j - 1 \in DOMAIN s
    BY <1>1, <1>2, <1>6
  <2>2. 2 * i - 1 = 2 * j - 1
    BY <2>1 DEF Distinct
  <2> QED
    BY <2>2
<1>10. Distinct(Skipped(s))
  <2> SUFFICES ASSUME NEW i \in 1 .. l, NEW j \in 1 .. l, s[2 * i] = s[2 * j] PROVE i = j
    BY <1>7 DEF Distinct
  <2>1. 2 * i \in DOMAIN s /\ 2 * j \in DOMAIN s
    BY <1>1, <1>2, <1>6
  <2>2. 2 * i = 2 * j
    BY <2>1 DEF Distinct
  <2> QED
    BY <2>2
<1>11. ToSet(Taken(s)) \cup ToSet(Skipped(s)) = ToSet(s)
  <2>1. \A i \in 1 .. m : Taken(s)[i] \in ToSet(s)
    BY <1>1, <1>2, <1>6, <1>7 DEF ToSet
  <2>2. \A i \in 1 .. l : Skipped(s)[i] \in ToSet(s)
    BY <1>1, <1>2, <1>6, <1>7 DEF ToSet
  <2>3. ASSUME NEW k \in 1 .. n PROVE s[k] \in ToSet(Taken(s)) \cup ToSet(Skipped(s))
    <3>1. CASE \E i \in 1 .. m : k = 2 * i - 1
      BY <1>7, <3>1 DEF ToSet
    <3>2. CASE \E i \in 1 .. l : k = 2 * i
      BY <1>7, <3>2 DEF ToSet
    <3> QED
      BY <1>6, <3>1, <3>2
  <2>4. ToSet(Taken(s)) \subseteq ToSet(s) /\ ToSet(Skipped(s)) \subseteq ToSet(s)
    BY <1>7, <2>1, <2>2 DEF ToSet
  <2>5. ToSet(s) \subseteq ToSet(Taken(s)) \cup ToSet(Skipped(s))
    BY <1>1, <1>2, <2>3 DEF ToSet
  <2> QED
    BY <2>4, <2>5
<1>12. ToSet(Taken(s)) \cap ToSet(Skipped(s)) = {}
  <2>1. ASSUME NEW i \in 1 .. m, NEW j \in 1 .. l, s[2 * i - 1] = s[2 * j] PROVE FALSE
    <3>1. 2 * i - 1 \in DOMAIN s /\ 2 * j \in DOMAIN s
      BY <1>1, <1>2, <1>6
    <3>2. 2 * i - 1 = 2 * j
      BY <2>1, <3>1 DEF Distinct
    <3> QED
      BY <3>2
  <2>2. ASSUME NEW x \in ToSet(Taken(s)), x \in ToSet(Skipped(s)) PROVE FALSE
    <3>1. PICK i \in 1 .. m : x = Taken(s)[i]
      BY <1>7 DEF ToSet
    <3>2. PICK j \in 1 .. l : x = Skipped(s)[j]
      BY <1>7, <2>2 DEF ToSet
    <3> QED
      BY <1>7, <2>1, <3>1, <3>2
  <2> QED
    BY <2>2
<1> QED
  BY <1>2, <1>5, <1>8, <1>9, <1>10, <1>11, <1>12

\* One queue after another.
LEMMA Joined ==
  ASSUME NEW s \in Seq(Txs), NEW u \in Seq(Txs), Distinct(s), Distinct(u),
         ToSet(s) \cap ToSet(u) = {}
  PROVE  /\ Distinct(s \o u) /\ ToSet(s \o u) = ToSet(s) \cup ToSet(u)
         /\ Len(s \o u) = Len(s) + Len(u)
<1>1. /\ Len(s) \in Nat /\ DOMAIN s = 1 .. Len(s) /\ Len(u) \in Nat /\ DOMAIN u = 1 .. Len(u)
      /\ s \o u \in Seq(Txs) /\ Len(s \o u) = Len(s) + Len(u)
  BY ConcatProperties
<1>2. DOMAIN (s \o u) = 1 .. Len(s) + Len(u)
  BY <1>1, LenProperties
<1>3. \A i \in 1 .. Len(s) + Len(u) : (s \o u)[i] = IF i <= Len(s) THEN s[i] ELSE u[i - Len(s)]
  BY ConcatProperties
<1>4. PICK v : v = s \o u
  OBVIOUS
<1>5. Distinct(v)
  <2> SUFFICES ASSUME NEW i \in DOMAIN v, NEW j \in DOMAIN v, v[i] = v[j] PROVE i = j
    BY DEF Distinct
  <2>1. CASE i <= Len(s) /\ j <= Len(s)
    BY <1>1, <1>2, <1>3, <1>4, <2>1 DEF Distinct
  <2>2. CASE ~(i <= Len(s)) /\ ~(j <= Len(s))
    BY <1>1, <1>2, <1>3, <1>4, <2>2 DEF Distinct
  <2>3. CASE i <= Len(s) /\ ~(j <= Len(s))
    <3>1. /\ i \in 1 .. Len(s) /\ v[i] = s[i]
          /\ j - Len(s) \in 1 .. Len(u) /\ v[j] = u[j - Len(s)]
      BY <1>1, <1>2, <1>3, <1>4, <2>3
    <3>2. v[i] \in ToSet(s) /\ v[j] \in ToSet(u)
      BY <1>1, <3>1 DEF ToSet
    <3> QED
      BY <3>2
  <2>4. CASE ~(i <= Len(s)) /\ j <= Len(s)
    <3>1. /\ j \in 1 .. Len(s) /\ v[j] = s[j]
          /\ i - Len(s) \in 1 .. Len(u) /\ v[i] = u[i - Len(s)]
      BY <1>1, <1>2, <1>3, <1>4, <2>4
    <3>2. v[j] \in ToSet(s) /\ v[i] \in ToSet(u)
      BY <1>1, <3>1 DEF ToSet
    <3> QED
      BY <3>2
  <2> QED
    BY <2>1, <2>2, <2>3, <2>4
<1>6. ToSet(v) = ToSet(s) \cup ToSet(u)
  <2>1. \A i \in DOMAIN v : v[i] \in ToSet(s) \cup ToSet(u)
    BY <1>1, <1>2, <1>3, <1>4 DEF ToSet
  <2>2. \A i \in DOMAIN s : s[i] \in ToSet(v)
    <3> TAKE i \in DOMAIN s
    <3>1. i \in DOMAIN v /\ v[i] = s[i]
      BY <1>1, <1>2, <1>3, <1>4
    <3> QED
      BY <3>1 DEF ToSet
  <2>3. \A i \in DOMAIN u : u[i] \in ToSet(v)
    <3> TAKE i \in DOMAIN u
    <3>1. i + Len(s) \in DOMAIN v /\ v[i + Len(s)] = u[i]
      BY <1>1, <1>2, <1>3, <1>4
    <3> QED
      BY <3>1 DEF ToSet
  <2> QED
    BY <2>1, <2>2, <2>3 DEF ToSet
<1> QED
  BY <1>1, <1>4, <1>5, <1>6

LEMMA Lengths ==
  ASSUME NEW T, NEW s \in Seq(T)
  PROVE  Len(s) \in Nat /\ (Len(s) = 0 <=> s = <<>>) /\ (Len(s) = 1 => s = <<s[1]>>)
OBVIOUS

\* A queue of one.
LEMMA Single ==
  ASSUME NEW x
  PROVE  /\ Distinct(<<x>>) /\ ToSet(<<x>>) = {x} /\ Len(<<x>>) = 1
         /\ DOMAIN <<x>> = {1} /\ <<x>>[1] = x
BY DEF Distinct, ToSet

LEMMA None == ToSet(<<>>) = {} /\ Distinct(<<>>) /\ Len(<<>>) = 0
BY DEF Distinct, ToSet

LEMMA KeptNone == ASSUME NEW s PROVE KeepPositions(s, {}) = <<>>
<1>1. Cardinality({}) = 0
  BY FS_EmptySet
<1> QED
  BY <1>1 DEF KeepPositions

LEMMA RemovedOnly == ASSUME NEW x PROVE RemoveAt(<<x>>, 1) = <<>>
BY DEF RemoveAt

---------------------------------------------------------------------------
(* The one lookup. *)

\* Once the node has answered and the reaction has run, no check is in progress, and what
\* is left in txResults is cleaned by the next one.
LEMMA Idle ==
  ASSUME QueuesOK, OneLookup, Quiet, Answered
  PROVE  checks = <<>> /\ WithoutRejected(txResults) = <<>> /\ LookedUp = {}
<1>1. checks = <<>>
  <2> SUFFICES ASSUME NEW p \in Promises, checks = << <<p>> >>,
                      promises[p].state \in {"inFlight", "found", "notFound"}
               PROVE  FALSE
    BY DEF OneLookup
  <2>1. promises[p].state # "inFlight"
    BY DEF Answered
  <2>2. ToSet(checks[1]) = {p} /\ 1 \in DOMAIN checks
    BY Single
  <2>3. Decided(checks[1])
    BY <2>1, <2>2 DEF Decided, Rejected
  <2> QED
    BY <2>2, <2>3 DEF Quiet
<1>2. WithoutRejected(<<>>) = <<>>
  BY KeptNone DEF WithoutRejected
<1>3. ASSUME NEW p \in Promises, promises[p].state = "notFound"
      PROVE  WithoutRejected(<<p>>) = <<>>
  <2> DEFINE Step(g) == [k \in 0 .. Len(<<p>>) |-> k > 0 /\ Rejected(<<p>>[k]) /\ ~g[k - 1]]
             gone == CHOOSE g : g = Step(g)
             only == [k \in 0 .. 1 |-> k = 1]
  <2>1. Rejected(p) /\ Rejected(<<p>>[1])
    BY <1>3, Single DEF Rejected
  <2>2. 0 .. Len(<<p>>) = {0, 1} /\ ~(0 > 0) /\ 1 > 0 /\ 1 - 1 = 0
    BY Single
  <2>3. only = Step(only)
    <3>1. only = [k \in {0, 1} |-> k = 1] /\ ~only[0] /\ only[1]
      BY <2>2, Single
    <3>2. \A k \in {0, 1} : (k = 1) = (k > 0 /\ Rejected(<<p>>[k]) /\ ~only[k - 1])
      <4>1. (0 = 1) = (0 > 0 /\ Rejected(<<p>>[0]) /\ ~only[0 - 1])
        BY <2>2
      <4>2. (1 = 1) = (1 > 0 /\ Rejected(<<p>>[1]) /\ ~only[1 - 1])
        BY <2>1, <2>2, <3>1
      <4> QED
        BY <4>1, <4>2, Zenon
    <3> HIDE DEF only
    <3> QED
      BY <2>2, <3>1, <3>2, Zenon
  <2>4. gone = Step(gone)
    BY <2>3, Zenon
  <2>5. WithoutRejected(<<p>>) = KeepPositions(<<p>>, {k \in DOMAIN <<p>> : ~gone[k]})
    BY DEF WithoutRejected
  <2> HIDE DEF gone
  <2>6. gone = [k \in {0, 1} |-> k > 0 /\ Rejected(<<p>>[k]) /\ ~gone[k - 1]]
    BY <2>2, <2>4, Zenon
  <2>7. ~gone[0]
    BY <2>2, <2>6, Zenon
  <2>8. gone[1]
    <3>1. gone[1] = (1 > 0 /\ Rejected(<<p>>[1]) /\ ~gone[1 - 1])
      BY <2>6, Zenon
    <3> QED
      BY <2>1, <2>2, <2>7, <3>1, Zenon
  <2>9. {k \in DOMAIN <<p>> : ~gone[k]} = {}
    <3>1. DOMAIN <<p>> = {1}
      BY Single
    <3> QED
      BY <2>8, <3>1, Zenon
  <2> QED
    BY <2>5, <2>9, KeptNone
<1>4. WithoutRejected(txResults) = <<>>
  BY <1>1, <1>2, <1>3 DEF OneLookup
<1> QED
  BY <1>1, <1>4 DEF LookedUp

\* A step that leaves the lookup alone.
LEMMA LookupFrame ==
  ASSUME OneLookup, UNCHANGED <<txResults, promises, checks>>
  PROVE  OneLookup' /\ LookedUp' = LookedUp
BY DEF OneLookup, LookedUp

\* What a reaction leaves of the promises.
LEMMA CollectedEither ==
  ASSUME NEW results, NEW snapshots, NEW p \in Promises
  PROVE  \/ Collected(results, snapshots)[p] = promises[p]
         \/ Collected(results, snapshots)[p].state = "free"
BY DEF Collected

---------------------------------------------------------------------------
(* Every step keeps the invariant. *)

LEMMA SinglyInit == Init => OneLookup /\ OnePlace /\ Outstanding /\ TwoAtMost
<1> SUFFICES ASSUME Init PROVE OneLookup /\ OnePlace /\ Outstanding /\ TwoAtMost
  OBVIOUS
<1>1. OneLookup /\ LookedUp = {}
  BY DEF Init, OneLookup, LookedUp
<1>2. OnePlace
  BY <1>1, None DEF Init, OnePlace
<1>3. Outstanding
  BY <1>1, None DEF Init, Outstanding
<1>4. TwoAtMost
  BY None DEF Init, TwoAtMost
<1> QED
  BY <1>1, <1>2, <1>3, <1>4

\* A step that moves txs between the queues and the lookup, and logs nothing.
LEMMA OutstandingKept ==
  ASSUME Outstanding, UNCHANGED <<chain, reports>>,
         ToSet(sentTxs') \cup ToSet(pendingTxs') \cup LookedUp'
           = ToSet(sentTxs) \cup ToSet(pendingTxs) \cup LookedUp
  PROVE  Outstanding'
BY DEF Outstanding, ToSet

LEMMA TakenLength ==
  ASSUME NEW T, NEW s \in Seq(T)
  PROVE  Len(Taken(s)) = (Len(s) + 1) \div 2 /\ Len(Skipped(s)) = Len(s) \div 2
<1>1. PICK n \in Nat : n = Len(s)
  OBVIOUS
<1>2. PICK l, m \in Nat : m = (n + 1) \div 2 /\ l = n \div 2
  OBVIOUS
<1>3. (n - 1 + 2) \div 2 = m /\ (n - 2 + 2) \div 2 = l
  <2>1. n - 1 + 2 = n + 1 /\ n - 2 + 2 = n
    OBVIOUS
  <2> QED
    BY <1>2, <2>1
<1>4. DOMAIN Taken(s) = 1 .. m /\ DOMAIN Skipped(s) = 1 .. l
  BY <1>1, <1>3 DEF Taken, Skipped, EveryOther
<1>5. Taken(s) \in Seq(T) /\ Skipped(s) \in Seq(T)
  BY EveryOtherTyped DEF Taken, Skipped
<1> QED
  BY <1>1, <1>2, <1>4, <1>5, LenProperties

\* A check looks up the only tx that is pending and leaves the others.
LEMMA CheckLooksUp ==
  ASSUME QueuesOK, OneLookup, NEW h \in Handlers, CheckWalletTxs(h), Prompt,
         Len(pendingTxs) <= 2
  PROVE  /\ checks = <<>> /\ LookedUp = {} /\ OneLookup'
         /\ LookedUp' = ToSet(Taken(pendingTxs)) /\ Len(checks') = Len(Taken(pendingTxs))
<1> DEFINE asked == Taken(pendingTxs)
           free  == {p \in Promises : promises[p].state = "free"}
           new   == SubSeq(SetToSeq(free), 1, Len(asked))
           waits == WithoutRejected(txResults) \o new
           none  == [tx |-> CHOOSE t \in Txs : TRUE, state |-> "free"]
<1>1. /\ Len(asked) <= Cardinality(free)
      /\ txResults' = waits
      /\ promises' = [p \in Promises |->
           IF \E k \in DOMAIN new : new[k] = p
           THEN [tx |-> asked[CHOOSE k \in DOMAIN new : new[k] = p], state |-> "inFlight"]
           ELSE IF p \in ToSet(waits) \/ \E k \in DOMAIN checks : p \in ToSet(checks[k])
           THEN promises[p] ELSE none]
      /\ checks' = IF waits = <<>> THEN checks ELSE Append(checks, waits)
  BY DEF CheckWalletTxs
<1>2. checks = <<>> /\ WithoutRejected(txResults) = <<>> /\ LookedUp = {}
  BY Idle DEF CheckWalletTxs, Goto
<1>3. asked \in Seq(Txs) /\ Len(asked) \in Nat /\ Len(asked) <= 1
  <2>1. asked \in Seq(Txs)
    BY EveryOtherTyped DEF QueuesOK, Taken
  <2>2. Len(asked) = (Len(pendingTxs) + 1) \div 2
    BY TakenLength DEF QueuesOK
  <2>3. Len(pendingTxs) \in Nat
    BY DEF QueuesOK
  <2> HIDE DEF asked
  <2>4. PICK n \in Nat : n = Len(pendingTxs)
    BY <2>3
  <2> QED
    BY <2>1, <2>2, <2>4
<1>4. new \in Seq(free) /\ new \in Seq(Promises) /\ Len(new) = Len(asked)
  <2>1. free \in SUBSET Promises
    OBVIOUS
  <2> HIDE DEF free, asked
  <2> QED
    BY <1>1, <1>3, <2>1, NewPromises
<1>5. none.state = "free"
  OBVIOUS
<1> HIDE DEF asked, free, new, none
<1>6. waits = new
  BY <1>2, <1>4, ConcatEmptySeq
<1> HIDE DEF waits
<1>7. CASE Len(asked) = 0
  <2>1. asked = <<>> /\ new = <<>>
    BY <1>3, <1>4, <1>7, Lengths
  <2>2. txResults' = <<>> /\ checks' = <<>>
    BY <1>1, <1>2, <1>6, <2>1
  <2>3. \A p \in Promises : promises'[p].state = "free"
    BY <1>1, <1>2, <1>5, <1>6, <2>1, None
  <2>4. OneLookup' /\ LookedUp' = {}
    BY <2>2, <2>3 DEF OneLookup, LookedUp
  <2> QED
    BY <1>2, <2>1, <2>2, <2>4, None DEF asked
<1>8. CASE Len(asked) = 1
  <2>1. PICK t : asked = <<t>>
    BY <1>3, <1>8, Lengths
  <2>2. PICK q \in Promises : new = <<q>>
    <3>1. new[1] \in Promises
      BY <1>4, <1>8, ElementOfSeq
    <3> QED
      BY <1>4, <1>8, <3>1, Lengths
  <2>3. DOMAIN new = {1} /\ new[1] = q /\ ToSet(new) = {q}
    BY <2>2, Single
  <2>4. txResults' = <<q>> /\ checks' = << <<q>> >>
    BY <1>1, <1>2, <1>6, <2>2
  <2>5. promises'[q] = [tx |-> t, state |-> "inFlight"]
    <3>1. \E k \in DOMAIN new : new[k] = q
      BY <2>3
    <3>2. (CHOOSE k \in DOMAIN new : new[k] = q) = 1
      BY <2>3
    <3> QED
      BY <1>1, <2>1, <3>1, <3>2, Single
  <2>6. \A p \in Promises : p # q => promises'[p].state = "free"
    BY <1>1, <1>2, <1>5, <1>6, <2>3
  <2>7. OneLookup'
    BY <2>4, <2>5, <2>6 DEF OneLookup
  <2>8. LookedUp' = {t}
    BY <2>4, <2>5, Single DEF LookedUp
  <2> QED
    BY <1>2, <1>8, <2>1, <2>4, <2>7, <2>8, Single DEF asked
<1>9. Len(asked) = 0 \/ Len(asked) = 1
  <2>1. PICK n \in Nat : n = Len(asked)
    BY <1>3
  <2>2. n <= 1
    BY <1>3, <2>1
  <2> QED
    BY <2>1, <2>2
<1> QED
  BY <1>7, <1>8, <1>9, Zenon

LEMMA CheckSingly ==
  ASSUME SinglyInv, NEW h \in Handlers, CheckWalletTxs(h), Prompt
  PROVE  OneLookup' /\ OnePlace' /\ Outstanding' /\ TwoAtMost'
<1>1. /\ QueuesOK /\ OneLookup /\ Distinct(sentTxs) /\ Distinct(pendingTxs)
      /\ ToSet(sentTxs) \cap ToSet(pendingTxs) = {}
      /\ Len(sentTxs) + Len(pendingTxs) + Len(checks) <= 2
      /\ sentTxs \in Seq(Txs) /\ pendingTxs \in Seq(Txs) /\ checks \in Seq(Seq(Promises))
  BY DEF SinglyInv, OnePlace, TwoAtMost, QueuesOK
<1>2. /\ sentTxs' = sentTxs /\ pendingTxs' = Skipped(pendingTxs)
      /\ pc[h] = "check" /\ pc' = [pc EXCEPT ![h] = "act"]
      /\ UNCHANGED <<chain, reports>>
  BY DEF CheckWalletTxs, Goto
<1>3. Len(sentTxs) \in Nat /\ Len(pendingTxs) \in Nat /\ Len(checks) \in Nat
  BY <1>1
<1>4. /\ checks = <<>> /\ LookedUp = {} /\ OneLookup'
      /\ LookedUp' = ToSet(Taken(pendingTxs)) /\ Len(checks') = Len(Taken(pendingTxs))
  BY <1>1, <1>3, CheckLooksUp
<1>5. /\ Distinct(Skipped(pendingTxs))
      /\ ToSet(Taken(pendingTxs)) \cup ToSet(Skipped(pendingTxs)) = ToSet(pendingTxs)
      /\ ToSet(Taken(pendingTxs)) \cap ToSet(Skipped(pendingTxs)) = {}
      /\ Len(Taken(pendingTxs)) = (Len(pendingTxs) + 1) \div 2
      /\ Len(Skipped(pendingTxs)) = Len(pendingTxs) \div 2
  BY <1>1, Halves
<1>6. OnePlace'
  <2>1. Distinct(sentTxs') /\ Distinct(pendingTxs')
    BY <1>1, <1>2, <1>5
  <2>2. ToSet(sentTxs') = ToSet(sentTxs) /\ ToSet(pendingTxs') = ToSet(Skipped(pendingTxs))
    BY <1>2
  <2>3. /\ ToSet(sentTxs') \cap ToSet(pendingTxs') = {}
        /\ (ToSet(sentTxs') \cup ToSet(pendingTxs')) \cap LookedUp' = {}
    BY <1>1, <1>4, <1>5, <2>2
  <2> QED
    BY <2>1, <2>3 DEF OnePlace, Distinct, ToSet
<1>7. Outstanding'
  <2>1. ToSet(sentTxs') \cup ToSet(pendingTxs') \cup LookedUp'
          = ToSet(sentTxs) \cup ToSet(pendingTxs) \cup LookedUp
    BY <1>2, <1>4, <1>5
  <2> QED
    BY <1>2, <2>1, OutstandingKept DEF SinglyInv
<1>8. TwoAtMost'
  <2>1. PICK n \in Nat : n = Len(pendingTxs)
    BY <1>3
  <2>2. Len(sentTxs) + Len(pendingTxs') + Len(checks') <= 2
    BY <1>1, <1>2, <1>3, <1>4, <1>5, <2>1, None
  <2>3. \A g \in Handlers : pc[g] = "move" => pc'[g] = "move"
    BY <1>2 DEF SinglyInv, CountsOK
  <2> QED
    BY <1>2, <2>2, <2>3 DEF SinglyInv, TwoAtMost
<1> QED
  BY <1>4, <1>6, <1>7, <1>8

\* A wallet that is idle sends one tx.
LEMMA SendSingly ==
  ASSUME SinglyInv, NEW h \in Handlers, SendTxs(h), Prompt, Gated, MaxPerBlock = 1, AtMostTwo
  PROVE  OneLookup' /\ OnePlace' /\ Outstanding' /\ TwoAtMost'
<1>1. /\ QueuesOK /\ OneLookup /\ Distinct(sentTxs) /\ sentTxs \in Seq(Txs)
  BY DEF SinglyInv, OnePlace, QueuesOK
<1>2. /\ Answered /\ Quiet /\ pendingTxs = <<>> /\ pendingTxs' = pendingTxs
      /\ pc[h] = "act" /\ pc' = [pc EXCEPT ![h] = "move"]
      /\ UNCHANGED <<txResults, promises, checks, reports>>
  BY DEF SendTxs, Goto
<1>3. PICK S \in SUBSET Unsent : /\ Cardinality(S) \in 1 .. MaxPerBlock
                                 /\ sentTxs' = sentTxs \o SetToSeq(S)
                                 /\ chain' = [t \in Txs |-> IF t \in S THEN "mempool" ELSE chain[t]]
  BY DEF SendTxs
<1>4. IsFiniteSet(S) /\ Cardinality(S) = 1
  <2>1. S \in SUBSET Txs
    BY DEF Unsent
  <2> QED
    BY <1>3, <2>1, Numbers, FS_Subset
<1>5. PICK t : S = {t}
  BY <1>4, FS_Singleton
<1>6. t \in Txs /\ chain[t] = "unsent"
  BY <1>5 DEF Unsent
<1>7. SetToSeq(S) = <<t>>
  <2>1. SetToSeq(S) \in [1 .. 1 -> {t}]
    BY <1>4, <1>5, Listing
  <2>2. PICK s : s = SetToSeq(S)
    OBVIOUS
  <2>3. s \in [1 .. 1 -> {t}] /\ s \in Seq({t})
    BY <2>1, <2>2, SeqDef
  <2>4. Len(s) = 1 /\ s[1] = t
    BY <2>3, LenProperties
  <2>5. \A T : \A u \in Seq(T) : Len(u) = 1 => u = <<u[1]>>
    BY Lengths
  <2>6. s = <<s[1]>>
    BY <2>3, <2>4, <2>5
  <2> QED
    BY <2>2, <2>4, <2>6
<1>8. checks = <<>> /\ LookedUp = {} /\ OneLookup' /\ LookedUp' = {}
  BY <1>1, <1>2, Idle, LookupFrame
<1>9. t \notin ToSet(sentTxs) /\ reports[t] = 0
  BY <1>6 DEF SinglyInv, Outstanding
<1>10. /\ Distinct(sentTxs') /\ ToSet(sentTxs') = ToSet(sentTxs) \cup {t}
       /\ Len(sentTxs') = Len(sentTxs) + 1
  <2>1. <<t>> \in Seq(Txs)
    BY <1>6
  <2> QED
    <3>1. sentTxs' = sentTxs \o <<t>> /\ ToSet(sentTxs) \cap ToSet(<<t>>) = {}
      BY <1>3, <1>7, <1>9, Single
    <3>2. Distinct(<<t>>) /\ ToSet(<<t>>) = {t} /\ Len(<<t>>) = 1
      BY Single
    <3>3. /\ Distinct(sentTxs \o <<t>>) /\ ToSet(sentTxs \o <<t>>) = ToSet(sentTxs) \cup ToSet(<<t>>)
          /\ Len(sentTxs \o <<t>>) = Len(sentTxs) + Len(<<t>>)
      BY <1>1, <2>1, <3>1, <3>2, Joined
    <3> QED
      BY <3>1, <3>2, <3>3
<1>11. ToSet(pendingTxs') = {} /\ Distinct(pendingTxs') /\ Len(pendingTxs') = 0 /\ Len(checks') = 0
  BY <1>2, <1>8, None
<1>12. OnePlace'
  <2>1. /\ ToSet(sentTxs') \cap ToSet(pendingTxs') = {}
        /\ (ToSet(sentTxs') \cup ToSet(pendingTxs')) \cap LookedUp' = {}
    BY <1>8, <1>11
  <2> QED
    BY <1>10, <1>11, <2>1 DEF OnePlace, Distinct, ToSet
<1>13. Outstanding'
  <2>1. ToSet(pendingTxs) = {}
    BY <1>2, None
  <2>2. ToSet(sentTxs') \cup ToSet(pendingTxs') \cup LookedUp' = ToSet(sentTxs) \cup {t}
    BY <1>8, <1>10, <1>11
  <2>3. \A u \in Txs : u \in ToSet(sentTxs) <=> chain[u] # "unsent" /\ reports[u] = 0
    BY <1>8, <2>1 DEF SinglyInv, Outstanding
  <2>4. \A u \in Txs : chain'[u] = IF u = t THEN "mempool" ELSE chain[u]
    BY <1>3, <1>5
  <2>5. \A u \in Txs : reports'[u] = reports[u]
    BY <1>2
  <2>6. \A u \in Txs : reports[u] = 0 \/ (reports[u] = 1 /\ chain[u] # "unsent")
    BY DEF SinglyInv, Outstanding
  <2>7. ASSUME NEW u \in Txs
        PROVE  /\ u \in ToSet(sentTxs') \cup ToSet(pendingTxs') \cup LookedUp'
                    <=> chain'[u] # "unsent" /\ reports'[u] = 0
               /\ reports'[u] = 0 \/ (reports'[u] = 1 /\ chain'[u] # "unsent")
    <3>1. CASE u = t
      BY <1>9, <2>2, <2>4, <2>5, <3>1
    <3>2. CASE u # t
      BY <2>2, <2>3, <2>4, <2>5, <2>6, <3>2
    <3> QED
      BY <3>1, <3>2
  <2> QED
    BY <2>7 DEF Outstanding, ToSet
<1>14. TwoAtMost'
  <2>1. Len(sentTxs) \in Nat /\ Len(sentTxs) <= 2
    <3>1. Len(sentTxs) \in Nat /\ Len(pendingTxs) = 0 /\ Len(checks) = 0
      BY <1>1, <1>2, <1>8
    <3> QED
      BY <3>1 DEF SinglyInv, TwoAtMost
  <2>2. Len(sentTxs) # 2
    <3> SUFFICES ASSUME Len(sentTxs) = 2 PROVE FALSE
      OBVIOUS
    <3>1. PICK f, g \in Handlers : f # g /\ pc[f] = "move" /\ pc[g] = "move"
      BY DEF SinglyInv, TwoAtMost
    <3> QED
      BY <1>2, <3>1 DEF AtMostTwo
  <2>3. pc'[h] = "move" /\ \A g \in Handlers : pc[g] = "move" => pc'[g] = "move" /\ g # h
    BY <1>2 DEF SinglyInv, CountsOK
  <2>4. Len(sentTxs') + Len(pendingTxs') + Len(checks') <= 2
    <3>1. PICK n \in Nat : n = Len(sentTxs)
      BY <2>1
    <3>2. Len(sentTxs') = n + 1 /\ n <= 1
      BY <1>10, <2>1, <2>2, <3>1
    <3> QED
      BY <1>11, <3>2
  <2>5. ASSUME Len(sentTxs') = 2 PROVE \E f, g \in Handlers : f # g /\ pc'[f] = "move" /\ pc'[g] = "move"
    <3>1. sentTxs # <<>>
      BY <1>10, <2>1, <2>5, None
    <3> QED
      BY <2>3, <3>1 DEF SinglyInv, TwoAtMost
  <2> QED
    BY <2>3, <2>4, <2>5 DEF TwoAtMost
<1> QED
  BY <1>8, <1>12, <1>13, <1>14

\* What was sent joins what is pending.
LEMMA MoveSingly ==
  ASSUME SinglyInv, NEW h \in Handlers, MoveSentToPending(h)
  PROVE  OneLookup' /\ OnePlace' /\ Outstanding' /\ TwoAtMost'
<1>1. /\ QueuesOK /\ OneLookup /\ Distinct(sentTxs) /\ Distinct(pendingTxs)
      /\ ToSet(sentTxs) \cap ToSet(pendingTxs) = {}
      /\ (ToSet(sentTxs) \cup ToSet(pendingTxs)) \cap LookedUp = {}
      /\ sentTxs \in Seq(Txs) /\ pendingTxs \in Seq(Txs) /\ checks \in Seq(Seq(Promises))
  BY DEF SinglyInv, OnePlace, QueuesOK
<1>2. /\ pendingTxs' = pendingTxs \o Taken(sentTxs) /\ sentTxs' = Skipped(sentTxs)
      /\ pc[h] = "move" /\ pc' = [pc EXCEPT ![h] = "check"]
      /\ UNCHANGED <<txResults, promises, checks, chain, reports>>
  BY DEF MoveSentToPending, Goto
<1>3. /\ Distinct(Taken(sentTxs)) /\ Distinct(Skipped(sentTxs))
      /\ ToSet(Taken(sentTxs)) \cup ToSet(Skipped(sentTxs)) = ToSet(sentTxs)
      /\ ToSet(Taken(sentTxs)) \cap ToSet(Skipped(sentTxs)) = {}
      /\ Len(Taken(sentTxs)) = (Len(sentTxs) + 1) \div 2
      /\ Len(Skipped(sentTxs)) = Len(sentTxs) \div 2
  BY <1>1, Halves
<1>4. /\ Distinct(pendingTxs') /\ ToSet(pendingTxs') = ToSet(pendingTxs) \cup ToSet(Taken(sentTxs))
      /\ Len(pendingTxs') = Len(pendingTxs) + Len(Taken(sentTxs))
  <2>1. Taken(sentTxs) \in Seq(Txs)
    BY <1>1, EveryOtherTyped DEF Taken
  <2>2. ToSet(pendingTxs) \cap ToSet(Taken(sentTxs)) = {}
    BY <1>1, <1>3
  <2> QED
    BY <1>1, <1>2, <1>3, <2>1, <2>2, Joined
<1>5. OneLookup' /\ LookedUp' = LookedUp
  BY <1>1, <1>2, LookupFrame
<1>6. ToSet(sentTxs') = ToSet(Skipped(sentTxs)) /\ Distinct(sentTxs')
  BY <1>2, <1>3
<1>7. OnePlace'
  <2>1. /\ ToSet(sentTxs') \cap ToSet(pendingTxs') = {}
        /\ (ToSet(sentTxs') \cup ToSet(pendingTxs')) \cap LookedUp' = {}
    BY <1>1, <1>3, <1>4, <1>5, <1>6
  <2> QED
    BY <1>4, <1>6, <2>1 DEF OnePlace, Distinct, ToSet
<1>8. Outstanding'
  <2>1. ToSet(sentTxs') \cup ToSet(pendingTxs') \cup LookedUp'
          = ToSet(sentTxs) \cup ToSet(pendingTxs) \cup LookedUp
    BY <1>3, <1>4, <1>5, <1>6
  <2> QED
    BY <1>2, <2>1, OutstandingKept DEF SinglyInv
<1>9. TwoAtMost'
  <2>1. PICK n, m, c \in Nat : n = Len(sentTxs) /\ m = Len(pendingTxs) /\ c = Len(checks)
    BY <1>1
  <2>2. n + m + c <= 2
    BY <2>1 DEF SinglyInv, TwoAtMost
  <2>3. /\ Len(sentTxs') = n \div 2 /\ Len(pendingTxs') = m + (n + 1) \div 2 /\ Len(checks') = c
    BY <1>2, <1>3, <1>4, <2>1
  <2>4. Len(sentTxs') + Len(pendingTxs') + Len(checks') <= 2 /\ Len(sentTxs') # 2
    BY <2>2, <2>3
  <2>5. ASSUME sentTxs' # <<>> PROVE \E g \in Handlers : pc'[g] = "move"
    <3>1. Len(sentTxs') # 0
      <4>1. sentTxs' \in Seq(Txs)
        BY <1>1, <1>2, EveryOtherTyped DEF Skipped
      <4> QED
        BY <2>5, <4>1, Lengths
    <3>2. n = 2
      BY <2>2, <2>3, <3>1
    <3>3. PICK f, g \in Handlers : f # g /\ pc[f] = "move" /\ pc[g] = "move"
      BY <2>1, <3>2 DEF SinglyInv, TwoAtMost
    <3>4. \A k \in Handlers : pc'[k] = IF k = h THEN "check" ELSE pc[k]
      BY <1>2 DEF SinglyInv, CountsOK
    <3> QED
      BY <3>3, <3>4
  <2> QED
    BY <2>4, <2>5 DEF TwoAtMost
<1> QED
  BY <1>5, <1>7, <1>8, <1>9

\* A step that leaves the queues and the lookup alone.
LEMMA SinglyFrame ==
  ASSUME SinglyInv, UNCHANGED <<sentTxs, pendingTxs, txResults, promises, checks, reports>>,
         \A h \in Handlers : pc[h] = "move" => pc'[h] = "move",
         \A t \in Txs : (chain'[t] = "unsent") = (chain[t] = "unsent")
  PROVE  OneLookup' /\ OnePlace' /\ Outstanding' /\ TwoAtMost'
<1>1. OneLookup' /\ LookedUp' = LookedUp
  BY LookupFrame DEF SinglyInv
<1>2. OnePlace'
  BY <1>1 DEF SinglyInv, OnePlace
<1>3. Outstanding'
  <2>1. ASSUME NEW t \in Txs
        PROVE  /\ t \in ToSet(sentTxs) \cup ToSet(pendingTxs) \cup LookedUp
                    <=> chain'[t] # "unsent" /\ reports[t] = 0
               /\ reports[t] = 0 \/ (reports[t] = 1 /\ chain'[t] # "unsent")
    BY DEF SinglyInv, Outstanding
  <2> QED
    BY <1>1, <2>1 DEF Outstanding
<1>4. TwoAtMost'
  BY DEF SinglyInv, TwoAtMost
<1> QED
  BY <1>1, <1>2, <1>3, <1>4

\* The node answers the one query.
LEMMA AnswerSingly ==
  ASSUME SinglyInv, NEW p \in Promises, NEW how \in Answers, Answer(p, how), "error" \notin Answers
  PROVE  OneLookup' /\ OnePlace' /\ Outstanding' /\ TwoAtMost'
<1>1. /\ promises[p].state = "inFlight" /\ promises' = [promises EXCEPT ![p].state = how]
      /\ UNCHANGED <<sentTxs, pendingTxs, txResults, checks, pc, chain, reports>>
  BY DEF Answer, queueVars
<1>2. how \in {"found", "notFound"}
  BY QueueAssumption
<1>3. checks = << <<p>> >> /\ checks # <<>> /\ promises \in [Promises -> PromiseRecords]
  <2>1. checks = << <<p>> >>
    BY <1>1 DEF SinglyInv, OneLookup
  <2>2. checks # <<>>
    BY <2>1
  <2> QED
    BY <2>1, <2>2 DEF SinglyInv, QueuesOK
<1>4. txResults = <<p>>
  <2>1. PICK q \in Promises : txResults = <<q>> /\ checks = << <<q>> >>
    BY <1>3 DEF SinglyInv, OneLookup
  <2>2. checks[1][1] = q /\ checks[1][1] = p
    BY <1>3, <2>1
  <2> QED
    BY <2>1, <2>2
<1>5. /\ promises'[p].state = how /\ promises'[p].tx = promises[p].tx
      /\ \A q \in Promises : q # p => promises'[q] = promises[q]
  BY <1>1, <1>3 DEF PromiseRecords
<1>6. \A q \in Promises : promises[q].state = "inFlight" => checks = << <<q>> >>
  BY DEF SinglyInv, OneLookup
<1>7. OneLookup'
  <2>1. \A q \in Promises : promises'[q].state = "inFlight" => checks' = << <<q>> >>
    BY <1>1, <1>2, <1>5, <1>6
  <2>2. \E q \in Promises :
          /\ txResults' = <<q>> /\ checks' = << <<q>> >>
          /\ promises'[q].state \in {"inFlight", "found", "notFound"}
    BY <1>1, <1>2, <1>3, <1>4, <1>5
  <2> QED
    BY <2>1, <2>2 DEF OneLookup
<1>8. LookedUp' = LookedUp
  BY <1>1, <1>4, <1>5, Single DEF LookedUp
<1>9. OnePlace'
  BY <1>1, <1>8 DEF SinglyInv, OnePlace
<1>10. Outstanding'
  BY <1>1, <1>8 DEF SinglyInv, Outstanding
<1>11. TwoAtMost'
  BY <1>1 DEF SinglyInv, TwoAtMost
<1> QED
  BY <1>7, <1>9, <1>10, <1>11

\* The reaction that runs is that of the one check.
LEMMA OneReaction ==
  ASSUME SinglyInv, ~Quiet
  PROVE  \E p \in Promises :
           /\ txResults = <<p>> /\ checks = << <<p>> >> /\ NextReaction = 1
           /\ promises[p].state \in {"found", "notFound"}
           /\ LookedUp = {promises[p].tx} /\ promises[p].tx \in Txs
           /\ chain[promises[p].tx] # "unsent" /\ reports[promises[p].tx] = 0
           /\ promises[p].tx \notin ToSet(sentTxs) \cup ToSet(pendingTxs)
           /\ \A q \in Promises : promises[q].state # "inFlight"
<1>1. checks \in Seq(Seq(Promises)) /\ promises \in [Promises -> PromiseRecords]
  BY DEF SinglyInv, QueuesOK
<1>2. NextReaction \in 1 .. Len(checks) /\ Decided(checks[NextReaction])
  BY <1>1, NextReactionDecided
<1>3. checks # <<>>
  BY <1>2, None
<1>4. PICK p \in Promises : /\ txResults = <<p>> /\ checks = << <<p>> >>
                            /\ promises[p].state \in {"inFlight", "found", "notFound"}
  BY <1>3 DEF SinglyInv, OneLookup
<1>5. NextReaction = 1
  <2>1. Len(checks) = 1
    BY <1>4, Single
  <2> QED
    BY <1>2, <2>1
<1>6. promises[p].state \in {"found", "notFound"}
  <2>1. ToSet(checks[1]) = {p}
    BY <1>4, Single
  <2> QED
    BY <1>2, <1>4, <1>5, <2>1 DEF Decided, Rejected
<1>7. LookedUp = {promises[p].tx} /\ promises[p].tx \in Txs
  BY <1>1, <1>3, <1>4, Single DEF LookedUp, PromiseRecords
<1>8. /\ chain[promises[p].tx] # "unsent" /\ reports[promises[p].tx] = 0
      /\ promises[p].tx \notin ToSet(sentTxs) \cup ToSet(pendingTxs)
  BY <1>7 DEF SinglyInv, Outstanding, OnePlace
<1>9. ASSUME NEW q \in Promises, promises[q].state = "inFlight" PROVE FALSE
  <2>1. checks = << <<q>> >>
    BY <1>9 DEF SinglyInv, OneLookup
  <2>2. checks[1][1] = q /\ checks[1][1] = p
    BY <1>4, <2>1
  <2> QED
    BY <1>6, <1>9, <2>2
<1> QED
  BY <1>4, <1>5, <1>6, <1>7, <1>8, <1>9

\* A tx that was not found is pending again.
LEMMA RejectedSingly ==
  ASSUME SinglyInv, OnRejected
  PROVE  OneLookup' /\ OnePlace' /\ Outstanding' /\ TwoAtMost'
<1> DEFINE snapshot == checks[NextReaction]
           first == promises[snapshot[SelectInSeq(snapshot, Rejected)]]
<1>1. /\ ~Quiet /\ \E p \in ToSet(snapshot) : Rejected(p)
      /\ pendingTxs' = IF first.state = "notFound" THEN Append(pendingTxs, first.tx) ELSE pendingTxs
      /\ checks' = RemoveAt(checks, NextReaction)
      /\ promises' = Collected(txResults, checks')
      /\ UNCHANGED <<sentTxs, txResults, pc, chain, reports>>
  BY DEF OnRejected
<1>2. PICK p \in Promises :
           /\ txResults = <<p>> /\ checks = << <<p>> >> /\ NextReaction = 1
           /\ promises[p].state \in {"found", "notFound"}
           /\ LookedUp = {promises[p].tx} /\ promises[p].tx \in Txs
           /\ chain[promises[p].tx] # "unsent" /\ reports[promises[p].tx] = 0
           /\ promises[p].tx \notin ToSet(sentTxs) \cup ToSet(pendingTxs)
           /\ \A q \in Promises : promises[q].state # "inFlight"
  BY <1>1, OneReaction
<1>3. snapshot = <<p>> /\ snapshot \in Seq(Promises)
  BY <1>2, Single
<1>4. promises[p].state = "notFound"
  BY <1>1, <1>2, <1>3, Single DEF Rejected
<1>5. first = promises[p]
  <2>1. SelectInSeq(<<p>>, Rejected) \in 1 .. 1
    BY <1>1, <1>3, FirstRejected, Single
  <2>2. snapshot[SelectInSeq(snapshot, Rejected)] = p
    BY <1>3, <2>1, Single
  <2> QED
    BY <2>2
<1> HIDE DEF snapshot, first
<1>6. PICK t \in Txs : t = promises[p].tx
  BY <1>2
<1>7. pendingTxs' = pendingTxs \o <<t>>
  <2>1. pendingTxs \in Seq(Txs)
    BY DEF SinglyInv, QueuesOK
  <2> QED
    BY <1>1, <1>4, <1>5, <1>6, <2>1, AppendIsConcat
<1>8. checks' = <<>>
  BY <1>1, <1>2, RemovedOnly
<1>9. /\ Distinct(pendingTxs') /\ ToSet(pendingTxs') = ToSet(pendingTxs) \cup {t}
      /\ Len(pendingTxs') = Len(pendingTxs) + 1
  <2>1. pendingTxs \in Seq(Txs) /\ <<t>> \in Seq(Txs) /\ Distinct(pendingTxs)
    BY DEF SinglyInv, QueuesOK, OnePlace
  <2>2. Distinct(<<t>>) /\ ToSet(<<t>>) = {t} /\ Len(<<t>>) = 1
    BY Single
  <2>3. ToSet(pendingTxs) \cap ToSet(<<t>>) = {}
    BY <1>2, <1>6, <2>2
  <2>4. /\ Distinct(pendingTxs \o <<t>>)
        /\ ToSet(pendingTxs \o <<t>>) = ToSet(pendingTxs) \cup ToSet(<<t>>)
        /\ Len(pendingTxs \o <<t>>) = Len(pendingTxs) + Len(<<t>>)
    BY <2>1, <2>2, <2>3, Joined
  <2> QED
    BY <1>7, <2>2, <2>4
<1>10. LookedUp' = {}
  BY <1>8 DEF LookedUp
<1>11. OneLookup'
  <2>1. promises'[p] = promises[p]
    BY <1>1, <1>2, CollectedTyped, Single DEF SinglyInv, QueuesOK
  <2>2. \A q \in Promises : promises'[q].state # "inFlight"
    BY <1>1, <1>2, CollectedEither
  <2> QED
    BY <1>1, <1>2, <1>4, <1>8, <2>1, <2>2 DEF OneLookup
<1>12. OnePlace'
  <2>1. Distinct(sentTxs) /\ ToSet(sentTxs) \cap ToSet(pendingTxs) = {} /\ sentTxs' = sentTxs
    BY <1>1 DEF SinglyInv, OnePlace
  <2>2. ToSet(sentTxs') \cap ToSet(pendingTxs') = {}
    BY <1>2, <1>6, <1>9, <2>1
  <2> QED
    BY <1>9, <1>10, <2>1, <2>2 DEF OnePlace, Distinct, ToSet
<1>13. Outstanding'
  <2>1. ToSet(sentTxs') \cup ToSet(pendingTxs') \cup LookedUp'
          = ToSet(sentTxs) \cup ToSet(pendingTxs) \cup LookedUp
    BY <1>1, <1>2, <1>6, <1>9, <1>10
  <2> QED
    BY <1>1, <2>1, OutstandingKept DEF SinglyInv
<1>14. TwoAtMost'
  <2>1. PICK n, m \in Nat : n = Len(sentTxs) /\ m = Len(pendingTxs)
    BY DEF SinglyInv, QueuesOK
  <2>2. n + m + 1 <= 2
    BY <1>2, <2>1, Single DEF SinglyInv, TwoAtMost
  <2>3. Len(sentTxs') = n /\ Len(pendingTxs') = m + 1 /\ Len(checks') = 0
    BY <1>1, <1>8, <1>9, <2>1, None
  <2>4. Len(sentTxs') + Len(pendingTxs') + Len(checks') <= 2
    BY <2>2, <2>3
  <2> QED
    BY <1>1, <2>4 DEF SinglyInv, TwoAtMost
<1> QED
  BY <1>11, <1>12, <1>13, <1>14

\* A tx that was found is logged, and the queue is empty.
LEMMA FulfilledSingly ==
  ASSUME SinglyInv, OnFulfilled
  PROVE  OneLookup' /\ OnePlace' /\ Outstanding' /\ TwoAtMost'
<1> DEFINE snapshot == checks[NextReaction]
           Logged(t) == Cardinality({k \in DOMAIN snapshot : promises[snapshot[k]].tx = t})
           Cap(n) == IF n > 2 THEN 2 ELSE n
<1>1. /\ ~Quiet /\ \A p \in ToSet(snapshot) : ~Rejected(p)
      /\ reports' = [t \in Txs |-> Cap(reports[t] + Logged(t))]
      /\ txResults' = WithoutReported(txResults, Len(snapshot))
      /\ checks' = RemoveAt(checks, NextReaction)
      /\ promises' = Collected(txResults', checks')
      /\ UNCHANGED <<sentTxs, pendingTxs, pc, chain>>
  BY DEF OnFulfilled
<1>2. PICK p \in Promises :
           /\ txResults = <<p>> /\ checks = << <<p>> >> /\ NextReaction = 1
           /\ promises[p].state \in {"found", "notFound"}
           /\ LookedUp = {promises[p].tx} /\ promises[p].tx \in Txs
           /\ chain[promises[p].tx] # "unsent" /\ reports[promises[p].tx] = 0
           /\ promises[p].tx \notin ToSet(sentTxs) \cup ToSet(pendingTxs)
           /\ \A q \in Promises : promises[q].state # "inFlight"
  BY <1>1, OneReaction
<1>3. snapshot = <<p>>
  BY <1>2, Single
<1> HIDE DEF snapshot
<1>4. PICK t \in Txs : t = promises[p].tx
  BY <1>2
<1>5. Logged(t) = 1 /\ \A u \in Txs : u # t => Logged(u) = 0
  <2>1. {k \in DOMAIN snapshot : promises[snapshot[k]].tx = t} = {1}
    BY <1>3, <1>4, Single
  <2>2. \A u \in Txs : u # t => {k \in DOMAIN snapshot : promises[snapshot[k]].tx = u} = {}
    BY <1>3, <1>4, Single
  <2> QED
    BY <2>1, <2>2, FS_EmptySet, FS_Singleton
<1> HIDE DEF Logged
<1>6. /\ reports'[t] = 1 /\ reports[t] = 0
      /\ \A u \in Txs : u # t => reports'[u] = reports[u]
  <2>1. reports \in [Txs -> 0 .. 2]
    BY DEF SinglyInv, CountsOK
  <2>2. reports[t] = 0
    BY <1>2, <1>4
  <2> QED
    BY <1>1, <1>5, <2>1, <2>2
<1>7. txResults' = <<>>
  <2>1. {k \in DOMAIN <<p>> : k % 2 = 0 \/ k > 2 * 1} = {}
    BY Single
  <2>2. Len(snapshot) = 1
    BY <1>3, Single
  <2>3. WithoutReported(<<p>>, 1) = KeepPositions(<<p>>, {k \in DOMAIN <<p>> : k % 2 = 0 \/ k > 2 * 1})
    BY DEF WithoutReported
  <2> QED
    BY <1>1, <1>2, <2>1, <2>2, <2>3, KeptNone
<1>8. checks' = <<>> /\ LookedUp' = {}
  BY <1>1, <1>2, RemovedOnly DEF LookedUp
<1>9. OneLookup'
  <2>1. \A q \in Promises : promises'[q].state # "inFlight"
    BY <1>1, <1>2, CollectedEither
  <2> QED
    BY <1>7, <1>8, <2>1 DEF OneLookup
<1>10. OnePlace'
  BY <1>1, <1>8 DEF SinglyInv, OnePlace
<1>11. Outstanding'
  <2>1. ToSet(sentTxs) \cup ToSet(pendingTxs) \cup LookedUp
          = ToSet(sentTxs) \cup ToSet(pendingTxs) \cup {t}
    BY <1>2, <1>4
  <2>2. t \notin ToSet(sentTxs) \cup ToSet(pendingTxs) /\ chain[t] # "unsent"
    BY <1>2, <1>4
  <2>3. ASSUME NEW u \in Txs
        PROVE  /\ u \in ToSet(sentTxs) \cup ToSet(pendingTxs) \cup {}
                    <=> chain[u] # "unsent" /\ reports'[u] = 0
               /\ reports'[u] = 0 \/ (reports'[u] = 1 /\ chain[u] # "unsent")
    <3>1. CASE u = t
      BY <1>6, <2>2, <3>1
    <3>2. CASE u # t
      BY <1>6, <2>1, <3>2 DEF SinglyInv, Outstanding
    <3> QED
      BY <3>1, <3>2
  <2> QED
    BY <1>1, <1>8, <2>3 DEF Outstanding
<1>12. TwoAtMost'
  <2>1. PICK n, m \in Nat : n = Len(sentTxs) /\ m = Len(pendingTxs)
    BY DEF SinglyInv, QueuesOK
  <2>2. n + m + 1 <= 2
    BY <1>2, <2>1, Single DEF SinglyInv, TwoAtMost
  <2>3. Len(sentTxs') = n /\ Len(pendingTxs') = m /\ Len(checks') = 0
    BY <1>1, <1>8, <2>1, None
  <2>4. Len(sentTxs') + Len(pendingTxs') + Len(checks') <= 2
    BY <2>2, <2>3
  <2> QED
    BY <1>1, <2>4 DEF SinglyInv, TwoAtMost
<1> QED
  BY <1>9, <1>10, <1>11, <1>12

---------------------------------------------------------------------------
(* What follows for such a wallet. *)

\* It waits, is answered at once, sends one tx in a block; no more than two of its handlers
\* are in progress, and none of them ends early.
Singly ==
  /\ Gated /\ Prompt /\ MaxPerBlock = 1 /\ MaxAborts = 0
  /\ "error" \notin Answers
  /\ AtMostTwo

LEMMA SinglyNext ==
  ASSUME Singly, SinglyInv, [Next]_vars
  PROVE  SinglyInv'
<1>1. QueuesOK' /\ CountsOK'
  BY QueueNext DEF SinglyInv
<1>2. CASE UNCHANGED vars
  <2>1. UNCHANGED <<sentTxs, pendingTxs, txResults, promises, checks, pc, chain, reports>>
    BY <1>2 DEF vars, queueVars
  <2> QED
    BY <1>1, <2>1, SinglyFrame DEF SinglyInv
<1>3. ASSUME NEW h \in Handlers, Handler(h)
      PROVE  SinglyInv'
  <2>1. CASE SendNothing(h)
    <3>1. /\ pc[h] = "act" /\ pc' = [pc EXCEPT ![h] = "move"]
          /\ UNCHANGED <<sentTxs, pendingTxs, txResults, promises, checks, chain, reports>>
      BY <2>1 DEF SendNothing, Goto, queueVars
    <3>2. \A g \in Handlers : pc[g] = "move" => pc'[g] = "move"
      BY <3>1 DEF SinglyInv, CountsOK
    <3> QED
      BY <1>1, <3>1, <3>2, SinglyFrame DEF SinglyInv
  <2> QED
    BY <1>1, <1>3, <2>1, CheckSingly, SendSingly, MoveSingly DEF Handler, Singly, SinglyInv
<1>4. ASSUME NEW h \in Handlers, Abort(h)
      PROVE  FALSE
  BY <1>4 DEF Abort, Singly, SinglyInv, CountsOK
<1>5. ASSUME NEW t \in Txs, Resolve(t)
      PROVE  SinglyInv'
  <2>1. /\ chain[t] = "mempool" /\ \E fate \in Fates : chain' = [chain EXCEPT ![t] = fate]
        /\ UNCHANGED <<sentTxs, pendingTxs, txResults, promises, checks, pc, reports>>
    BY <1>5 DEF Resolve, queueVars
  <2>2. \A u \in Txs : (chain'[u] = "unsent") = (chain[u] = "unsent")
    BY <2>1, QueueAssumption DEF SinglyInv, CountsOK
  <2> QED
    BY <1>1, <2>1, <2>2, SinglyFrame DEF SinglyInv
<1>6. ASSUME NEW p \in Promises, Node(p)
      PROVE  SinglyInv'
  BY <1>1, <1>6, AnswerSingly DEF Node, Singly, SinglyInv
<1>7. CASE OnRejected
  BY <1>1, <1>7, RejectedSingly DEF SinglyInv
<1>8. CASE OnFulfilled
  BY <1>1, <1>8, FulfilledSingly DEF SinglyInv
<1> QED
  BY <1>2, <1>3, <1>4, <1>5, <1>6, <1>7, <1>8 DEF Next

LEMMA SinglyAlways == Singly => (Spec => []SinglyInv)
<1> SUFFICES ASSUME Singly PROVE Spec => []SinglyInv
  OBVIOUS
<1>1. Init => SinglyInv
  BY QueueInit, SinglyInit DEF SinglyInv
<1>2. SinglyInv /\ [Next]_vars => SinglyInv'
  BY SinglyNext
<1> QED
  BY <1>1, <1>2, PTL DEF Spec

LEMMA SinglyTracks == SinglyInv => NeverLost /\ ReportedOnce
<1> SUFFICES ASSUME SinglyInv, NEW t \in Txs
             PROVE  (chain[t] # "unsent" => Tracked(t) \/ reports[t] > 0) /\ reports[t] < 2
  BY DEF NeverLost, ReportedOnce
<1>1. /\ t \in ToSet(sentTxs) \cup ToSet(pendingTxs) \cup LookedUp
           <=> chain[t] # "unsent" /\ reports[t] = 0
      /\ reports[t] = 0 \/ reports[t] = 1
  BY DEF SinglyInv, Outstanding
<1>2. ASSUME t \in LookedUp
      PROVE  \E p \in Waiting : promises[p].tx = t
  <2>1. checks # <<>>
    BY <1>2 DEF LookedUp
  <2>2. PICK p \in Promises : txResults = <<p>> /\ checks = << <<p>> >>
    BY <2>1 DEF SinglyInv, OneLookup
  <2>3. promises[p].tx = t
    BY <1>2, <2>1, <2>2, Single DEF LookedUp
  <2>4. 1 \in DOMAIN checks /\ p \in ToSet(checks[1])
    BY <2>2, Single
  <2> QED
    BY <2>3, <2>4 DEF Waiting
<1> QED
  BY <1>1, <1>2 DEF Tracked

\* No tx of such a wallet is forgotten between its broadcast and its result, though two block
\* handlers splice the same queues and every lookup may fail any number of times
\* (checkWalletTxs, moveSentToPending).
THEOREM QueueNeverLost == Singly => (Spec => []NeverLost)
<1> SUFFICES ASSUME Singly PROVE Spec => []NeverLost
  OBVIOUS
<1>1. Spec => []SinglyInv
  BY SinglyAlways
<1> QED
  BY <1>1, SinglyTracks, PTL

\* Nor is its result logged a second time by the other handler, or in a later block.
THEOREM QueueReportedOnce == Singly => (Spec => []ReportedOnce)
<1> SUFFICES ASSUME Singly PROVE Spec => []ReportedOnce
  OBVIOUS
<1>1. Spec => []SinglyInv
  BY SinglyAlways
<1> QED
  BY <1>1, SinglyTracks, PTL
=============================================================================
