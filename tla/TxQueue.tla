------------------------------ MODULE TxQueue ------------------------------
(***************************************************************************)
(* The three queues that follow a wallet's transactions from broadcast to  *)
(* result: sentTxs, pendingTxs and txResults (wallet/wallet.mjs), and the  *)
(* three steps of a block handler that work on them: checkWalletTxs, the   *)
(* sends, moveSentToPending (tx/tx_factory.mjs, runner/actions.mjs).       *)
(*                                                                         *)
(* The loops splice the array they walk, so each removal makes them skip   *)
(* the next element.  txResults holds promises; each checkWalletTxs leaves *)
(* a Promise.all over them behind, whose then or catch runs as soon as it  *)
(* is decided, before any other callback.                                  *)
(***************************************************************************)
EXTENDS Integers, Sequences, FiniteSets, SequencesExt

CONSTANTS
  Txs,          \* tx hashes
  Handlers,     \* block handlers that may be in progress at once
  Gated,        \* the wallet waits for an empty pendingTxs (test, BEACON, WrkChain wallets)
  Prompt,       \* the node answers getTx before the wallet acts and before the next block
  Answers,      \* how getTx may end: "found", "notFound", "error"
  Fates,        \* what becomes of a tx: "indexed", "dropped"
  MaxPerBlock,  \* bound: txs a handler sends for the wallet
  MaxPromises,  \* bound: getTx promises in use
  MaxChecks,    \* bound: undecided Promise.alls
  MaxAborts     \* bound: handlers that end early

ASSUME QueueAssumption ==
  /\ Txs # {} /\ IsFiniteSet(Txs)
  /\ Gated \in BOOLEAN /\ Prompt \in BOOLEAN
  /\ Answers \subseteq {"found", "notFound", "error"}
  /\ Fates \subseteq {"indexed", "dropped"}
  /\ {MaxPerBlock, MaxPromises, MaxChecks, MaxAborts} \subseteq Nat

VARIABLES
  sentTxs, pendingTxs,   \* Wallet.#sentTxs, #pendingTxs: sequences of hashes
  txResults,             \* Wallet.#txResults: a sequence of promises
  promises,              \* each promise: whose getTx it is and how it stands
  checks,                \* undecided Promise.alls, oldest first: the promises of each
  pc,                    \* the step each block handler takes next
  chain,                 \* each tx: "unsent", "mempool", "indexed", "dropped"
  reports,               \* history: how often each tx's result was logged (capped at 2)
  aborts                 \* handlers that ended early so far

queueVars == <<sentTxs, pendingTxs, txResults>>
vars == <<queueVars, promises, checks, pc, chain, reports, aborts>>

---------------------------------------------------------------------------

Promises == 1 .. MaxPromises
PromiseStates == {"free", "inFlight", "found", "notFound", "error"}

\* The elements at positions first, first + 2, ...
EveryOther(s, first) ==
  [i \in 1 .. (Len(s) - first + 2) \div 2 |-> s[2 * i - 2 + first]]

\* A loop that splices out the element it is at, unconditionally, takes every other one.
Taken(s) == EveryOther(s, 1)
Skipped(s) == EveryOther(s, 2)

\* The elements of s at the positions in K.
KeepPositions(s, K) ==
  [i \in 1 .. Cardinality(K) |-> s[CHOOSE k \in K : Cardinality({j \in K : j <= k}) = i]]

Rejected(p) == promises[p].state \in {"notFound", "error"}

\* The clean loop: a rejected promise goes unless the one before it just went.
WithoutRejected(s) ==
  LET gone[k \in 0 .. Len(s)] == k > 0 /\ Rejected(s[k]) /\ ~gone[k - 1]
  IN  KeepPositions(s, {k \in DOMAIN s : ~gone[k]})

\* Mutant: what was logged stays in the queue.
WithoutReportedNone(s, n) == s

\* removeTxResult(0), ..., removeTxResult(n - 1), one after the other.
WithoutReported(s, n) == KeepPositions(s, {k \in DOMAIN s : k % 2 = 0 \/ k > 2 * n})

\* Promise.all is decided by its first rejection, or when all of it is fulfilled.
Decided(snapshot) ==
  \/ \E p \in ToSet(snapshot) : Rejected(p)
  \/ \A p \in ToSet(snapshot) : promises[p].state = "found"

\* No reaction is waiting: the event loop may take the next callback.
Quiet == \A k \in DOMAIN checks : ~Decided(checks[k])

Answered == \A p \in Promises : promises[p].state # "inFlight"

Unsent == {t \in Txs : chain[t] = "unsent"}

\* Promises nothing refers to any more.
Collected(results, snapshots) ==
  LET live == ToSet(results) \cup UNION {ToSet(snapshots[k]) : k \in DOMAIN snapshots}
  IN  [p \in Promises |-> IF p \in live THEN promises[p]
                          ELSE [tx |-> CHOOSE t \in Txs : TRUE, state |-> "free"]]

Init ==
  /\ sentTxs = <<>>
  /\ pendingTxs = <<>>
  /\ txResults = <<>>
  /\ promises = [p \in Promises |-> [tx |-> CHOOSE t \in Txs : TRUE, state |-> "free"]]
  /\ checks = <<>>
  /\ pc = [h \in Handlers |-> "check"]
  /\ chain = [t \in Txs |-> "unsent"]
  /\ reports = [t \in Txs |-> 0]
  /\ aborts = 0

---------------------------------------------------------------------------
(* The steps of a block handler. *)

Goto(h, from, to) ==
  /\ Quiet
  /\ pc[h] = from
  /\ pc' = [pc EXCEPT ![h] = to]

\* checkWalletTxs(): query the pending txs, clean, and wait for everything that is left.
CheckWalletTxs(h) ==
  LET asked == Taken(pendingTxs)
      free  == {p \in Promises : promises[p].state = "free"}
      new   == SubSeq(SetToSeq(free), 1, Len(asked))
      waits == WithoutRejected(txResults) \o new
  IN  /\ Prompt => Answered
      /\ Len(asked) <= Cardinality(free)
      /\ Len(checks) < MaxChecks
      /\ Goto(h, "check", "act")
      /\ pendingTxs' = Skipped(pendingTxs)
      /\ txResults' = waits
      /\ promises' = [p \in Promises |->
           IF \E k \in DOMAIN new : new[k] = p
           THEN [tx |-> asked[CHOOSE k \in DOMAIN new : new[k] = p], state |-> "inFlight"]
           ELSE IF p \in ToSet(waits) \/ \E k \in DOMAIN checks : p \in ToSet(checks[k])
           THEN promises[p]
           ELSE [tx |-> CHOOSE t \in Txs : TRUE, state |-> "free"]]
      /\ checks' = IF waits = <<>> THEN checks ELSE Append(checks, waits)
      /\ UNCHANGED <<sentTxs, chain, reports, aborts>>

\* Mutant: the idle test is inverted.
SendTxsInverted(h) ==
  /\ Gated => pendingTxs # <<>>
  /\ Goto(h, "act", "move")
  /\ \E S \in SUBSET Unsent :
       /\ Cardinality(S) \in 1 .. MaxPerBlock
       /\ sentTxs' = sentTxs \o SetToSeq(S)
       /\ chain' = [t \in Txs |-> IF t \in S THEN "mempool" ELSE chain[t]]
  /\ UNCHANGED <<pendingTxs, txResults, promises, checks, reports, aborts>>

\* The actions of the block: some of the wallet's txs reach the mempool (addSentTx).
SendTxs(h) ==
  /\ Prompt => Answered
  /\ Gated => pendingTxs = <<>>
  /\ Goto(h, "act", "move")
  /\ \E S \in SUBSET Unsent :
       /\ Cardinality(S) \in 1 .. MaxPerBlock
       /\ sentTxs' = sentTxs \o SetToSeq(S)
       /\ chain' = [t \in Txs |-> IF t \in S THEN "mempool" ELSE chain[t]]
  /\ UNCHANGED <<pendingTxs, txResults, promises, checks, reports, aborts>>

\* ... or the wallet sends nothing: it is not idle, or picked nothing it can pay for.
SendNothing(h) ==
  /\ Prompt => Answered
  /\ Goto(h, "act", "move")
  /\ UNCHANGED <<queueVars, promises, checks, chain, reports, aborts>>

\* Mutant: the whole queue is emptied, its skipped elements too.
MoveSentToPendingAll(h) ==
  /\ Goto(h, "move", "check")
  /\ pendingTxs' = pendingTxs \o Taken(sentTxs)
  /\ sentTxs' = <<>>
  /\ UNCHANGED <<txResults, promises, checks, chain, reports, aborts>>

\* moveSentToPending()
MoveSentToPending(h) ==
  /\ Goto(h, "move", "check")
  /\ pendingTxs' = pendingTxs \o Taken(sentTxs)
  /\ sentTxs' = Skipped(sentTxs)
  /\ UNCHANGED <<txResults, promises, checks, chain, reports, aborts>>

\* A query between the checks and the last step rejects: the handler ends there, and what
\* it has sent is moved by the next one.
Abort(h) ==
  /\ aborts < MaxAborts
  /\ aborts' = aborts + 1
  /\ \E from \in {"act", "move"} : Goto(h, from, "check")
  /\ UNCHANGED <<queueVars, promises, checks, chain, reports>>

---------------------------------------------------------------------------
(* The chain, and the reactions of the promises. *)

\* The tx is included and indexed, or lost with the mempool it was in.
Resolve(t) ==
  /\ chain[t] = "mempool"
  /\ \E fate \in Fates : chain' = [chain EXCEPT ![t] = fate]
  /\ UNCHANGED <<queueVars, promises, checks, pc, reports, aborts>>

\* The node answers getTx.
Answer(p, how) ==
  /\ Quiet
  /\ promises[p].state = "inFlight"
  /\ how = "found" => chain[promises[p].tx] = "indexed"
  /\ how = "notFound" => chain[promises[p].tx] # "indexed"
  /\ promises' = [promises EXCEPT ![p].state = how]
  /\ UNCHANGED <<queueVars, checks, pc, chain, reports, aborts>>

\* The oldest decided Promise.all, whose reaction runs next.
NextReaction == SelectInSeq(checks, Decided)

\* Mutants: the tx that was not found is forgotten; the promise is queued, not its hash.
OnRejectedForgets ==
  /\ ~Quiet
  /\ \E p \in ToSet(checks[NextReaction]) : Rejected(p)
  /\ checks' = RemoveAt(checks, NextReaction)
  /\ promises' = Collected(txResults, checks')
  /\ UNCHANGED <<queueVars, pc, chain, reports, aborts>>

OnRejectedPromise ==
  /\ ~Quiet
  /\ \E p \in ToSet(checks[NextReaction]) : Rejected(p)
  /\ pendingTxs' = Append(pendingTxs, checks[NextReaction][SelectInSeq(checks[NextReaction], Rejected)])
  /\ checks' = RemoveAt(checks, NextReaction)
  /\ promises' = Collected(txResults, checks')
  /\ UNCHANGED <<sentTxs, txResults, pc, chain, reports, aborts>>

\* The catch: only the first rejection is seen; a tx not found yet is pending again.
OnRejected ==
  LET snapshot == checks[NextReaction]
      first    == promises[snapshot[SelectInSeq(snapshot, Rejected)]]
  IN  /\ ~Quiet
      /\ \E p \in ToSet(snapshot) : Rejected(p)
      /\ pendingTxs' = IF first.state = "notFound" THEN Append(pendingTxs, first.tx)
                                                   ELSE pendingTxs
      /\ checks' = RemoveAt(checks, NextReaction)
      /\ promises' = Collected(txResults, checks')
      /\ UNCHANGED <<sentTxs, txResults, pc, chain, reports, aborts>>

\* The then: log every result of the snapshot, and take that many steps through
\* txResults as it is by now.
OnFulfilled ==
  LET snapshot == checks[NextReaction]
      Logged(t) == Cardinality({k \in DOMAIN snapshot : promises[snapshot[k]].tx = t})
      Cap(n) == IF n > 2 THEN 2 ELSE n
  IN  /\ ~Quiet
      /\ \A p \in ToSet(snapshot) : ~Rejected(p)
      /\ reports' = [t \in Txs |-> Cap(reports[t] + Logged(t))]
      /\ txResults' = WithoutReported(txResults, Len(snapshot))
      /\ checks' = RemoveAt(checks, NextReaction)
      /\ promises' = Collected(txResults', checks')
      /\ UNCHANGED <<sentTxs, pendingTxs, pc, chain, aborts>>

---------------------------------------------------------------------------

Handler(h) ==
  CheckWalletTxs(h) \/ SendTxs(h) \/ SendNothing(h) \/ MoveSentToPending(h)

Node(p) == \E how \in Answers : Answer(p, how)

Next ==
  \/ \E h \in Handlers : Handler(h) \/ Abort(h)
  \/ \E t \in Txs : Resolve(t)
  \/ \E p \in Promises : Node(p)
  \/ OnRejected
  \/ OnFulfilled

Spec == Init /\ [][Next]_vars

\* Blocks keep coming and handlers keep running, the node answers every query and the
\* chain includes every tx that it does not lose; a wallet that may send picks something
\* it can pay for again and again.
FairSpec ==
  /\ Spec
  /\ \A h \in Handlers : WF_vars(Handler(h)) /\ SF_vars(SendTxs(h))
  /\ \A t \in Txs : WF_vars(Resolve(t))
  /\ \A p \in Promises : WF_vars(Node(p))
  /\ WF_vars(OnRejected \/ OnFulfilled)

---------------------------------------------------------------------------
(* Properties *)

TypeOK ==
  /\ sentTxs \in Seq(Txs)
  /\ pendingTxs \in Seq(Txs)
  /\ txResults \in Seq(Promises)
  /\ promises \in [Promises -> [tx : Txs, state : PromiseStates]]
  /\ checks \in Seq(Seq(Promises))
  /\ pc \in [Handlers -> {"check", "act", "move"}]
  /\ chain \in [Txs -> {"unsent", "mempool", "indexed", "dropped"}]
  /\ reports \in [Txs -> 0 .. 2]
  /\ aborts \in 0 .. MaxAborts
  /\ \A p \in ToSet(txResults) : promises[p].state # "free"

Waiting == UNION {ToSet(checks[k]) : k \in DOMAIN checks}

\* A queue, or a lookup whose outcome will still be seen, holds the tx.
Tracked(t) ==
  \/ t \in ToSet(sentTxs) \cup ToSet(pendingTxs)
  \/ \E p \in Waiting : promises[p].tx = t

\* A tx that was broadcast is followed until its result is logged, however often the
\* node has not indexed it yet (checkWalletTxs: "Will check in next block").
NeverLost == \A t \in Txs : chain[t] # "unsent" => Tracked(t) \/ reports[t] > 0

\* No tx's result is logged twice (checkWalletTxs removes what it logged).
ReportedOnce == \A t \in Txs : reports[t] < 2

\* Every tx sent has its result logged in the end, whatever the splicing loops leave for
\* a later block and whichever handlers overlap.
EventuallyReported == \A t \in Txs : chain[t] = "mempool" ~> reports[t] > 0

\* The wallet's queue is freed again and again, so that it can send all it has
\* (actions.mjs: results "free each wallet's queue for the next" block).
KeepsSending == <>(Unsent = {})
===========================================================================
