------------------------------ MODULE Monitor ------------------------------
(***************************************************************************)
(* `make monitor`: it follows the blocks over a websocket, watches every   *)
(* node restart on the upgrade binary, and redraws from REST queries and   *)
(* container logs (packages/monitor: monitor, nodes, docker, queries).     *)
(*                                                                         *)
(* Each action is the code from one await to the next; a log or a query is *)
(* read when its await returns.  Block events are handled concurrently,    *)
(* and so are the refreshes of a timer.                                    *)
(***************************************************************************)
EXTENDS Integers, FiniteSets, Verify

CONSTANTS
  NumNodes,       \* FUND nodes: the rows of the table, in its order
  Query,          \* the node that is queried: rpc1
  UpgradeHeight,
  NumHandlers,    \* block handlers that may be in progress at once
  Refreshers,     \* refreshes that may be in progress at once
  Prompt,         \* a log is read before the network makes its next step
  Faults,         \* the kinds of fault that may happen
  MaxFaults,      \* bound: how many of them a behaviour contains
  StartHeight,    \* the blocks there are when the monitor is started
  Tail200, Tail400, Tail1000,  \* the blocks whose lines are in that many last lines of a log
  MaxHeight       \* bound: the last block

Nodes == 1 .. NumNodes
Handlers == 1 .. NumHandlers
Chains == {"fund", "gaiad"}
Heights == 0 .. MaxHeight

ASSUME MonitorAssumption ==
  /\ NumNodes \in Nat /\ Query \in Nodes /\ NumHandlers \in Nat \ {0}
  /\ UpgradeHeight \in 2 .. MaxHeight /\ {MaxHeight, MaxFaults} \subseteq Nat
  /\ StartHeight \in 0 .. UpgradeHeight - 1
  /\ {Tail200, Tail400, Tail1000} \subseteq Nat \ {0}
  /\ Prompt \in BOOLEAN
  /\ Faults \subseteq {"query", "refresh", "logs", "socket"}

VARIABLES
  phase,               \* UpgradeMonitor.run(): what it awaits
  rpcUp,               \* #fundRpcUp, #gaiadRpcUp
  currentBlockHeight, totalValidTxs,  \* #state; of the total, the times each block is in it
  screen,              \* #state: what the queries showed last
  rows, numUpgraded, status,  \* NodeTracker
  hpc, hnode,          \* each block handler's await, and the row it looks at
  rpc, rnode, rheight, \* each refresh's await, its row, and the height it was given
  height, binary,      \* the nodes: the last block committed, and "old" or "new" und
  events,              \* block events on their way
  data,                \* what the chains would answer
  seen,                \* history: the blocks whose event was delivered
  faults               \* faults so far

runVars     == <<phase, rpcUp>>
blockVars   == <<currentBlockHeight, totalValidTxs, seen>>
trackerVars == <<rows, numUpgraded, status>>
handlerVars == <<hpc, hnode>>
refreshVars == <<rpc, rnode, rheight>>
networkVars == <<height, binary, events, data>>
vars == <<runVars, blockVars, screen, trackerVars, handlerVars, refreshVars, networkVars, faults>>

Null == "null"

\* What the queries are about: the channel's ends and a payment stream.  Those whose answer
\* is shown as it is (the proposal, supplies, BEACONs, orders) go with the stream's.
NoChannels == [c \in Chains |-> "none"]
Data == <<[channels |-> NoChannels, stream |-> "none"],
          [channels |-> [NoChannels EXCEPT !["fund"] = "INIT"], stream |-> "flowing"],
          [channels |-> [c \in Chains |-> "OPEN"], stream |-> "cancelled"]>>

Init ==
  /\ phase = "docker"
  /\ rpcUp = [c \in Chains |-> FALSE]
  /\ currentBlockHeight = 0
  /\ totalValidTxs = [b \in Heights |-> 0]
  /\ screen = [channels |-> NoChannels, ibcDenom |-> FALSE, stream |-> "none"]
  /\ rows = [n \in Nodes |-> [upgraded |-> FALSE, und_version |-> Null]]
  /\ numUpgraded = 0
  /\ status = "not_upgraded"
  /\ hpc = [h \in Handlers |-> "idle"] /\ hnode = [h \in Handlers |-> 1]
  /\ rpc = [r \in Refreshers |-> "idle"] /\ rnode = [r \in Refreshers |-> 1]
  /\ rheight = [r \in Refreshers |-> 0]
  /\ height = [n \in Nodes |-> StartHeight] /\ binary = [n \in Nodes |-> "old"]
  /\ events = {}
  /\ data = Data[1]
  /\ seen = {}
  /\ faults = 0

Fault(kind) == kind \in Faults /\ faults < MaxFaults /\ faults' = faults + 1

\* A node whose next block needs the other binary is about to restart: its port is closed.
Listens(n) == height[n] + 1 >= UpgradeHeight => binary[n] = "new"

---------------------------------------------------------------------------
(* Start-up. *)

\* dockerComposeIsUp() counts every container; then both ports are open.
WaitForDocker ==
  /\ phase = "docker" /\ phase' = "rpcs"
  /\ UNCHANGED <<rpcUp, blockVars, screen, trackerVars, handlerVars, refreshVars, networkVars,
                 faults>>

\* Mutant: a port that was seen closed, after both were open, stays so.
CheckRpcsOnce == [c \in Chains |-> /\ c = "fund" => Listens(Query)
                                   /\ phase = "follow" => rpcUp[c]]

\* portIsOpen() for both chains.
CheckRpcs == [c \in Chains |-> c = "fund" => Listens(Query)]

WaitForRpcs ==
  /\ phase = "rpcs"
  /\ rpcUp' = CheckRpcs
  /\ phase' = IF \A c \in Chains : rpcUp'[c] THEN "total" ELSE "rpcs"
  /\ UNCHANGED <<blockVars, screen, trackerVars, handlerVars, refreshVars, networkVars, faults>>

\* What a node logs when it commits a block, and from then on up to the next one, is among
\* the last lines of its log, which reach back over so many blocks.
InTail(n, b, tail) == b <= height[n] /\ height[n] - b < tail

\* A block's line in the log of the node is of the binary that executed it.
InLog(b, afterUpgrade) == b <= height[Query] /\ (b >= UpgradeHeight) = afterUpgrade

\* getTotalTxData() of the whole log.  The expression that finds the number is global: after
\* a line that matched it searches the next one from where that match ended, finds nothing,
\* and starts afresh.  So it counts every other line, from the newest.
TotalOfLog ==
  LET newest == IF height[Query] >= UpgradeHeight THEN UpgradeHeight - 1 ELSE height[Query]
  IN  [b \in Heights |-> IF b > 0 /\ InLog(b, FALSE) /\ (newest - b) % 2 = 0 THEN 1 ELSE 0]

\* The total so far is read.
ReadTotal ==
  /\ phase = "total" /\ phase' = "connect"
  /\ totalValidTxs' = TotalOfLog
  /\ UNCHANGED <<rpcUp, currentBlockHeight, seen, screen, trackerVars, handlerVars, refreshVars,
                 networkVars, faults>>

\* The websocket is open and the blocks from now on subscribed to.
OnOpen ==
  /\ phase = "connect" /\ phase' = "follow"
  /\ UNCHANGED <<rpcUp, blockVars, screen, trackerVars, handlerVars, refreshVars, networkVars,
                 faults>>

---------------------------------------------------------------------------
(* Block events. *)

\* #onBlock up to its log.
OnBlock(h) ==
  /\ phase = "follow" /\ hpc[h] = "idle" /\ \A i \in 1 .. h - 1 : hpc[i] # "idle"
  /\ \E b \in events :
       /\ \A e \in events : b <= e
       /\ events' = events \ {b}
       /\ currentBlockHeight' = b
       /\ seen' = seen \cup {b}
  /\ hpc' = [hpc EXCEPT ![h] = "logs"]
  /\ UNCHANGED <<runVars, totalValidTxs, screen, trackerVars, hnode, refreshVars, height, binary,
                 data, faults>>

\* Mutants: a row that was counted is looked at again; the version shown before the upgrade
\* stays until the node is seen upgraded.
ToLookAtAll(rows0, n) == n .. NumNodes
LookingAtKept(rows0, k) == rows0

\* The rows a round still has to look at; a row while its log is read; when all are upgraded.
ToLookAt(rows0, n) == {k \in n .. NumNodes : ~rows0[k].upgraded}
LookingAt(rows0, k) == [rows0 EXCEPT ![k].und_version = Null]
Enough(num) == num >= NumNodes

\* watchUpgrade() comes to row n, or to the end of its round.
Walk(h, rows0, num, n) ==
  LET left == ToLookAt(rows0, n)
  IN  /\ numUpgraded' = num
      /\ \/ /\ left = {}
            /\ rows' = rows0
            /\ status' = IF Enough(num) THEN "success" ELSE "in_progress"
            /\ hpc' = [hpc EXCEPT ![h] = "sleep"]
            /\ hnode' = [hnode EXCEPT ![h] = 1]
         \/ \E k \in left :
              /\ \A j \in left : k <= j
              /\ rows' = LookingAt(rows0, k)
              /\ hpc' = [hpc EXCEPT ![h] = "look"]
              /\ hnode' = [hnode EXCEPT ![h] = k]
              /\ UNCHANGED status

\* Mutant: the block of the upgrade has the log line of the old binary.
AfterUpgradeLate(b) == b > UpgradeHeight

AfterUpgrade(b) == b >= UpgradeHeight

\* The log is there: the height is read again, for the count and for the watch.
OnLogs(h) ==
  LET b == currentBlockHeight
  IN  /\ phase = "follow" /\ hpc[h] = "logs"
      /\ totalValidTxs' = [totalValidTxs EXCEPT
                             ![b] = @ + IF /\ InLog(b, AfterUpgrade(b))
                                             /\ InTail(Query, b, Tail400)
                                          THEN 1 ELSE 0]
      /\ IF b = UpgradeHeight - 1 /\ status # "success"
         THEN Walk(h, rows, numUpgraded, 1)
         ELSE hpc' = [hpc EXCEPT ![h] = "idle"] /\ UNCHANGED <<trackerVars, hnode>>
      /\ UNCHANGED <<runVars, currentBlockHeight, seen, screen, refreshVars, networkVars, faults>>

\* checkNodeUpgradedFromLogs(): the line with which the node commits the upgrade's block.
CheckNodeUpgraded(k) == InTail(k, UpgradeHeight, Tail200)

\* A row's log is there: the node is upgraded if its line is.
Look(h) ==
  LET k == hnode[h]
  IN  /\ phase = "follow" /\ hpc[h] = "look"
      /\ IF CheckNodeUpgraded(k)
         THEN Walk(h, [rows EXCEPT ![k].upgraded = TRUE], numUpgraded + 1, k + 1)
         ELSE Walk(h, [rows EXCEPT ![k].und_version = "upgrading"], numUpgraded, k + 1)
      /\ UNCHANGED <<runVars, blockVars, screen, refreshVars, networkVars, faults>>

\* The next round, until the upgrade has succeeded.
Wake(h) ==
  /\ phase = "follow" /\ hpc[h] = "sleep"
  /\ IF status = "success"
     THEN hpc' = [hpc EXCEPT ![h] = "idle"] /\ UNCHANGED <<trackerVars, hnode>>
     ELSE Walk(h, rows, numUpgraded, 1)
  /\ UNCHANGED <<runVars, blockVars, screen, refreshVars, networkVars, faults>>

\* `docker logs` fails under a block handler: nothing catches it, and the process exits.
Crash(h) ==
  /\ phase = "follow" /\ hpc[h] \in {"logs", "look"}
  /\ Fault("logs")
  /\ phase' = "crashed"
  /\ UNCHANGED <<rpcUp, blockVars, screen, trackerVars, handlerVars, refreshVars, networkVars>>

---------------------------------------------------------------------------
(* Refreshes. *)

Refreshing(r, from, to) ==
  phase = "follow" /\ rpc[r] = from /\ rpc' = [rpc EXCEPT ![r] = to]

\* attempt(): what a query shows, or nothing when the node cannot answer.
Shows(new) == \/ Listens(Query) /\ screen' = new /\ UNCHANGED faults
              \/ ~Listens(Query) /\ UNCHANGED <<screen, faults>>
              \/ Fault("query") /\ UNCHANGED screen

\* The timer fires.  ibcChannels() shows the ends there are; with both, nund's denom on gaiad.
RefreshChannels(r) ==
  /\ Refreshing(r, "idle", "rpcs")
  /\ IF \A c \in Chains : rpcUp[c]
     THEN Shows([screen EXCEPT
            !.channels = [c \in Chains |-> IF data.channels[c] # "none" THEN data.channels[c] ELSE @[c]],
            !.ibcDenom = @ \/ \A c \in Chains : data.channels[c] # "none"])
     ELSE UNCHANGED <<screen, faults>>
  /\ UNCHANGED <<runVars, blockVars, trackerVars, handlerVars, rnode, rheight, networkVars>>

\* The ports are checked; nodes.refresh() is called with the height of now.
RefreshRpcs(r) ==
  /\ Refreshing(r, "rpcs", "rows")
  /\ rpcUp' = CheckRpcs
  /\ rnode' = [rnode EXCEPT ![r] = 1]
  /\ rheight' = [rheight EXCEPT ![r] = currentBlockHeight]
  /\ UNCHANGED <<phase, blockVars, screen, trackerVars, handlerVars, networkVars, faults>>

\* getCurrentSoftwareVersion(): it is logged when a binary starts, the first one before any
\* block; 0 when that is out of sight.
SoftwareVersion(k) ==
  IF InTail(k, IF binary[k] = "new" THEN UpgradeHeight - 1 ELSE 0, Tail1000)
  THEN binary[k] ELSE "0"

\* A row's log is there.  Besides the version, the height in it is shown.
RefreshRow(r) ==
  LET k == rnode[r]
      reads == rheight[r] < UpgradeHeight - 1 \/ rheight[r] >= UpgradeHeight
  IN  /\ Refreshing(r, "rows", IF k < NumNodes THEN "rows" ELSE "streams")
      /\ rows' = [rows EXCEPT
                    ![k].und_version = IF @ = Null /\ reads THEN SoftwareVersion(k) ELSE @]
      /\ rnode' = [rnode EXCEPT ![r] = IF k < NumNodes THEN k + 1 ELSE 1]
      /\ rheight' = [rheight EXCEPT ![r] = IF k < NumNodes THEN @ ELSE 0]
      /\ UNCHANGED <<runVars, blockVars, screen, numUpgraded, status, handlerVars, networkVars,
                     faults>>

\* `docker logs` fails under a refresh: the rest of it is skipped.
SkipRefresh(r) ==
  /\ Refreshing(r, "rows", "idle")
  /\ Fault("refresh")
  /\ rnode' = [rnode EXCEPT ![r] = 1]
  /\ rheight' = [rheight EXCEPT ![r] = 0]
  /\ UNCHANGED <<runVars, blockVars, screen, trackerVars, handlerVars, networkVars>>

\* paymentStreams(): a pair is shown once seen, and its stream as it is.
PaymentStreams ==
  IF data.stream = "cancelled" /\ screen.stream = "none" THEN "none" ELSE data.stream

RefreshStreams(r) ==
  /\ Refreshing(r, "streams", "idle")
  /\ Shows([screen EXCEPT !.stream = PaymentStreams])
  /\ UNCHANGED <<runVars, blockVars, trackerVars, handlerVars, rnode, rheight, networkVars>>

---------------------------------------------------------------------------
(* The network. *)

\* The network goes its way, whatever the monitor does, as long as there is one to follow it.
Running == phase # "crashed"

Settled == Prompt => /\ \A h \in Handlers : hpc[h] \notin {"logs", "look"}
                     /\ events = {}

\* A block is made by more than two thirds of the nodes, with the binary it needs; each node
\* commits it in its own time.  An event reaches a monitor that is connected by then.
Commit(n) ==
  LET b == height[n] + 1
      ready == {m \in Nodes : height[m] + 1 >= b /\ (b >= UpgradeHeight => binary[m] = "new")}
  IN  /\ Settled
      /\ Running /\ b <= MaxHeight /\ n \in ready /\ 3 * Cardinality(ready) > 2 * NumNodes
      /\ height' = [height EXCEPT ![n] = b]
      /\ events' = IF n = Query /\ phase = "follow" THEN events \cup {b} ELSE events
      /\ UNCHANGED <<runVars, blockVars, screen, trackerVars, handlerVars, refreshVars, binary,
                     data, faults>>

\* The old binary stops below the upgrade, and the new one is started.
Restart(n) ==
  /\ Running /\ Settled
  /\ height[n] + 1 = UpgradeHeight /\ binary[n] = "old"
  /\ binary' = [binary EXCEPT ![n] = "new"]
  /\ UNCHANGED <<runVars, blockVars, screen, trackerVars, handlerVars, refreshVars, height, events,
                 data, faults>>

\* The websocket breaks, and what it carried is gone.
LoseEvents ==
  /\ events # {} /\ Fault("socket")
  /\ events' = {}
  /\ UNCHANGED <<runVars, blockVars, screen, trackerVars, handlerVars, refreshVars, height, binary,
                 data>>

\* The chains' data change: the channel's handshake goes on, a stream is created, cancelled.
DataChanges ==
  /\ Running
  /\ \E k \in 1 .. Len(Data) - 1 : data = Data[k] /\ data' = Data[k + 1]
  /\ UNCHANGED <<runVars, blockVars, screen, trackerVars, handlerVars, refreshVars, height, binary,
                 events, faults>>

---------------------------------------------------------------------------

Handler(h) == OnBlock(h) \/ OnLogs(h) \/ Look(h) \/ Wake(h)
Refresh(r) ==
  RefreshChannels(r) \/ RefreshRpcs(r) \/ RefreshRow(r) \/ RefreshStreams(r)
StartUp == WaitForDocker \/ WaitForRpcs \/ ReadTotal \/ OnOpen
Network == (\E n \in Nodes : Commit(n) \/ Restart(n)) \/ LoseEvents \/ DataChanges

Next ==
  \/ StartUp
  \/ \E h \in Handlers : Handler(h) \/ Crash(h)
  \/ \E r \in Refreshers : Refresh(r) \/ SkipRefresh(r)
  \/ Network

Spec == Init /\ [][Next]_vars

\* Every await returns, the timer goes on, and so do the nodes: the watch sleeps a second
\* between two rounds.  Nothing is assumed of the faults.
FairSpec ==
  /\ Spec
  /\ WF_vars(StartUp)
  /\ \A h \in Handlers : WF_vars(Handler(h))
  /\ \A r \in Refreshers : WF_vars(Refresh(r))
  /\ SF_vars(\E n \in Nodes : Commit(n) \/ Restart(n))

---------------------------------------------------------------------------
(* Properties *)

Versions == {Null, "old", "new", "upgrading", "0"}
Ends == {"none", "INIT", "OPEN"}
Streams == {"none", "flowing", "cancelled"}

TypeOK ==
  /\ phase \in {"docker", "rpcs", "total", "connect", "follow", "crashed"}
  /\ rpcUp \in [Chains -> BOOLEAN]
  /\ currentBlockHeight \in Heights
  /\ totalValidTxs \in [Heights -> Nat]
  /\ screen \in [channels : [Chains -> Ends], ibcDenom : BOOLEAN, stream : Streams]
  /\ rows \in [Nodes -> [upgraded : BOOLEAN, und_version : Versions]]
  /\ numUpgraded \in 0 .. NumNodes
  /\ status \in {"not_upgraded", "in_progress", "success"}
  /\ hpc \in [Handlers -> {"idle", "logs", "look", "sleep"}] /\ hnode \in [Handlers -> Nodes]
  /\ rpc \in [Refreshers -> {"idle", "rpcs", "rows", "streams"}] /\ rnode \in [Refreshers -> Nodes]
  /\ rheight \in [Refreshers -> Heights]
  /\ height \in [Nodes -> Heights] /\ binary \in [Nodes -> {"old", "new"}]
  /\ events \subseteq Heights /\ seen \subseteq Heights
  /\ \E k \in DOMAIN Data : data = Data[k]
  /\ faults \in 0 .. MaxFaults

\* "UPGRADE SUCCESSFUL" is shown only when every node has committed the block of the upgrade
\* with the new binary, and the table says so of each (a node is counted once).
SuccessMeansUpgraded ==
  status = "success" =>
    \A n \in Nodes : rows[n].upgraded /\ binary[n] = "new" /\ height[n] >= UpgradeHeight

\* A node logs so many blocks between two looks of the watch that its line is out of sight.
Outran(n) == ~rows[n].upgraded /\ height[n] >= UpgradeHeight + Tail200

\* The block before the upgrade starts a watch that ends in success, unless the process exits or
\* a node outran it; each row then shows the version its node runs, or that it is out of sight.
UpgradeReported ==
  (UpgradeHeight - 1 \in seen) ~>
    \/ phase = "crashed"
    \/ \E n \in Nodes : Outran(n)
    \/ /\ status = "success"
       /\ \A n \in Nodes :
            \/ rows[n].und_version = "new"
            \/ rows[n].und_version = "0" /\ height[n] >= UpgradeHeight - 1 + Tail1000

\* No block's txs are in the total twice, those of the log so far included, and those of a block
\* whose event came are in it, on either side of the upgrade and across it.
TxsCountedOnce ==
  \A b \in Heights :
    /\ totalValidTxs[b] <= 1
    /\ b \in seen =>
         totalValidTxs[b] = 1 \/ (b = currentBlockHeight /\ \E h \in Handlers : hpc[h] = "logs")

\* The screen comes to show what the chains answer, though the node it asks restarts and
\* queries fail: the state of both ends, the denom, and a stream that was cancelled, as such.
ScreenConverges ==
  <>[](\/ phase = "crashed"
       \/ /\ screen.channels = data.channels
          /\ screen.ibcDenom = TransferChannelOpen({data.channels["fund"]}, {data.channels["gaiad"]})
          /\ screen.stream = data.stream \/ (data.stream = "cancelled" /\ screen.stream = "none"))
=============================================================================
