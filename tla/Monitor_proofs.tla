---------------------------- MODULE Monitor_proofs ----------------------------
(***************************************************************************)
(* For any number of nodes, handlers and refreshes, and whatever fails: as *)
(* long as a log is read before the network goes on (Prompt), one handler  *)
(* watches the upgrade, it counts no node twice, and each block's txs are  *)
(* counted once.                                                           *)
(***************************************************************************)
EXTENDS Monitor, FiniteSetTheorems, TLAPS

Watching == {"look", "sleep"}
BeforeFollow == {"docker", "rpcs", "total", "connect"}
Statuses == {"not_upgraded", "in_progress", "success"}
Rows == [Nodes -> [upgraded : BOOLEAN, und_version : Versions]]
Screens == [channels : [Chains -> Ends], ibcDenom : BOOLEAN, stream : Streams]

Upgraded(rows0) == {n \in Nodes : rows0[n].upgraded}

\* A node past the upgrade runs the new binary; a row is upgraded only for such a node.
Deployed ==
  \A n \in Nodes : /\ height[n] >= UpgradeHeight => binary[n] = "new"
                   /\ rows[n].upgraded => height[n] >= UpgradeHeight

\* The counter counts the rows.
Counted == /\ numUpgraded = Cardinality(Upgraded(rows))
           /\ status = "success" => numUpgraded >= NumNodes

\* A row that is looked at was not upgraded when the look began, nor since.
Looking == \A h \in Handlers : hpc[h] = "look" => ~rows[hnode[h]].upgraded

\* The event or the handler of the last block is the only one under way.
OneEvent ==
  /\ events \subseteq {height[Query]}
  /\ \A h \in Handlers :
       hpc[h] = "logs" => /\ events = {} /\ currentBlockHeight = height[Query]
                          /\ \A g \in Handlers : hpc[g] = "logs" => g = h

\* One handler watches, and the block that started the watch cannot start another one.
OneWatch ==
  \A h \in Handlers :
    hpc[h] \in Watching =>
      /\ height[Query] >= UpgradeHeight - 1
      /\ height[Query] = UpgradeHeight - 1 =>
           events = {} /\ \A g \in Handlers : hpc[g] # "logs"
      /\ \A g \in Handlers : hpc[g] \in Watching => g = h

\* Nothing is counted of a block that is still to come, or whose log is still to be read.
NotYet(b) == b > height[Query] \/ b \in events
Uncounted ==
  /\ phase \in BeforeFollow =>
       events = {} /\ seen = {} /\ \A h \in Handlers : hpc[h] = "idle"
  /\ \A b \in Heights : NotYet(b) => b \notin seen /\ totalValidTxs[b] = 0
  /\ \A h \in Handlers : hpc[h] = "logs" => totalValidTxs[currentBlockHeight] = 0

WatchOK == Deployed /\ Counted /\ Looking /\ OneWatch
CountOK == OneEvent /\ Uncounted /\ TxsCountedOnce

MonitorInv == TypeOK /\ WatchOK /\ CountOK

\* What the assumptions on the constants say of the ranges.
LEMMA Constants ==
  /\ NumNodes \in Nat /\ NumHandlers \in Nat /\ Query \in Nodes
  /\ Tail200 \in Nat /\ Tail400 \in Nat /\ Tail1000 \in Nat /\ 0 < Tail200 /\ 0 < Tail400
  /\ UpgradeHeight \in Nat /\ MaxHeight \in Nat /\ StartHeight \in Nat /\ MaxFaults \in Nat
  /\ 2 <= UpgradeHeight /\ UpgradeHeight <= MaxHeight /\ StartHeight < UpgradeHeight
  /\ 1 \in Nodes /\ Nodes \subseteq Nat /\ Heights \subseteq Nat /\ Handlers \subseteq Nat
BY MonitorAssumption DEF Nodes, Heights, Handlers

\* The upgraded rows are some of the nodes, and all of them once they are as many.
LEMMA UpgradedFinite ==
  ASSUME NEW rows0
  PROVE  /\ IsFiniteSet(Upgraded(rows0))
         /\ Cardinality(Upgraded(rows0)) \in 0 .. NumNodes
         /\ Cardinality(Upgraded(rows0)) >= NumNodes => Upgraded(rows0) = Nodes
<1>1. IsFiniteSet(Nodes) /\ Cardinality(Nodes) = NumNodes
  BY FS_Interval, Constants DEF Nodes
<1>2. Upgraded(rows0) \in SUBSET Nodes
  BY DEF Upgraded
<1>3. IsFiniteSet(Upgraded(rows0)) /\ Cardinality(Upgraded(rows0)) <= NumNodes
      /\ (Cardinality(Nodes) = Cardinality(Upgraded(rows0)) => Nodes = Upgraded(rows0))
  BY <1>1, <1>2, FS_Subset
<1>4. Cardinality(Upgraded(rows0)) \in Nat
  BY <1>3, FS_CardinalityType
<1> QED
  BY <1>1, <1>3, <1>4, Constants

\* What watchUpgrade() does up to its next await upgrades no row, and it looks only at rows
\* that are not.
LEMMA WalkKeeps ==
  ASSUME NEW h \in Handlers, NEW rows0 \in Rows, NEW num \in Nat, NEW n \in Nodes \cup {NumNodes + 1},
         num = Cardinality(Upgraded(rows0)), hnode \in [Handlers -> Nodes],
         hpc \in [Handlers -> {"idle", "logs", "look", "sleep"}], status \in Statuses,
         Walk(h, rows0, num, n)
  PROVE  /\ numUpgraded' = num /\ rows' \in Rows /\ Upgraded(rows') = Upgraded(rows0)
         /\ status' \in Statuses
         /\ status' = "success" => status = "success" \/ num >= NumNodes
         /\ hpc' \in [Handlers -> {"idle", "logs", "look", "sleep"}]
         /\ hpc'[h] \in Watching
         /\ \A g \in Handlers \ {h} : hpc'[g] = hpc[g]
         /\ hnode' \in [Handlers -> Nodes]
         /\ hpc'[h] = "look" => ~rows'[hnode'[h]].upgraded
<1> DEFINE left == ToLookAt(rows0, n)
<1>1. left \subseteq Nodes /\ \A k \in left : ~rows0[k].upgraded
  BY Constants DEF ToLookAt, Nodes
<1>2. CASE left = {} /\ rows' = rows0 /\ status' = (IF Enough(num) THEN "success" ELSE "in_progress")
           /\ hpc' = [hpc EXCEPT ![h] = "sleep"] /\ hnode' = [hnode EXCEPT ![h] = 1]
  BY <1>2, Constants DEF Walk, Enough, Watching, Statuses
<1>3. CASE \E k \in left : /\ rows' = LookingAt(rows0, k)
                           /\ hpc' = [hpc EXCEPT ![h] = "look"]
                           /\ hnode' = [hnode EXCEPT ![h] = k]
                           /\ UNCHANGED status
  <2>1. PICK k \in left : /\ rows' = LookingAt(rows0, k)
                          /\ hpc' = [hpc EXCEPT ![h] = "look"]
                          /\ hnode' = [hnode EXCEPT ![h] = k]
                          /\ UNCHANGED status
    BY <1>3
  <2>2. /\ rows' \in Rows
        /\ \A i \in Nodes : rows'[i].upgraded = rows0[i].upgraded
    BY <2>1, <1>1 DEF LookingAt, Rows, Versions, Null
  <2>3. Upgraded(rows') = Upgraded(rows0)
    BY <2>2 DEF Upgraded
  <2>4. numUpgraded' = num
    BY DEF Walk
  <2>5. k \in Nodes /\ ~rows'[k].upgraded
    BY <1>1, <2>1, <2>2
  <2> QED
    BY <2>1, <2>2, <2>3, <2>4, <2>5 DEF Watching
<1> QED
  BY <1>2, <1>3 DEF Walk

\* The invariant holds before anything is started.
LEMMA InitMonitorInv == Init => MonitorInv
<1>0. SUFFICES ASSUME Init PROVE MonitorInv
  OBVIOUS
<1>1. Upgraded(rows) = {} /\ Cardinality(Upgraded(rows)) = 0
  BY FS_EmptySet, <1>0 DEF Init, Upgraded
<1>2. data = Data[1] /\ 1 \in DOMAIN Data
  <2>1. 1 \in DOMAIN Data
    BY DEF Data
  <2>2. data = Data[1]
    BY <1>0 DEF Init
  <2> QED
    BY <2>1, <2>2
<1>3. rows \in Rows /\ \A n \in Nodes : ~rows[n].upgraded
  BY <1>0 DEF Init, Rows, Versions, Null
<1>4. screen \in Screens /\ rpcUp \in [Chains -> BOOLEAN]
  <2>1. NoChannels \in [Chains -> Ends]
    BY DEF NoChannels, Ends
  <2>2. "none" \in Streams
    BY DEF Streams
  <2> QED
    BY <2>1, <2>2, <1>0 DEF Init, Screens
<1>5. totalValidTxs \in [Heights -> Nat] /\ \A b \in Heights : totalValidTxs[b] = 0
  BY <1>0 DEF Init
<1>6. 0 \in Heights /\ StartHeight \in Heights
  BY Constants DEF Heights
<1>7. hpc \in [Handlers -> {"idle", "logs", "look", "sleep"}] /\ hnode \in [Handlers -> Nodes]
      /\ \A h \in Handlers : hpc[h] = "idle"
  BY Constants, <1>0 DEF Init
<1>8. /\ rpc \in [Refreshers -> {"idle", "rpcs", "rows", "streams"}]
      /\ rnode \in [Refreshers -> Nodes] /\ rheight \in [Refreshers -> Heights]
  BY <1>6, Constants, <1>0 DEF Init
<1>9. /\ height \in [Nodes -> Heights] /\ binary \in [Nodes -> {"old", "new"}]
      /\ \A n \in Nodes : height[n] = StartHeight
  BY <1>6, <1>0 DEF Init
<1>10. phase = "docker" /\ currentBlockHeight = 0 /\ numUpgraded = 0 /\ status = "not_upgraded"
       /\ events = {} /\ seen = {} /\ faults = 0
  BY <1>0 DEF Init
<1>11. numUpgraded \in 0 .. NumNodes /\ faults \in 0 .. MaxFaults
  BY <1>10, Constants
<1>12. TypeOK
  BY <1>2, <1>3, <1>4, <1>5, <1>6, <1>7, <1>8, <1>9, <1>10, <1>11 DEF TypeOK, Rows, Screens
<1>13. WatchOK
  BY <1>1, <1>3, <1>7, <1>9, <1>10, Constants DEF WatchOK, Deployed, Counted, Looking, OneWatch, Watching
<1>14. CountOK
  BY <1>5, <1>7, <1>10 DEF CountOK, OneEvent, Uncounted, NotYet, TxsCountedOnce
<1> QED
  BY <1>12, <1>13, <1>14 DEF MonitorInv

\* Steps that leave the blocks, the counts and the watch as they are.
LEMMA QuietKeeps ==
  ASSUME MonitorInv, UNCHANGED <<blockVars, numUpgraded, status, handlerVars, height, binary, events>>,
         \A n \in Nodes : rows'[n].upgraded = rows[n].upgraded,
         phase' \in BeforeFollow => phase \in BeforeFollow
  PROVE  WatchOK' /\ CountOK'
<1> USE DEF blockVars, handlerVars, MonitorInv
<1>1. Upgraded(rows') = Upgraded(rows)
  BY DEF Upgraded
<1>2. Deployed'
  BY DEF WatchOK, Deployed
<1>3. Counted'
  BY <1>1 DEF WatchOK, Counted
<1>4. Looking'
  BY DEF WatchOK, Looking, TypeOK
<1>5. OneWatch'
  BY DEF WatchOK, OneWatch
<1>6. OneEvent' /\ TxsCountedOnce'
  BY DEF CountOK, OneEvent, TxsCountedOnce
<1>7. Uncounted'
  BY DEF CountOK, Uncounted, NotYet
<1> QED
  BY <1>2, <1>3, <1>4, <1>5, <1>6, <1>7 DEF WatchOK, CountOK

\* What the chains answer has the types of the screen.
LEMMA DataType ==
  ASSUME TypeOK
  PROVE  data.channels \in [Chains -> Ends] /\ data.stream \in Streams
<1>1. NoChannels \in [Chains -> Ends] /\ "INIT" \in Ends /\ "OPEN" \in Ends
  BY DEF NoChannels, Ends
<1>2. [NoChannels EXCEPT !["fund"] = "INIT"] \in [Chains -> Ends]
  BY <1>1
<1>3. [c \in Chains |-> "OPEN"] \in [Chains -> Ends]
  BY <1>1
<1>4. PICK k \in DOMAIN Data : data = Data[k]
  BY DEF TypeOK
<1>5. k = 1 \/ k = 2 \/ k = 3
  BY <1>4 DEF Data
<1> QED
  BY <1>1, <1>2, <1>3, <1>4, <1>5 DEF Data, Streams

\* A query shows what it is given, if of the right types, or changes nothing.
LEMMA ShowsKeeps ==
  ASSUME TypeOK, NEW new \in Screens, Shows(new)
  PROVE  screen' \in Screens /\ faults' \in 0 .. MaxFaults
<1>1. screen \in Screens /\ faults \in 0 .. MaxFaults
  BY DEF TypeOK, Screens
<1>2. screen' = new \/ screen' = screen
  BY DEF Shows
<1>3. faults' = faults \/ (faults < MaxFaults /\ faults' = faults + 1)
  BY DEF Shows, Fault
<1> QED
  BY <1>1, <1>2, <1>3, Constants

\* The queried node is at some height.
LEMMA QueryHeight ==
  ASSUME TypeOK
  PROVE  height[Query] \in Nat /\ height[Query] \in Heights
BY Constants DEF TypeOK

\* Start-up reads the blocks so far, before an event is handled.
LEMMA StartUpKeeps ==
  ASSUME MonitorInv, StartUp
  PROVE  MonitorInv'
<1> USE DEF runVars, blockVars, trackerVars, handlerVars, refreshVars, networkVars
<1>1. CASE WaitForDocker \/ WaitForRpcs \/ OnOpen
  <2>1. /\ UNCHANGED <<blockVars, screen, trackerVars, handlerVars, refreshVars, networkVars, faults>>
        /\ phase' \in BeforeFollow \cup {"follow"} /\ phase \in BeforeFollow
        /\ rpcUp' \in [Chains -> BOOLEAN]
    BY <1>1, ZenonT(20)
       DEF WaitForDocker, WaitForRpcs, OnOpen, CheckRpcs, Listens, BeforeFollow, MonitorInv, TypeOK
  <2>2. TypeOK'
    BY <2>1 DEF MonitorInv, TypeOK, BeforeFollow
  <2>3. WatchOK' /\ CountOK'
    BY <2>1, QuietKeeps
  <2> QED
    BY <2>2, <2>3 DEF MonitorInv
<1>2. CASE ReadTotal
  <2>1. /\ phase = "total" /\ phase' = "connect" /\ totalValidTxs' = TotalOfLog
        /\ UNCHANGED <<rpcUp, currentBlockHeight, seen, screen, trackerVars, handlerVars, refreshVars,
                       networkVars, faults>>
    BY <1>2 DEF ReadTotal
  <2>2. totalValidTxs' \in [Heights -> Nat]
    BY <2>1 DEF TotalOfLog
  <2>3. TypeOK'
    BY <2>1, <2>2 DEF MonitorInv, TypeOK
  <2>4. WatchOK'
    BY <2>1 DEF MonitorInv, WatchOK, Deployed, Counted, Upgraded, Looking, OneWatch
  <2>5. events = {} /\ seen = {} /\ \A h \in Handlers : hpc[h] = "idle"
    BY <2>1 DEF MonitorInv, CountOK, Uncounted, BeforeFollow
  <2>6. \A b \in Heights : b > height[Query] => totalValidTxs'[b] = 0
    <3>1. \A b \in Heights : b > height[Query] => ~InLog(b, FALSE)
      BY QueryHeight, Constants DEF InLog, MonitorInv
    <3> QED
      BY <2>1, <3>1 DEF TotalOfLog
  <2>7. \A b \in Heights : totalValidTxs'[b] <= 1
    BY <2>1 DEF TotalOfLog
  <2>8. CountOK'
    BY <2>1, <2>5, <2>6, <2>7 DEF CountOK, OneEvent, Uncounted, NotYet, TxsCountedOnce
  <2> QED
    BY <2>3, <2>4, <2>8 DEF MonitorInv
<1> QED
  BY <1>1, <1>2 DEF StartUp

\* Refreshes touch what is shown and no count.
LEMMA RefreshKeeps ==
  ASSUME MonitorInv, NEW r \in Refreshers, Refresh(r) \/ SkipRefresh(r)
  PROVE  MonitorInv'
<1> USE DEF runVars, blockVars, trackerVars, handlerVars, refreshVars, networkVars
<1>1. /\ phase' = phase /\ UNCHANGED <<blockVars, numUpgraded, status, handlerVars, networkVars>>
      /\ rpc' \in [Refreshers -> {"idle", "rpcs", "rows", "streams"}]
  BY DEF Refresh, SkipRefresh, RefreshChannels, RefreshRpcs, RefreshRow, RefreshStreams, Refreshing,
         MonitorInv, TypeOK
<1>2. screen' \in Screens /\ faults' \in 0 .. MaxFaults
  <2>0. TypeOK /\ screen \in Screens /\ faults \in 0 .. MaxFaults
    BY DEF MonitorInv, TypeOK, Screens
  <2>1. CASE RefreshChannels(r)
    <3>1. CASE UNCHANGED <<screen, faults>>
      BY <2>0, <3>1
    <3>2. CASE Shows([screen EXCEPT
            !.channels = [c \in Chains |-> IF data.channels[c] # "none" THEN data.channels[c] ELSE @[c]],
            !.ibcDenom = @ \/ \A c \in Chains : data.channels[c] # "none"])
      <4>1. [screen EXCEPT
            !.channels = [c \in Chains |-> IF data.channels[c] # "none" THEN data.channels[c] ELSE @[c]],
            !.ibcDenom = @ \/ \A c \in Chains : data.channels[c] # "none"] \in Screens
        BY <2>0, DataType DEF Screens
      <4> QED
        BY <2>0, <3>2, <4>1, ShowsKeeps
    <3> QED
      BY <2>1, <3>1, <3>2 DEF RefreshChannels
  <2>2. CASE RefreshStreams(r)
    <3>1. [screen EXCEPT !.stream = PaymentStreams] \in Screens
      BY <2>0, DataType DEF Screens, PaymentStreams, Streams
    <3> QED
      BY <2>0, <2>2, <3>1, ShowsKeeps DEF RefreshStreams
  <2>3. CASE RefreshRpcs(r) \/ RefreshRow(r)
    BY <2>0, <2>3 DEF RefreshRpcs, RefreshRow
  <2>4. CASE SkipRefresh(r)
    BY <2>0, <2>4, Constants DEF SkipRefresh, Fault
  <2> QED
    BY <2>1, <2>2, <2>3, <2>4 DEF Refresh
<1>3. rows' \in Rows /\ \A n \in Nodes : rows'[n].upgraded = rows[n].upgraded
  <2>1. rows \in Rows /\ binary \in [Nodes -> {"old", "new"}] /\ rnode \in [Refreshers -> Nodes]
    BY DEF MonitorInv, TypeOK, Rows
  <2>2. CASE RefreshRow(r)
    <3>1. \A k \in Nodes : SoftwareVersion(k) \in Versions
      BY <2>1 DEF SoftwareVersion, Versions
    <3> QED
      BY <2>1, <2>2, <3>1 DEF RefreshRow, Rows
  <2>3. CASE rows' = rows
    BY <2>1, <2>3
  <2> QED
    BY <2>2, <2>3 DEF Refresh, SkipRefresh, RefreshChannels, RefreshRpcs, RefreshStreams
<1>4. rnode' \in [Refreshers -> Nodes] /\ rheight' \in [Refreshers -> Heights]
      /\ rpcUp' \in [Chains -> BOOLEAN]
  <2>1. /\ rnode \in [Refreshers -> Nodes] /\ rheight \in [Refreshers -> Heights]
        /\ rpcUp \in [Chains -> BOOLEAN] /\ currentBlockHeight \in Heights
        /\ 0 \in Heights /\ 1 \in Nodes
    BY Constants DEF MonitorInv, TypeOK, Heights
  <2>2. rnode[r] < NumNodes => rnode[r] + 1 \in Nodes
    BY <2>1, Constants DEF Nodes
  <2> QED
    BY <2>1, <2>2, ZenonT(20)
       DEF Refresh, SkipRefresh, RefreshChannels, RefreshRpcs, RefreshRow, RefreshStreams,
           CheckRpcs, Listens
<1>5. TypeOK'
  BY <1>1, <1>2, <1>3, <1>4 DEF MonitorInv, TypeOK, Rows, Screens
<1>6. WatchOK' /\ CountOK'
  BY <1>1, <1>3, QuietKeeps
<1> QED
  BY <1>5, <1>6 DEF MonitorInv

\* A block's event starts the only handler there is of that block.
LEMMA OnBlockKeeps ==
  ASSUME MonitorInv, NEW h \in Handlers, OnBlock(h)
  PROVE  MonitorInv'
<1> USE DEF runVars, blockVars, trackerVars, refreshVars
<1>1. PICK b \in events : /\ events' = events \ {b} /\ currentBlockHeight' = b
                          /\ seen' = seen \cup {b}
  BY DEF OnBlock
<1>2. /\ hpc[h] = "idle" /\ hpc' = [hpc EXCEPT ![h] = "logs"] /\ phase = "follow"
      /\ UNCHANGED <<runVars, totalValidTxs, screen, trackerVars, hnode, refreshVars, height, binary,
                     data, faults>>
  BY DEF OnBlock
<1>3. TypeOK'
  BY <1>1, <1>2 DEF MonitorInv, TypeOK
<1>4. b = height[Query] /\ events' = {} /\ \A g \in Handlers : hpc[g] # "logs"
  BY <1>1 DEF MonitorInv, CountOK, OneEvent
<1>5. \A g \in Handlers : hpc'[g] = IF g = h THEN "logs" ELSE hpc[g]
  BY <1>2 DEF MonitorInv, TypeOK
<1>6. Deployed' /\ Counted' /\ Looking'
  BY <1>2, <1>5 DEF MonitorInv, WatchOK, Deployed, Counted, Upgraded, Looking
<1>7. OneWatch'
  BY <1>1, <1>2, <1>4, <1>5 DEF MonitorInv, WatchOK, OneWatch, Watching
<1>8. OneEvent'
  BY <1>1, <1>2, <1>4, <1>5 DEF OneEvent
<1>9. Uncounted'
  <2>1. b \in Heights /\ NotYet(b) /\ totalValidTxs[b] = 0
    BY <1>1 DEF MonitorInv, TypeOK, CountOK, Uncounted, NotYet
  <2>2. \A c \in Heights : NotYet(c)' => NotYet(c) /\ c # b
    BY <1>1, <1>2, <1>4, QueryHeight, Constants DEF NotYet, MonitorInv
  <2> QED
    BY <1>1, <1>2, <2>1, <2>2 DEF MonitorInv, CountOK, Uncounted
<1>10. TxsCountedOnce'
  BY <1>1, <1>2, <1>4, <1>5 DEF MonitorInv, CountOK, TxsCountedOnce
<1> QED
  BY <1>3, <1>6, <1>7, <1>8, <1>9, <1>10 DEF MonitorInv, WatchOK, CountOK

\* The log of the block is read: it holds one line for it, and a watch starts if the block is
\* the one before the upgrade.
LEMMA OnLogsKeeps ==
  ASSUME MonitorInv, NEW h \in Handlers, OnLogs(h)
  PROVE  MonitorInv'
<1> USE DEF runVars, blockVars, trackerVars, refreshVars, networkVars
<1> DEFINE b == currentBlockHeight
<1>1. /\ hpc[h] = "logs" /\ phase = "follow"
      /\ totalValidTxs' = [totalValidTxs EXCEPT ![b] = @ + IF InLog(b, AfterUpgrade(b)) /\ InTail(Query, b, Tail400) THEN 1 ELSE 0]
      /\ UNCHANGED <<runVars, currentBlockHeight, seen, screen, refreshVars, networkVars, faults>>
  BY DEF OnLogs
<1>2. /\ events = {} /\ b = height[Query] /\ \A g \in Handlers : hpc[g] = "logs" => g = h
      /\ totalValidTxs[b] = 0 /\ b \in Heights /\ b \in Nat
  BY <1>1, QueryHeight DEF MonitorInv, CountOK, OneEvent, Uncounted
<1>3. InLog(b, AfterUpgrade(b)) /\ InTail(Query, b, Tail400)
  BY <1>2, Constants DEF InLog, InTail, AfterUpgrade
<1>4. totalValidTxs' \in [Heights -> Nat]
      /\ \A c \in Heights : totalValidTxs'[c] = IF c = b THEN 1 ELSE totalValidTxs[c]
  BY <1>1, <1>2, <1>3 DEF MonitorInv, TypeOK
<1>5. /\ numUpgraded' = numUpgraded /\ rows' \in Rows /\ Upgraded(rows') = Upgraded(rows)
      /\ status' \in Statuses /\ (status' = "success" => status = "success" \/ numUpgraded >= NumNodes)
      /\ hpc' \in [Handlers -> {"idle", "logs", "look", "sleep"}] /\ hnode' \in [Handlers -> Nodes]
      /\ hpc'[h] \in {"idle", "look", "sleep"}
      /\ hpc'[h] \in Watching => b = UpgradeHeight - 1
      /\ \A g \in Handlers \ {h} : hpc'[g] = hpc[g]
      /\ hpc'[h] = "look" => ~rows'[hnode'[h]].upgraded
      /\ hpc'[h] = "idle" => hnode' = hnode /\ rows' = rows
  <2>1. /\ rows \in Rows /\ numUpgraded \in Nat /\ numUpgraded = Cardinality(Upgraded(rows))
        /\ hnode \in [Handlers -> Nodes] /\ status \in Statuses
        /\ hpc \in [Handlers -> {"idle", "logs", "look", "sleep"}]
    BY Constants DEF MonitorInv, TypeOK, WatchOK, Counted, Rows, Statuses
  <2>2. CASE b = UpgradeHeight - 1 /\ status # "success"
    <3>1. Walk(h, rows, numUpgraded, 1)
      BY <2>2 DEF OnLogs
    <3> QED
      BY <2>1, <2>2, <3>1, WalkKeeps, Constants DEF Watching
  <2>3. CASE ~(b = UpgradeHeight - 1 /\ status # "success")
    <3>1. hpc' = [hpc EXCEPT ![h] = "idle"] /\ UNCHANGED <<trackerVars, hnode>>
      BY <2>3 DEF OnLogs
    <3> QED
      BY <2>1, <3>1 DEF Watching
  <2> QED
    BY <2>2, <2>3
<1>6. TypeOK'
  BY <1>1, <1>4, <1>5 DEF MonitorInv, TypeOK, Rows, Statuses
<1>7. \A n \in Nodes : rows'[n].upgraded <=> rows[n].upgraded
  <2>1. \A n \in Nodes : n \in Upgraded(rows') <=> n \in Upgraded(rows)
    BY <1>5
  <2> QED
    BY <2>1 DEF Upgraded
<1>8. Deployed' /\ Counted'
  BY <1>1, <1>5, <1>7 DEF MonitorInv, WatchOK, Deployed, Counted
<1>9. \A g \in Handlers : hpc[g] \in Watching => b >= UpgradeHeight
  BY <1>1, <1>2, Constants DEF MonitorInv, WatchOK, OneWatch
<1>10. hpc'[h] \in Watching => \A g \in Handlers \ {h} : hpc'[g] \notin Watching
  <2>1. \A g \in Handlers : hpc[g] \in Watching => b # UpgradeHeight - 1
    BY <1>2, <1>9, Constants
  <2> QED
    BY <1>5, <2>1
<1>11. Looking'
  <2>1. CASE hpc'[h] \in Watching
    BY <2>1, <1>5, <1>10 DEF Looking, Watching
  <2>2. CASE hpc'[h] \notin Watching
    BY <2>2, <1>5 DEF MonitorInv, WatchOK, Looking, Watching
  <2> QED
    BY <2>1, <2>2
<1>12. OneWatch'
  <2>1. \A g \in Handlers : hpc'[g] # "logs"
    BY <1>2, <1>5
  <2>2. CASE hpc'[h] \in Watching
    BY <2>1, <2>2, <1>1, <1>2, <1>5, <1>10, Constants DEF OneWatch
  <2>3. CASE hpc'[h] \notin Watching
    BY <2>1, <2>3, <1>1, <1>2, <1>5 DEF MonitorInv, WatchOK, OneWatch
  <2> QED
    BY <2>2, <2>3
<1>13. OneEvent' /\ TxsCountedOnce'
  <2>1. OneEvent'
    BY <1>1, <1>2, <1>5 DEF OneEvent
  <2>2. \A c \in Heights : totalValidTxs'[c] <= 1 /\ (c \in seen' => totalValidTxs'[c] = 1)
    BY <1>1, <1>2, <1>4 DEF MonitorInv, CountOK, TxsCountedOnce
  <2> QED
    BY <2>1, <2>2 DEF TxsCountedOnce
<1>14. Uncounted'
  <2>1. \A c \in Heights : NotYet(c)' => NotYet(c) /\ c # b
    BY <1>1, <1>2, Constants DEF NotYet
  <2> QED
    BY <1>1, <1>2, <1>4, <1>5, <2>1 DEF MonitorInv, CountOK, Uncounted
<1> QED
  BY <1>6, <1>8, <1>11, <1>12, <1>13, <1>14 DEF MonitorInv, WatchOK, CountOK

\* A round of the watch: a row is upgraded once, when its node is.
LEMMA WatchKeeps ==
  ASSUME MonitorInv, NEW h \in Handlers, Look(h) \/ Wake(h)
  PROVE  MonitorInv'
<1> USE DEF runVars, blockVars, trackerVars, refreshVars, networkVars
<1>1. /\ hpc[h] \in Watching /\ phase = "follow"
      /\ UNCHANGED <<runVars, blockVars, screen, refreshVars, networkVars, faults>>
  BY DEF Look, Wake, Watching
<1>2. /\ rows \in Rows /\ numUpgraded \in Nat /\ numUpgraded = Cardinality(Upgraded(rows))
      /\ hnode \in [Handlers -> Nodes] /\ status \in Statuses
      /\ hpc \in [Handlers -> {"idle", "logs", "look", "sleep"}]
      /\ status = "success" => numUpgraded >= NumNodes
  BY Constants DEF MonitorInv, TypeOK, WatchOK, Counted, Rows, Statuses
<1>3. /\ rows' \in Rows /\ numUpgraded' = Cardinality(Upgraded(rows')) /\ status' \in Statuses
      /\ numUpgraded' \in Nat /\ numUpgraded' >= numUpgraded
      /\ status' = "success" => status = "success" \/ numUpgraded' >= NumNodes
      /\ hpc' \in [Handlers -> {"idle", "logs", "look", "sleep"}] /\ hnode' \in [Handlers -> Nodes]
      /\ hpc'[h] # "logs"
      /\ \A g \in Handlers \ {h} : hpc'[g] = hpc[g]
      /\ hpc'[h] = "look" => ~rows'[hnode'[h]].upgraded
      /\ \A n \in Upgraded(rows') : n \in Upgraded(rows) \/ height[n] >= UpgradeHeight
  <2>1. CASE Wake(h)
    <3>1. CASE status = "success"
      BY <1>2, <2>1, <3>1 DEF Wake
    <3>2. CASE status # "success"
      <4>1. Walk(h, rows, numUpgraded, 1)
        BY <2>1, <3>2 DEF Wake
      <4> QED
        BY <1>2, <4>1, WalkKeeps, Constants DEF Watching
    <3> QED
      BY <3>1, <3>2
  <2>2. CASE Look(h)
    <3> DEFINE k == hnode[h]
               r == IF CheckNodeUpgraded(k) THEN [rows EXCEPT ![k].upgraded = TRUE]
                                                  ELSE [rows EXCEPT ![k].und_version = "upgrading"]
               num == IF CheckNodeUpgraded(k) THEN numUpgraded + 1 ELSE numUpgraded
    <3>1. k \in Nodes /\ k + 1 \in Nodes \cup {NumNodes + 1}
      BY <1>2, Constants DEF Nodes
    <3>2. ~rows[k].upgraded
      BY <2>2 DEF Look, MonitorInv, WatchOK, Looking
    <3>3. r \in Rows
      BY <1>2, <3>1 DEF Rows, Versions
    <3>4. Upgraded(r) = IF CheckNodeUpgraded(k) THEN Upgraded(rows) \cup {k} ELSE Upgraded(rows)
      <4>1. CASE CheckNodeUpgraded(k)
        <5>1. \A n \in Nodes : r[n].upgraded <=> (n = k \/ rows[n].upgraded)
          BY <1>2, <3>1, <4>1 DEF Rows
        <5> QED
          BY <4>1, <5>1, <3>1 DEF Upgraded
      <4>2. CASE ~(CheckNodeUpgraded(k))
        <5>1. \A n \in Nodes : r[n].upgraded <=> rows[n].upgraded
          BY <1>2, <3>1, <4>2 DEF Rows
        <5> QED
          BY <4>2, <5>1 DEF Upgraded
      <4> QED
        BY <4>1, <4>2
    <3>5. num = Cardinality(Upgraded(r)) /\ num \in Nat /\ num >= numUpgraded
      <4>1. k \notin Upgraded(rows) /\ IsFiniteSet(Upgraded(rows))
        BY <3>2, UpgradedFinite DEF Upgraded
      <4>2. Cardinality(Upgraded(rows) \cup {k}) = Cardinality(Upgraded(rows)) + 1
        BY <4>1, FS_AddElement
      <4> QED
        BY <1>2, <3>4, <4>2
    <3>6. Walk(h, r, num, k + 1)
      BY <2>2 DEF Look
    <3>7. CheckNodeUpgraded(k) => height[k] >= UpgradeHeight
      BY DEF CheckNodeUpgraded, InTail
    <3> QED
      BY <1>2, <3>1, <3>3, <3>4, <3>5, <3>6, <3>7, WalkKeeps DEF Watching
  <2> QED
    BY <2>1, <2>2
<1>4. numUpgraded' \in 0 .. NumNodes
  BY <1>3, UpgradedFinite
<1>5. TypeOK'
  BY <1>1, <1>3, <1>4 DEF MonitorInv, TypeOK, Rows, Statuses
<1>6. Deployed'
  BY <1>1, <1>3 DEF MonitorInv, WatchOK, Deployed, Upgraded
<1>7. Counted'
  BY <1>2, <1>3, <1>4, Constants DEF Counted
<1>8. \A g \in Handlers : hpc[g] \in Watching => g = h
  BY <1>1 DEF MonitorInv, WatchOK, OneWatch
<1>9. \A g \in Handlers : hpc'[g] = "logs" => hpc[g] = "logs"
  BY <1>3
<1>10. \A g \in Handlers : hpc'[g] \in Watching => g = h
  BY <1>3, <1>8
<1>11. Looking'
  BY <1>3, <1>10 DEF Looking, Watching
<1>12. OneWatch'
  BY <1>1, <1>9, <1>10 DEF MonitorInv, WatchOK, OneWatch
<1>13. OneEvent' /\ Uncounted'
  BY <1>1, <1>9 DEF MonitorInv, CountOK, OneEvent, Uncounted, NotYet, BeforeFollow
<1>14. TxsCountedOnce'
  <2>1. \A g \in Handlers : hpc[g] = "logs" => hpc'[g] = "logs"
    BY <1>1, <1>3 DEF Watching
  <2> QED
    BY <1>1, <2>1 DEF MonitorInv, CountOK, TxsCountedOnce
<1> QED
  BY <1>5, <1>6, <1>7, <1>11, <1>12, <1>13, <1>14 DEF MonitorInv, WatchOK, CountOK

\* The next block: with Prompt, what the block before it started has been read.
LEMMA CommitKeeps ==
  ASSUME Prompt, MonitorInv, NEW n \in Nodes, Commit(n)
  PROVE  MonitorInv'
<1> USE DEF runVars, blockVars, trackerVars, handlerVars, refreshVars
<1> DEFINE b == height[n] + 1
<1>1. /\ b <= MaxHeight /\ (b >= UpgradeHeight => binary[n] = "new")
      /\ height' = [height EXCEPT ![n] = b]
      /\ events' = IF n = Query /\ phase = "follow" THEN events \cup {b} ELSE events
      /\ UNCHANGED <<runVars, blockVars, screen, trackerVars, handlerVars, refreshVars, binary,
                     data, faults>>
  BY DEF Commit
<1>2. events = {} /\ \A h \in Handlers : hpc[h] \notin {"logs", "look"}
  BY DEF Commit, Settled
<1>3. height \in [Nodes -> Heights] /\ b \in Heights /\ b \in Nat /\ height[Query] \in Nat
      /\ height[n] \in Nat
  BY <1>1, QueryHeight, Constants, SMTT(20) DEF MonitorInv, TypeOK, Heights
<1>4. TypeOK'
  BY <1>1, <1>3 DEF MonitorInv, TypeOK
<1>5. \A m \in Nodes : height'[m] = IF m = n THEN b ELSE height[m]
  BY <1>1, <1>3
<1>6. Deployed'
  BY <1>1, <1>3, <1>5, Constants DEF MonitorInv, WatchOK, Deployed
<1>7. Counted' /\ Looking'
  BY <1>1 DEF MonitorInv, WatchOK, Counted, Upgraded, Looking
<1>8. OneWatch'
  BY <1>1, <1>2, <1>3, <1>5, Constants DEF MonitorInv, WatchOK, OneWatch
<1>9. OneEvent'
  BY <1>1, <1>2, <1>5, Constants DEF OneEvent
<1>10. Uncounted'
  <2>1. \A c \in Heights : NotYet(c)' => NotYet(c)
    BY <1>1, <1>2, <1>3, <1>5, Constants DEF NotYet
  <2> QED
    BY <1>1, <1>2, <2>1 DEF MonitorInv, CountOK, Uncounted, BeforeFollow
<1>11. TxsCountedOnce'
  BY <1>1 DEF MonitorInv, CountOK, TxsCountedOnce
<1> QED
  BY <1>4, <1>6, <1>7, <1>8, <1>9, <1>10, <1>11 DEF MonitorInv, WatchOK, CountOK

\* The faults, restarts and changes of data.
LEMMA OthersKeep ==
  ASSUME MonitorInv, NEW n \in Nodes, NEW h \in Handlers,
         Restart(n) \/ LoseEvents \/ DataChanges \/ Crash(h) \/ UNCHANGED vars
  PROVE  MonitorInv'
<1> USE DEF runVars, blockVars, trackerVars, handlerVars, refreshVars, networkVars, vars
<1>1. CASE Restart(n)
  <2>1. binary' = [binary EXCEPT ![n] = "new"] /\ phase' = phase
        /\ UNCHANGED <<runVars, blockVars, screen, trackerVars, handlerVars, refreshVars, height,
                       events, data, faults>>
    BY <1>1 DEF Restart
  <2>2. TypeOK'
    BY <2>1 DEF MonitorInv, TypeOK
  <2>3. Deployed'
    BY <2>1 DEF MonitorInv, TypeOK, WatchOK, Deployed
  <2>4. Counted' /\ Looking' /\ OneWatch'
    BY <2>1 DEF MonitorInv, WatchOK, Counted, Upgraded, Looking, OneWatch
  <2>5. CountOK'
    BY <2>1 DEF MonitorInv, CountOK, OneEvent, Uncounted, NotYet, TxsCountedOnce
  <2> QED
    BY <2>2, <2>3, <2>4, <2>5 DEF MonitorInv, WatchOK
<1>2. CASE LoseEvents
  <2>1. events' = {} /\ faults < MaxFaults /\ faults' = faults + 1
        /\ UNCHANGED <<runVars, blockVars, screen, trackerVars, handlerVars, refreshVars, height,
                       binary, data>>
    BY <1>2 DEF LoseEvents, Fault
  <2>2. TypeOK'
    BY <2>1, Constants DEF MonitorInv, TypeOK
  <2>3. WatchOK'
    BY <2>1 DEF MonitorInv, WatchOK, Deployed, Counted, Upgraded, Looking, OneWatch
  <2>4. CountOK'
    BY <2>1 DEF MonitorInv, CountOK, OneEvent, Uncounted, NotYet, TxsCountedOnce
  <2> QED
    BY <2>2, <2>3, <2>4 DEF MonitorInv
<1>3. CASE DataChanges
  <2>1. \E k \in DOMAIN Data : data' = Data[k]
    BY <1>3 DEF DataChanges, Data
  <2>2. UNCHANGED <<runVars, blockVars, screen, trackerVars, handlerVars, refreshVars, height,
                    binary, events, faults>>
    BY <1>3 DEF DataChanges
  <2>3. TypeOK'
    BY <2>1, <2>2 DEF MonitorInv, TypeOK
  <2> QED
    BY <2>2, <2>3, QuietKeeps DEF MonitorInv
<1>4. CASE Crash(h)
  <2>1. phase' = "crashed" /\ faults < MaxFaults /\ faults' = faults + 1
        /\ UNCHANGED <<rpcUp, blockVars, screen, trackerVars, handlerVars, refreshVars, networkVars>>
    BY <1>4 DEF Crash, Fault
  <2>2. TypeOK'
    BY <2>1, Constants DEF MonitorInv, TypeOK
  <2> QED
    BY <2>1, <2>2, QuietKeeps DEF MonitorInv, BeforeFollow
<1>5. CASE UNCHANGED vars
  <2>1. TypeOK'
    BY <1>5 DEF MonitorInv, TypeOK
  <2> QED
    BY <1>5, <2>1, QuietKeeps DEF MonitorInv
<1> QED
  BY <1>1, <1>2, <1>3, <1>4, <1>5

\* Each step keeps the invariant.
LEMMA NextKeeps == ASSUME Prompt, MonitorInv, [Next]_vars PROVE MonitorInv'
<1>1. CASE StartUp
  BY <1>1, StartUpKeeps
<1>2. ASSUME NEW h \in Handlers, Handler(h) PROVE MonitorInv'
  BY <1>2, OnBlockKeeps, OnLogsKeeps, WatchKeeps DEF Handler
<1>3. ASSUME NEW r \in Refreshers, Refresh(r) \/ SkipRefresh(r) PROVE MonitorInv'
  BY <1>3, RefreshKeeps
<1>4. ASSUME NEW n \in Nodes, Commit(n) PROVE MonitorInv'
  BY <1>4, CommitKeeps
<1>5. 1 \in Handlers /\ 1 \in Nodes
  BY MonitorAssumption, Constants DEF Handlers
<1>6. ASSUME NEW h \in Handlers, Crash(h) PROVE MonitorInv'
  BY <1>5, <1>6, OthersKeep
<1>7. ASSUME NEW n \in Nodes, Restart(n) PROVE MonitorInv'
  BY <1>5, <1>7, OthersKeep
<1>8. CASE LoseEvents \/ DataChanges \/ UNCHANGED vars
  BY <1>5, <1>8, OthersKeep
<1> QED
  BY <1>1, <1>2, <1>3, <1>4, <1>6, <1>7, <1>8 DEF Next, Network

\* The types of the monitor's state, the counter of upgraded rows never past their number.
THEOREM MonitorTypeOK == ASSUME Prompt PROVE Spec => []TypeOK
<1>1. Init => MonitorInv
  BY InitMonitorInv
<1>2. MonitorInv /\ [Next]_vars => MonitorInv'
  BY NextKeeps
<1>3. MonitorInv => TypeOK
  BY DEF MonitorInv
<1> QED
  BY <1>1, <1>2, <1>3, PTL DEF Spec

\* "UPGRADE SUCCESSFUL" is not shown before every node has committed the block of the upgrade
\* with the new binary (nodes.mjs: NodeTracker.watchUpgrade).
THEOREM MonitorSuccess == ASSUME Prompt PROVE Spec => []SuccessMeansUpgraded
<1>1. Init => MonitorInv
  BY InitMonitorInv
<1>2. MonitorInv /\ [Next]_vars => MonitorInv'
  BY NextKeeps
<1>3. MonitorInv => SuccessMeansUpgraded
  <2> SUFFICES ASSUME MonitorInv, status = "success", NEW n \in Nodes
               PROVE  rows[n].upgraded /\ binary[n] = "new" /\ height[n] >= UpgradeHeight
    BY DEF SuccessMeansUpgraded
  <2>1. Upgraded(rows) = Nodes
    BY UpgradedFinite DEF MonitorInv, WatchOK, Counted
  <2>2. rows[n].upgraded
    BY <2>1 DEF Upgraded
  <2> QED
    BY <2>2 DEF MonitorInv, WatchOK, Deployed
<1> QED
  BY <1>1, <1>2, <1>3, PTL DEF Spec

\* The txs of a block whose event came are counted once, on either side of the upgrade
\* (monitor.mjs: #onBlock, run: the total of the log so far).
THEOREM MonitorCountsOnce == ASSUME Prompt PROVE Spec => []TxsCountedOnce
<1>1. Init => MonitorInv
  BY InitMonitorInv
<1>2. MonitorInv /\ [Next]_vars => MonitorInv'
  BY NextKeeps
<1>3. MonitorInv => TxsCountedOnce
  BY DEF MonitorInv, CountOK
<1> QED
  BY <1>1, <1>2, <1>3, PTL DEF Spec
===============================================================================
