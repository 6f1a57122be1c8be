------------------------- MODULE HardhatNodeProofs --------------------------
(***************************************************************************)
(* What TLAPS proves of module HardhatNode, for any number of states,      *)
(* transactions and snapshots and any resolution of the clock.             *)
(***************************************************************************)
EXTENDS HardhatNode, SequenceTheorems, TLAPS

-----------------------------------------------------------------------------
(* Seconds.                                                                   *)

LEMMA DivBounds ==
    ASSUME NEW x \in Int
    PROVE  /\ x \div TicksPerSecond \in Int
           /\ TicksPerSecond * (x \div TicksPerSecond) <= x
           /\ x < TicksPerSecond * (x \div TicksPerSecond) + TicksPerSecond
BY TimeAssumption, SMTT(20)

LEMMA CompareTicks ==
    ASSUME NEW a \in Int, NEW b \in Int,
           TicksPerSecond * a < TicksPerSecond * b + TicksPerSecond
    PROVE  a <= b
<1>1. SUFFICES ASSUME a >= b + 1 PROVE FALSE
  OBVIOUS
<1>2. TicksPerSecond * a >= TicksPerSecond * b + TicksPerSecond
  BY <1>1, TimeAssumption, SMTT(20)
<1>3. TicksPerSecond * a \in Int /\ TicksPerSecond * b \in Int
  BY TimeAssumption
<1> QED
  BY <1>2, <1>3, TimeAssumption

LEMMA SumOfTicks ==
    ASSUME NEW a \in Int, NEW b \in Int
    PROVE  /\ TicksPerSecond * (a + b) = TicksPerSecond * a + TicksPerSecond * b
           /\ TicksPerSecond * a \in Int
           /\ TicksPerSecond * b \in Int
           /\ TicksPerSecond \in Int
BY TimeAssumption, SMTT(20)

\* Rounding up, in the terms of ticks.
LEMMA CeilBounds ==
    ASSUME NEW x \in Int
    PROVE  /\ CeilSeconds(x) \in Int
           /\ TicksPerSecond * CeilSeconds(x) >= x
           /\ TicksPerSecond * CeilSeconds(x) < x + TicksPerSecond
<1>1. x + TicksPerSecond - 1 \in Int /\ TicksPerSecond \in Int
  BY TimeAssumption
<1>2. CeilSeconds(x) \in Int
  BY <1>1, DivBounds DEF CeilSeconds
<1>3. TicksPerSecond * CeilSeconds(x) \in Int
  BY <1>2, SumOfTicks
<1> QED
  BY <1>1, <1>2, <1>3, DivBounds DEF CeilSeconds

\* The clock does not go back by rounding: neither while time passes, nor when the time
\* since a snapshot is rounded up as well.
LEMMA CeilMonotone ==
    ASSUME NEW x \in Int, NEW y \in Int, x <= y
    PROVE  CeilSeconds(x) <= CeilSeconds(y)
<1>1. TicksPerSecond * CeilSeconds(x) < TicksPerSecond * CeilSeconds(y) + TicksPerSecond
  <2> DEFINE a == TicksPerSecond * CeilSeconds(x)
             b == TicksPerSecond * CeilSeconds(y)
  <2>1. a \in Int /\ b \in Int /\ TicksPerSecond \in Int /\ a < x + TicksPerSecond /\ b >= y
    BY CeilBounds, SumOfTicks
  <2> HIDE DEF a, b
  <2>2. a < b + TicksPerSecond
    BY <2>1
  <2> QED
    BY <2>2 DEF a, b
<1> QED
  BY <1>1, CeilBounds, CompareTicks

LEMMA CeilOfSum ==
    ASSUME NEW x \in Int, NEW y \in Int
    PROVE  CeilSeconds(x + y) <= CeilSeconds(x) + CeilSeconds(y)
<1>1. x + y \in Int
  OBVIOUS
<1>2. TicksPerSecond * (CeilSeconds(x) + CeilSeconds(y))
        = TicksPerSecond * CeilSeconds(x) + TicksPerSecond * CeilSeconds(y)
  BY CeilBounds, SumOfTicks
<1>3. TicksPerSecond * CeilSeconds(x + y)
        < TicksPerSecond * (CeilSeconds(x) + CeilSeconds(y)) + TicksPerSecond
  <2> DEFINE a == TicksPerSecond * CeilSeconds(x)
             b == TicksPerSecond * CeilSeconds(y)
             c == TicksPerSecond * CeilSeconds(x + y)
  <2>1. a \in Int /\ b \in Int /\ c \in Int /\ TicksPerSecond \in Int
    BY <1>1, CeilBounds, SumOfTicks
  <2>2. a >= x /\ b >= y /\ c < x + y + TicksPerSecond
    BY <1>1, CeilBounds
  <2>3. TicksPerSecond * (CeilSeconds(x) + CeilSeconds(y)) = a + b
    BY <1>2
  <2> HIDE DEF a, b, c
  <2>4. c < a + b + TicksPerSecond
    BY <2>1, <2>2
  <2> QED
    BY <2>3, <2>4 DEF c
<1> QED
  BY <1>1, <1>3, CeilBounds, CompareTicks

\* A genesis block with an initial date: the offset is rounded down, the clock up.
LEMMA InitialDate ==
    ASSUME NEW date \in Int, NEW time \in Int
    PROVE  date \div TicksPerSecond
             <= CeilSeconds(time) + ((date - time) \div TicksPerSecond)
<1> DEFINE offset == (date - time) \div TicksPerSecond
<1>1. date - time \in Int
  OBVIOUS
<1>2. offset \in Int
  BY <1>1, DivBounds
<1>3. date - time < TicksPerSecond * offset + TicksPerSecond
  BY <1>1, DivBounds
<1>4. TicksPerSecond * (CeilSeconds(time) + offset)
        = TicksPerSecond * CeilSeconds(time) + TicksPerSecond * offset
  BY <1>2, CeilBounds, SumOfTicks
<1> HIDE DEF offset
<1>5. TicksPerSecond * (date \div TicksPerSecond)
        < TicksPerSecond * (CeilSeconds(time) + offset) + TicksPerSecond
  <2> DEFINE a == TicksPerSecond * (date \div TicksPerSecond)
             b == TicksPerSecond * CeilSeconds(time)
             c == TicksPerSecond * offset
  <2>1. a \in Int /\ b \in Int /\ c \in Int /\ TicksPerSecond \in Int
    BY <1>2, DivBounds, CeilBounds, SumOfTicks
  <2>2. a <= date /\ b >= time /\ date - time < c + TicksPerSecond
    BY <1>3, DivBounds, CeilBounds
  <2> HIDE DEF a, b, c
  <2>3. a < b + c + TicksPerSecond
    BY <2>1, <2>2
  <2> QED
    BY <1>4, <2>3 DEF a, b, c
<1>6. date \div TicksPerSecond <= CeilSeconds(time) + offset
  BY <1>2, <1>5, DivBounds, CeilBounds, CompareTicks
<1> QED
  BY <1>6 DEF offset

LEMMA OneSecond ==
    ASSUME NEW x \in Int, x >= TicksPerSecond
    PROVE  CeilSeconds(x) >= 1 /\ x \div TicksPerSecond >= 1
<1>1. TicksPerSecond * 1 = TicksPerSecond /\ 1 \in Int
  BY TimeAssumption
<1>2. TicksPerSecond * 1 < TicksPerSecond * CeilSeconds(x) + TicksPerSecond
  BY <1>1, CeilBounds, SumOfTicks, TimeAssumption
<1>3. TicksPerSecond * 1 < TicksPerSecond * (x \div TicksPerSecond) + TicksPerSecond
  BY <1>1, DivBounds, SumOfTicks, TimeAssumption
<1> QED
  BY <1>1, <1>2, <1>3, CeilBounds, DivBounds, CompareTicks

-----------------------------------------------------------------------------
(* The structure of the node's state: types, and what ids and snapshots refer *)
(* to.  That timestamps are naturals needs a clock that is never before 1,    *)
(* although the offset may be negative.                                       *)

Maps == UNION {[numbers -> States] : numbers \in SUBSET Nat}

SnapshotType ==
    [id : Nat, date : Nat, latestBlock : [number : Nat, block : Block], stateRoot : States,
     blockTimeOffsetSeconds : Int, nextBlockTimestamp : Nat, irregularStates : Maps]

Typed ==
    /\ now \in Nat
    /\ blockTimeOffsetSeconds \in Int
    /\ nextBlockTimestamp \in Nat
    /\ chain \in Seq(Block) /\ chain # << >>
    /\ stateRoot \in States
    /\ irregularStates \in Maps
    /\ pending \in SUBSET Txs
    /\ poolSnapshots \in SUBSET [id : Nat, pending : SUBSET Txs]
    /\ snapshots \in Seq(SnapshotType)
    /\ nextSnapshotId \in Nat \ {0}
    /\ task \in Task

TimeIsPositive ==
    /\ CurrentTimestamp + blockTimeOffsetSeconds >= 1
    /\ \A i \in DOMAIN snapshots :
        CeilSeconds(snapshots[i].date) + snapshots[i].blockTimeOffsetSeconds >= 1
    /\ \A i \in DOMAIN chain : chain[i].timestamp >= 1

IdsAreFresh == \A p \in poolSnapshots : p.id < nextSnapshotId

TaskIsSound ==
    /\ task.op \in {"pending", "send"} => \E i \in DOMAIN snapshots : snapshots[i].id = task.id
    /\ task.op = "mine" => task.left >= 1

Structure ==
    Typed /\ TimeIsPositive /\ SnapshotsAreAncestors /\ IdsAreFresh /\ TaskIsSound

LEMMA MapElements ==
    ASSUME NEW map \in Maps
    PROVE  /\ map \in [DOMAIN map -> States]
           /\ DOMAIN map \subseteq Nat
           /\ \A n \in DOMAIN map : map[n] \in States
BY DEF Maps

LEMMA LookupType ==
    ASSUME NEW map \in Maps, NEW n, NEW state \in States
    PROVE  Lookup(map, n, state) \in States
BY MapElements DEF Lookup

LEMMA WithType ==
    ASSUME NEW map \in Maps, NEW n \in Nat, NEW state \in States
    PROVE  /\ With(map, n, state) \in Maps
           /\ DOMAIN With(map, n, state) = DOMAIN map \union {n}
           /\ \A other : Lookup(With(map, n, state), n, other) = state
<1>1. With(map, n, state) \in [DOMAIN map \union {n} -> States]
  BY MapElements DEF With
<1>2. DOMAIN map \union {n} \in SUBSET Nat
  BY MapElements
<1>3. With(map, n, state) \in Maps
  BY <1>1, <1>2 DEF Maps
<1> QED
  BY <1>3 DEF With, Lookup

LEMMA ChainFacts ==
    ASSUME Typed
    PROVE  /\ Len(chain) \in Nat \ {0}
           /\ DOMAIN chain = 1 .. Len(chain)
           /\ LatestNumber \in Nat
           /\ \A i \in 1 .. Len(chain) : chain[i] \in Block
           /\ Latest \in Block
           /\ Latest = chain[LatestNumber + 1]
<1>1. Len(chain) \in Nat \ {0} /\ DOMAIN chain = 1 .. Len(chain)
  BY EmptySeq, LenProperties DEF Typed
<1>2. \A i \in 1 .. Len(chain) : chain[i] \in Block
  BY ElementOfSeq DEF Typed
<1> QED
  BY <1>1, <1>2 DEF Latest, LatestNumber

LEMMA SnapshotFacts ==
    ASSUME Typed
    PROVE  /\ Len(snapshots) \in Nat
           /\ DOMAIN snapshots = 1 .. Len(snapshots)
           /\ \A i \in DOMAIN snapshots : snapshots[i] \in SnapshotType
BY LenProperties, ElementOfSeq DEF Typed

LEMMA ClockFacts ==
    ASSUME Typed
    PROVE  CurrentTimestamp \in Int
BY CeilBounds DEF Typed, CurrentTimestamp

-----------------------------------------------------------------------------
(* What mining, snapshots and reverts do to the structure.                    *)

\* A block on top of the chain, made of transactions in pool.
Mines(block, pool) ==
    /\ block \in Block /\ block.timestamp >= 1 /\ block.txs \subseteq pool
    /\ chain' = Append(chain, block)
    /\ stateRoot' = block.state
    /\ irregularStates' = irregularStates
    /\ pending' \subseteq pool \ block.txs
    /\ blockTimeOffsetSeconds' \in Int
    /\ CurrentTimestamp' + blockTimeOffsetSeconds' >= 1
    /\ nextBlockTimestamp' = 0

LEMMA MineBlockEffect ==
    ASSUME Typed, TimeIsPositive, NEW timestamp \in Nat, NEW pool \in SUBSET Txs,
           MineBlock(timestamp, pool), UNCHANGED now
    PROVE  \E block : Mines(block, pool)
<1> DEFINE asked == IF timestamp # 0 THEN timestamp ELSE nextBlockTimestamp
           computed == IF asked # 0 THEN asked ELSE CurrentTimestamp + blockTimeOffsetSeconds
           clash == ~ AllowBlocksWithSameTimestamp /\ computed = Latest.timestamp
           stamp == IF clash THEN computed + 1 ELSE computed
<1>1. PICK txs \in SUBSET pool, state \in States :
        /\ chain' = Append(chain, [timestamp |-> stamp, state |-> state, txs |-> txs])
        /\ stateRoot' = state
        /\ pending' \in StillPending(pool, txs)
  BY DEF MineBlock
<1>2. /\ CurrentTimestamp \in Int /\ CurrentTimestamp' = CurrentTimestamp
      /\ blockTimeOffsetSeconds \in Int /\ nextBlockTimestamp \in Nat
      /\ CurrentTimestamp + blockTimeOffsetSeconds >= 1
  BY ClockFacts DEF Typed, CurrentTimestamp, TimeIsPositive
<1>3. asked \in Nat /\ computed \in Nat \ {0} /\ stamp \in Nat \ {0}
  BY <1>2
<1>4. blockTimeOffsetSeconds' = NewOffset(asked, clash)
  BY DEF MineBlock
<1>5. /\ blockTimeOffsetSeconds' \in Int
      /\ CurrentTimestamp' + blockTimeOffsetSeconds' >= 1
  <2> HIDE DEF clash, asked
  <2> QED
    BY <1>2, <1>3, <1>4 DEF NewOffset
<1> DEFINE block == [timestamp |-> stamp, state |-> state, txs |-> txs]
<1>6. block \in Block /\ block.timestamp >= 1 /\ block.txs = txs /\ block.state = state
  BY <1>3 DEF Block
<1>7. pending' \subseteq pool \ txs
  BY <1>1 DEF StillPending
<1>8. irregularStates' = irregularStates /\ nextBlockTimestamp' = 0
  BY DEF MineBlock
<1> HIDE DEF stamp
<1>9. Mines(block, pool)
  BY <1>1, <1>5, <1>6, <1>7, <1>8 DEF Mines
<1> QED
  BY <1>9

\* The chain keeps its blocks and may get more.
ChainGrows ==
    /\ chain' \in Seq(Block) /\ chain' # << >>
    /\ Len(chain) <= Len(chain')
    /\ \A i \in 1 .. Len(chain) : chain'[i] = chain[i]
    /\ \A i \in DOMAIN chain' : chain'[i].timestamp >= 1

LEMMA MinedChainGrows ==
    ASSUME Typed, TimeIsPositive, NEW block, NEW pool, Mines(block, pool)
    PROVE  /\ ChainGrows
           /\ Len(chain') = Len(chain) + 1
           /\ chain'[Len(chain) + 1] = block
           /\ Latest' = block
           /\ LatestNumber' = LatestNumber + 1
<1>1. block \in Block /\ block.timestamp >= 1 /\ chain' = Append(chain, block)
  BY DEF Mines
<1>2. chain \in Seq(Block)
  BY DEF Typed
<1>3. /\ chain' \in Seq(Block)
      /\ Len(chain') = Len(chain) + 1
      /\ \A i \in 1 .. Len(chain) : chain'[i] = chain[i]
      /\ chain'[Len(chain) + 1] = block
  BY <1>1, <1>2, AppendProperties
<1>4. DOMAIN chain' = 1 .. Len(chain) + 1 /\ Len(chain) \in Nat
  BY <1>2, <1>3, LenProperties
<1>5. chain' # << >>
  BY <1>3, <1>4, EmptySeq
<1>6. \A i \in DOMAIN chain' : chain'[i].timestamp >= 1
  BY <1>1, <1>3, <1>4, ChainFacts DEF TimeIsPositive
<1> QED
  BY <1>3, <1>4, <1>5, <1>6 DEF ChainGrows, Latest, LatestNumber

\* What snapshots refer to stays when the chain only grows.
LEMMA GrowthKeepsSnapshots ==
    ASSUME Typed, SnapshotsAreAncestors, ChainGrows, UNCHANGED snapshotVars
    PROVE  SnapshotsAreAncestors'
<1>1. Len(chain) \in Nat /\ Len(chain') \in Nat
  BY ChainFacts, LenProperties DEF ChainGrows
<1>2. \A i \in DOMAIN snapshots : snapshots[i].latestBlock.number \in Nat
  BY SnapshotFacts DEF SnapshotType
<1>3. ASSUME NEW i \in DOMAIN snapshots
      PROVE  LET latest == snapshots[i].latestBlock
             IN  /\ latest.number \in 0 .. LatestNumber'
                 /\ chain'[latest.number + 1] = latest.block
  BY <1>1, <1>2 DEF SnapshotsAreAncestors, ChainGrows, LatestNumber
<1>4. snapshots' = snapshots /\ poolSnapshots' = poolSnapshots /\ nextSnapshotId' = nextSnapshotId
  BY DEF snapshotVars
<1> QED
  BY <1>3, <1>4 DEF SnapshotsAreAncestors

LEMMA TakeSnapshotEffect ==
    ASSUME Typed, TimeIsPositive, SnapshotsAreAncestors, IdsAreFresh,
           TakeSnapshot, UNCHANGED <<now, chain>>
    PROVE  /\ poolSnapshots' \in SUBSET [id : Nat, pending : SUBSET Txs]
           /\ snapshots' \in Seq(SnapshotType)
           /\ nextSnapshotId' \in Nat \ {0}
           /\ \A i \in DOMAIN snapshots' :
                CeilSeconds(snapshots'[i].date) + snapshots'[i].blockTimeOffsetSeconds >= 1
           /\ \E i \in DOMAIN snapshots' : snapshots'[i].id = nextSnapshotId
           /\ SnapshotsAreAncestors' /\ IdsAreFresh'
<1> DEFINE snapshot ==
        [id |-> nextSnapshotId,
         date |-> now,
         latestBlock |-> [number |-> LatestNumber, block |-> Latest],
         stateRoot |-> stateRoot,
         blockTimeOffsetSeconds |-> blockTimeOffsetSeconds,
         nextBlockTimestamp |-> nextBlockTimestamp,
         irregularStates |-> irregularStates]
<1>1. snapshot \in SnapshotType
  BY ChainFacts DEF Typed, SnapshotType
<1>2. snapshots' = Append(snapshots, snapshot)
  BY DEF TakeSnapshot
<1>3. /\ snapshot.id = nextSnapshotId
      /\ snapshot.latestBlock.number = LatestNumber
      /\ snapshot.latestBlock.block = Latest
      /\ CeilSeconds(snapshot.date) + snapshot.blockTimeOffsetSeconds >= 1
  BY DEF TimeIsPositive, CurrentTimestamp
<1> HIDE DEF snapshot
<1> DEFINE n == Len(snapshots)
<1>4. n \in Nat /\ DOMAIN snapshots = 1 .. n
  BY SnapshotFacts
<1>5. /\ snapshots' \in Seq(SnapshotType)
      /\ Len(snapshots') = n + 1
      /\ \A i \in 1 .. n : snapshots'[i] = snapshots[i]
      /\ snapshots'[n + 1] = snapshot
  BY <1>1, <1>2, AppendProperties DEF Typed
<1>6. DOMAIN snapshots' = 1 .. n + 1
  BY <1>5, LenProperties
<1>7. /\ nextSnapshotId \in Nat \ {0}
      /\ nextSnapshotId' = nextSnapshotId + 1
      /\ poolSnapshots' = poolSnapshots \union {[id |-> nextSnapshotId, pending |-> pending]}
  BY DEF Typed, TakeSnapshot
<1>8. poolSnapshots' \in SUBSET [id : Nat, pending : SUBSET Txs]
  BY <1>7 DEF Typed
<1>9. \A i \in DOMAIN snapshots' :
        CeilSeconds(snapshots'[i].date) + snapshots'[i].blockTimeOffsetSeconds >= 1
  BY <1>3, <1>4, <1>5, <1>6 DEF TimeIsPositive
<1>10. IdsAreFresh'
  BY <1>7 DEF IdsAreFresh, Typed
<1>11. chain' = chain /\ LatestNumber' = LatestNumber
  BY DEF LatestNumber
<1>12. ASSUME NEW i \in 1 .. n
       PROVE  /\ snapshots[i].latestBlock.number \in 0 .. LatestNumber
              /\ chain[snapshots[i].latestBlock.number + 1] = snapshots[i].latestBlock.block
              /\ \E p \in poolSnapshots' : p.id = snapshots[i].id
              /\ snapshots[i].id < nextSnapshotId
              /\ snapshots[i].id \in Nat
  BY <1>4, <1>7, SnapshotFacts DEF SnapshotsAreAncestors, SnapshotType
<1>13. ASSUME NEW i \in 1 .. n, NEW j \in 1 .. i - 1
       PROVE  /\ snapshots[j].id < snapshots[i].id
              /\ snapshots[j].latestBlock.number <= snapshots[i].latestBlock.number
  BY <1>4 DEF SnapshotsAreAncestors
<1>14. /\ LatestNumber \in 0 .. LatestNumber
       /\ chain[LatestNumber + 1] = Latest
  BY ChainFacts
<1>15. \E p \in poolSnapshots' : p.id = nextSnapshotId
  <2>1. [id |-> nextSnapshotId, pending |-> pending] \in poolSnapshots'
    BY <1>7
  <2> QED
    BY <2>1
<1>16. ASSUME NEW i \in 1 .. n + 1
       PROVE  LET latest == snapshots'[i].latestBlock
              IN  /\ latest.number \in 0 .. LatestNumber
                  /\ chain[latest.number + 1] = latest.block
                  /\ \E p \in poolSnapshots' : p.id = snapshots'[i].id
                  /\ snapshots'[i].id < nextSnapshotId'
                  /\ \A j \in 1 .. i - 1 :
                      /\ snapshots'[j].id < snapshots'[i].id
                      /\ snapshots'[j].latestBlock.number <= latest.number
  <2>1. CASE i \in 1 .. n
    <3>1. snapshots'[i] = snapshots[i] /\ \A j \in 1 .. i - 1 : snapshots'[j] = snapshots[j]
      BY <2>1, <1>4, <1>5
    <3>2. snapshots[i].id < nextSnapshotId'
      BY <2>1, <1>7, <1>12
    <3> QED
      BY <2>1, <3>1, <3>2, <1>12, <1>13
  <2>2. CASE i = n + 1
    <3>1. /\ snapshots'[i] = snapshot
          /\ \A j \in 1 .. i - 1 : j \in 1 .. n /\ snapshots'[j] = snapshots[j]
      BY <2>2, <1>4, <1>5
    <3>2. nextSnapshotId < nextSnapshotId'
      BY <1>7
    <3>3. \A j \in 1 .. n :
            snapshots[j].id < nextSnapshotId /\ snapshots[j].latestBlock.number <= LatestNumber
      BY <1>12
    <3> QED
      BY <3>1, <3>2, <3>3, <1>3, <1>14, <1>15
  <2> QED
    BY <2>1, <2>2, <1>4
<1>17. SnapshotsAreAncestors'
  BY <1>6, <1>11, <1>16 DEF SnapshotsAreAncestors
<1>18. \E i \in DOMAIN snapshots' : snapshots'[i].id = nextSnapshotId
  BY <1>3, <1>4, <1>5, <1>6
<1> QED
  BY <1>5, <1>7, <1>8, <1>9, <1>10, <1>17, <1>18

\* The snapshots before one of them.
LEMMA SnapshotsBeforeFacts ==
    ASSUME Typed, NEW i \in DOMAIN snapshots
    PROVE  /\ SnapshotsBefore(i) \in Seq(SnapshotType)
           /\ DOMAIN SnapshotsBefore(i) = 1 .. i - 1
           /\ \A j \in 1 .. i - 1 :
                j \in DOMAIN snapshots /\ SnapshotsBefore(i)[j] = snapshots[j]
<1>1. /\ Len(snapshots) \in Nat /\ DOMAIN snapshots = 1 .. Len(snapshots)
      /\ \A j \in DOMAIN snapshots : snapshots[j] \in SnapshotType
  BY SnapshotFacts
<1>2. \A j \in 1 .. i - 1 : snapshots[j] \in SnapshotType
  BY <1>1
<1>3. 1 \in Int /\ i - 1 \in Int
  BY <1>1
<1>4. /\ SubSeq(snapshots, 1, i - 1) \in Seq(SnapshotType)
      /\ Len(SubSeq(snapshots, 1, i - 1)) = IF 1 <= i - 1 THEN i - 1 - 1 + 1 ELSE 0
      /\ \A j \in 1 .. i - 1 - 1 + 1 : SubSeq(snapshots, 1, i - 1)[j] = snapshots[1 + j - 1]
  BY <1>2, <1>3, SubSeqProperties
<1>5. Len(SubSeq(snapshots, 1, i - 1)) = i - 1
  BY <1>1, <1>4
<1>6. DOMAIN SubSeq(snapshots, 1, i - 1) = 1 .. i - 1
  BY <1>4, <1>5, LenProperties
<1> QED
  BY <1>1, <1>4, <1>6 DEF SnapshotsBefore

LEMMA RemoveSnapshotEffect ==
    ASSUME Typed, TimeIsPositive, SnapshotsAreAncestors, IdsAreFresh,
           NEW id, RemoveSnapshot(id), UNCHANGED chain
    PROVE  /\ snapshots' \in Seq(SnapshotType)
           /\ \A j \in DOMAIN snapshots' :
                CeilSeconds(snapshots'[j].date) + snapshots'[j].blockTimeOffsetSeconds >= 1
           /\ SnapshotsAreAncestors' /\ IdsAreFresh'
<1>1. PICK i \in DOMAIN snapshots : snapshots' = SnapshotsBefore(i)
  BY DEF RemoveSnapshot
<1>2. /\ snapshots' \in Seq(SnapshotType)
      /\ DOMAIN snapshots' = 1 .. i - 1
      /\ \A j \in 1 .. i - 1 : j \in DOMAIN snapshots /\ snapshots'[j] = snapshots[j]
  BY <1>1, SnapshotsBeforeFacts
<1>3. i \in Nat
  BY SnapshotFacts
<1>4. poolSnapshots' = poolSnapshots /\ nextSnapshotId' = nextSnapshotId /\ chain' = chain
  BY DEF RemoveSnapshot
<1>5. SnapshotsAreAncestors'
  BY <1>2, <1>3, <1>4 DEF SnapshotsAreAncestors, LatestNumber
<1> QED
  BY <1>2, <1>4, <1>5 DEF IdsAreFresh, TimeIsPositive

LEMMA RevertedChain ==
    ASSUME Typed, SnapshotsAreAncestors, NEW i \in DOMAIN snapshots,
           chain' = SubSeq(chain, 1, snapshots[i].latestBlock.number + 1)
    PROVE  /\ chain' \in Seq(Block) /\ chain' # << >>
           /\ LatestNumber' = snapshots[i].latestBlock.number
           /\ Latest' = snapshots[i].latestBlock.block
           /\ Len(chain') \in Nat /\ Len(chain') <= Len(chain)
           /\ DOMAIN chain' = 1 .. Len(chain')
           /\ \A k \in 1 .. Len(chain') : k \in 1 .. Len(chain) /\ chain'[k] = chain[k]
<1> DEFINE n == snapshots[i].latestBlock.number
<1>1. n \in 0 .. LatestNumber /\ chain[n + 1] = snapshots[i].latestBlock.block
  BY DEF SnapshotsAreAncestors
<1>2. /\ Len(chain) \in Nat \ {0} /\ LatestNumber = Len(chain) - 1
      /\ \A k \in 1 .. Len(chain) : chain[k] \in Block
  BY ChainFacts DEF LatestNumber
<1>3. n \in Nat /\ n + 1 \in 1 .. Len(chain)
  BY <1>1, <1>2
<1>4. \A k \in 1 .. n + 1 : k \in 1 .. Len(chain) /\ chain[k] \in Block
  BY <1>2, <1>3
<1> HIDE DEF n
<1>5. /\ SubSeq(chain, 1, n + 1) \in Seq(Block)
      /\ Len(SubSeq(chain, 1, n + 1)) = IF 1 <= n + 1 THEN n + 1 - 1 + 1 ELSE 0
      /\ \A k \in 1 .. n + 1 - 1 + 1 : SubSeq(chain, 1, n + 1)[k] = chain[1 + k - 1]
  BY <1>3, <1>4, SubSeqProperties
<1>6. chain' = SubSeq(chain, 1, n + 1)
  BY DEF n
<1>7. /\ chain' \in Seq(Block) /\ Len(chain') = n + 1
      /\ \A k \in 1 .. n + 1 : chain'[k] = chain[k]
  <2>1. n + 1 - 1 + 1 = n + 1 /\ 1 <= n + 1 /\ \A k \in 1 .. n + 1 : 1 + k - 1 = k
    BY <1>3
  <2> QED
    BY <1>5, <1>6, <2>1
<1>8. DOMAIN chain' = 1 .. n + 1
  BY <1>7, LenProperties
<1>9. chain' # << >>
  BY <1>3, <1>7, EmptySeq
<1>10. Len(chain') \in Nat /\ Len(chain') <= Len(chain)
  BY <1>2, <1>3, <1>7
<1>11. LatestNumber' = n
  BY <1>3, <1>7 DEF LatestNumber
<1>12. Latest' = chain[n + 1]
  BY <1>3, <1>7 DEF Latest
<1> QED
  BY <1>1, <1>4, <1>7, <1>8, <1>9, <1>10, <1>11, <1>12 DEF n

\* The clock after a revert is not behind the one of the snapshot.
LEMMA RevertedClock ==
    ASSUME Typed, NEW i \in DOMAIN snapshots, UNCHANGED now,
           blockTimeOffsetSeconds' = RevertedOffset(snapshots[i])
    PROVE  /\ blockTimeOffsetSeconds' \in Int
           /\ CurrentTimestamp' \in Int
           /\ CeilSeconds(snapshots[i].date) + snapshots[i].blockTimeOffsetSeconds \in Int
           /\ CurrentTimestamp' + blockTimeOffsetSeconds'
                >= CeilSeconds(snapshots[i].date) + snapshots[i].blockTimeOffsetSeconds
<1> DEFINE date == snapshots[i].date
           offset == snapshots[i].blockTimeOffsetSeconds
<1>1. date \in Nat /\ offset \in Int /\ now \in Nat
  BY SnapshotFacts DEF SnapshotType, Typed
<1>2. blockTimeOffsetSeconds' = offset + CeilSeconds(date - now)
  BY DEF RevertedOffset
<1>3. CurrentTimestamp' = CeilSeconds(now)
  BY DEF CurrentTimestamp
<1> HIDE DEF date, offset
<1>4. date - now \in Int /\ now + (date - now) = date
  BY <1>1
<1>5. CeilSeconds(date) <= CeilSeconds(now) + CeilSeconds(date - now)
  BY <1>1, <1>4, CeilOfSum
<1>6. CeilSeconds(date) \in Int /\ CeilSeconds(now) \in Int /\ CeilSeconds(date - now) \in Int
  BY <1>1, <1>4, CeilBounds
<1>7. /\ blockTimeOffsetSeconds' \in Int
      /\ CurrentTimestamp' \in Int
      /\ CeilSeconds(date) + offset \in Int
      /\ CurrentTimestamp' + blockTimeOffsetSeconds' >= CeilSeconds(date) + offset
  BY <1>1, <1>2, <1>3, <1>5, <1>6
<1> QED
  BY <1>7 DEF date, offset

LEMMA RevertEffect ==
    ASSUME Typed, TimeIsPositive, SnapshotsAreAncestors, IdsAreFresh,
           NEW id, RevertToSnapshot(id), UNCHANGED now, task' \in Task, task'.op = "idle"
    PROVE  Structure'
<1>1. PICK i \in DOMAIN snapshots, saved \in poolSnapshots :
        /\ snapshots[i].id = id
        /\ chain' = SubSeq(chain, 1, snapshots[i].latestBlock.number + 1)
        /\ irregularStates' = snapshots[i].irregularStates
        /\ stateRoot' = Lookup(snapshots[i].irregularStates, snapshots[i].latestBlock.number,
                               snapshots[i].stateRoot)
        /\ blockTimeOffsetSeconds' = RevertedOffset(snapshots[i])
        /\ nextBlockTimestamp' = snapshots[i].nextBlockTimestamp
        /\ pending' = saved.pending
        /\ poolSnapshots' = {p \in poolSnapshots : p.id < id}
        /\ snapshots' = SnapshotsBefore(i)
        /\ nextSnapshotId' = nextSnapshotId
  BY DEF RevertToSnapshot
<1>2. snapshots[i] \in SnapshotType
  BY SnapshotFacts
<1>3. /\ chain' \in Seq(Block) /\ chain' # << >>
      /\ LatestNumber' = snapshots[i].latestBlock.number
      /\ DOMAIN chain' = 1 .. Len(chain')
      /\ \A k \in 1 .. Len(chain') : k \in 1 .. Len(chain) /\ chain'[k] = chain[k]
      /\ Len(chain') \in Nat
  BY <1>1, RevertedChain
<1>4. /\ snapshots' \in Seq(SnapshotType)
      /\ DOMAIN snapshots' = 1 .. i - 1
      /\ \A j \in 1 .. i - 1 : j \in DOMAIN snapshots /\ snapshots'[j] = snapshots[j]
  BY <1>1, SnapshotsBeforeFacts
<1>5. i \in Nat /\ i \in 1 .. Len(snapshots)
  BY SnapshotFacts
<1>6. Typed'
  <2>1. stateRoot' \in States
    BY <1>1, <1>2, LookupType DEF SnapshotType
  <2>2. blockTimeOffsetSeconds' \in Int
    BY <1>1, RevertedClock
  <2>3. /\ irregularStates' \in Maps /\ nextBlockTimestamp' \in Nat
        /\ pending' \in SUBSET Txs
        /\ poolSnapshots' \in SUBSET [id : Nat, pending : SUBSET Txs]
    BY <1>1, <1>2 DEF SnapshotType, Typed
  <2> QED
    BY <1>1, <1>3, <1>4, <2>1, <2>2, <2>3 DEF Typed
<1>7. TimeIsPositive'
  <2>1. CurrentTimestamp' + blockTimeOffsetSeconds' >= 1
    BY <1>1, RevertedClock DEF TimeIsPositive
  <2>2. \A j \in DOMAIN snapshots' :
          CeilSeconds(snapshots'[j].date) + snapshots'[j].blockTimeOffsetSeconds >= 1
    BY <1>4 DEF TimeIsPositive
  <2>3. \A k \in DOMAIN chain' : chain'[k].timestamp >= 1
    BY <1>3, ChainFacts DEF TimeIsPositive
  <2> QED
    BY <2>1, <2>2, <2>3 DEF TimeIsPositive
<1>8. SnapshotsAreAncestors'
  <2>1. ASSUME NEW j \in 1 .. i - 1
        PROVE  /\ snapshots[j].latestBlock.number \in 0 .. LatestNumber'
               /\ chain'[snapshots[j].latestBlock.number + 1] = snapshots[j].latestBlock.block
               /\ \E p \in poolSnapshots' : p.id = snapshots[j].id
    <3> DEFINE n == snapshots[j].latestBlock.number
    <3>1. j \in DOMAIN snapshots
      BY <1>4
    <3>2. /\ n \in 0 .. LatestNumber
          /\ chain[n + 1] = snapshots[j].latestBlock.block
          /\ \E p \in poolSnapshots : p.id = snapshots[j].id
      BY <3>1 DEF SnapshotsAreAncestors
    <3>3. snapshots[j].id < snapshots[i].id /\ n <= snapshots[i].latestBlock.number
      BY DEF SnapshotsAreAncestors
    <3>4. n \in Nat /\ LatestNumber' \in Nat /\ LatestNumber' = Len(chain') - 1
      BY <3>1, <1>2, <1>3, SnapshotFacts DEF SnapshotType, LatestNumber
    <3>5. n \in 0 .. LatestNumber' /\ n + 1 \in 1 .. Len(chain')
      BY <3>3, <3>4, <1>3
    <3>6. \E p \in poolSnapshots' : p.id = snapshots[j].id
      BY <3>2, <3>3, <1>1
    <3> QED
      BY <3>2, <3>5, <3>6, <1>3
  <2>2. ASSUME NEW j \in 1 .. i - 1
        PROVE  /\ snapshots'[j] = snapshots[j]
               /\ snapshots[j].id < nextSnapshotId'
               /\ \A k \in 1 .. j - 1 :
                    /\ snapshots'[k] = snapshots[k]
                    /\ snapshots[k].id < snapshots[j].id
                    /\ snapshots[k].latestBlock.number <= snapshots[j].latestBlock.number
    <3>1. j \in DOMAIN snapshots /\ snapshots'[j] = snapshots[j] /\ nextSnapshotId' = nextSnapshotId
      BY <1>1, <1>4
    <3>2. /\ snapshots[j].id < nextSnapshotId
          /\ \A k \in 1 .. j - 1 :
               /\ snapshots[k].id < snapshots[j].id
               /\ snapshots[k].latestBlock.number <= snapshots[j].latestBlock.number
      BY <3>1 DEF SnapshotsAreAncestors
    <3>3. \A k \in 1 .. j - 1 : k \in 1 .. i - 1
      BY <1>5
    <3>4. \A k \in 1 .. j - 1 : snapshots'[k] = snapshots[k]
      BY <3>3, <1>4
    <3> QED
      BY <3>1, <3>2, <3>4
  <2>3. ASSUME NEW j \in DOMAIN snapshots'
        PROVE  /\ snapshots'[j].latestBlock.number \in 0 .. LatestNumber'
               /\ chain'[snapshots'[j].latestBlock.number + 1] = snapshots'[j].latestBlock.block
               /\ \E p \in poolSnapshots' : p.id = snapshots'[j].id
               /\ snapshots'[j].id < nextSnapshotId'
               /\ \A k \in 1 .. j - 1 :
                    /\ snapshots'[k].id < snapshots'[j].id
                    /\ snapshots'[k].latestBlock.number <= snapshots'[j].latestBlock.number
    <3>1. j \in 1 .. i - 1 /\ snapshots'[j] = snapshots[j]
      BY <1>4
    <3>2. /\ snapshots[j].latestBlock.number \in 0 .. LatestNumber'
          /\ chain'[snapshots[j].latestBlock.number + 1] = snapshots[j].latestBlock.block
          /\ \E p \in poolSnapshots' : p.id = snapshots[j].id
      BY <2>1, <3>1
    <3>3. /\ snapshots[j].id < nextSnapshotId'
          /\ \A k \in 1 .. j - 1 :
               /\ snapshots'[k] = snapshots[k]
               /\ snapshots[k].id < snapshots[j].id
               /\ snapshots[k].latestBlock.number <= snapshots[j].latestBlock.number
      BY <2>2, <3>1
    <3> QED
      BY <3>1, <3>2, <3>3
  <2> QED
    BY <2>3 DEF SnapshotsAreAncestors
<1>9. IdsAreFresh' /\ TaskIsSound'
  BY <1>1 DEF IdsAreFresh, TaskIsSound
<1> QED
  BY <1>6, <1>7, <1>8, <1>9 DEF Structure

LEMMA FunctionIsSequence ==
    ASSUME NEW S, NEW n \in Nat, NEW f \in [1 .. n -> S]
    PROVE  f \in Seq(S) /\ Len(f) = n
<1>1. f \in Seq(S)
  OBVIOUS
<1>2. DOMAIN f = 1 .. n /\ DOMAIN f = 1 .. Len(f) /\ Len(f) \in Nat
  BY <1>1, LenProperties
<1> QED
  BY <1>1, <1>2

\* The blocks that hardhat_mine reserves, each with the interval after the one before it.
LEMMA ReserveEffect ==
    ASSUME Typed, TimeIsPositive, ReserveRest
    PROVE  /\ ChainGrows
           /\ Len(chain') = Len(chain) + task.left - 1
           /\ \A i \in 1 .. task.left - 1 :
                /\ chain'[Len(chain) + i].timestamp = Latest.timestamp + i * task.interval
                /\ chain'[Len(chain) + i].state = stateRoot
                /\ chain'[Len(chain) + i].txs = {}
           /\ task.left \in Nat \ {0} /\ task.interval \in Intervals /\ task.interval \in Nat
<1>1. /\ task \in [op : {"mine"}, stage : {"first", "pending", "rest"}, left : Nat,
                    interval : Intervals]
      /\ task.left > ReserveAbove
  BY DEF Typed, Task, Idle, ReserveRest
<1>2. task.left \in Nat \ {0} /\ task.interval \in Intervals /\ task.interval \in Nat
  <2>1. task.left \in Nat /\ task.interval \in Intervals
    BY <1>1
  <2>2. task.interval \in Nat
    BY <2>1, MiningAssumption
  <2>3. \A left, above \in Nat : left > above => left \in Nat \ {0}
    OBVIOUS
  <2>4. task.left > ReserveAbove /\ ReserveAbove \in Nat
    BY <1>1, MiningAssumption
  <2>5. task.left \in Nat \ {0}
    BY <2>1, <2>3, <2>4
  <2> QED
    BY <2>1, <2>2, <2>5
<1> DEFINE reserved == [i \in 1 .. task.left - 1 |->
                          [timestamp |-> Latest.timestamp + i * task.interval,
                           state |-> stateRoot, txs |-> {}]]
<1>3. Latest \in Block /\ Latest.timestamp \in Nat /\ Latest.timestamp >= 1
  BY ChainFacts DEF Block, TimeIsPositive, Latest
<1>4. ASSUME NEW i \in 1 .. task.left - 1
      PROVE  reserved[i] \in Block /\ reserved[i].timestamp >= 1
  <2>1. i \in Nat /\ i * task.interval \in Nat
    BY <1>2, SMTT(20)
  <2>2. Latest.timestamp + i * task.interval \in Nat /\ Latest.timestamp + i * task.interval >= 1
    BY <1>3, <2>1
  <2> QED
    BY <2>2 DEF Block, Typed
<1>5. task.left - 1 \in Nat
  BY <1>2
<1>6. reserved \in Seq(Block) /\ Len(reserved) = task.left - 1
  <2>1. reserved \in [1 .. task.left - 1 -> Block]
    BY <1>4
  <2> HIDE DEF reserved
  <2> QED
    BY <1>5, <2>1, FunctionIsSequence
<1>7. chain' = chain \o reserved /\ chain \in Seq(Block) /\ chain # << >>
  BY DEF ReserveRest, Typed
<1>8. ASSUME NEW i \in 1 .. task.left - 1
       PROVE  /\ reserved[i].timestamp = Latest.timestamp + i * task.interval
              /\ reserved[i].state = stateRoot
              /\ reserved[i].txs = {}
  OBVIOUS
<1> HIDE DEF reserved
<1>9. /\ chain' \in Seq(Block)
      /\ Len(chain') = Len(chain) + Len(reserved)
      /\ \A i \in 1 .. Len(chain) + Len(reserved) :
            chain'[i] = IF i <= Len(chain) THEN chain[i] ELSE reserved[i - Len(chain)]
  BY <1>6, <1>7, ConcatProperties
<1>10. Len(chain) \in Nat \ {0} /\ DOMAIN chain = 1 .. Len(chain)
  BY ChainFacts
<1>11. /\ Len(chain') = Len(chain) + task.left - 1
       /\ DOMAIN chain' = 1 .. Len(chain')
       /\ Len(chain') \in Nat /\ Len(chain') >= Len(chain)
  BY <1>2, <1>6, <1>9, <1>10, LenProperties
<1>12. \A i \in 1 .. Len(chain) : chain'[i] = chain[i]
  <2>1. \A i \in 1 .. Len(chain) : i <= Len(chain) /\ i \in 1 .. Len(chain) + Len(reserved)
    BY <1>5, <1>6, <1>10
  <2> QED
    BY <1>9, <2>1
<1>13. ASSUME NEW i \in 1 .. task.left - 1
       PROVE  chain'[Len(chain) + i] = reserved[i]
  <2>1. /\ Len(chain) + i \in 1 .. Len(chain) + Len(reserved)
        /\ ~ (Len(chain) + i <= Len(chain))
        /\ Len(chain) + i - Len(chain) = i
    BY <1>5, <1>6, <1>10
  <2> QED
    BY <1>9, <2>1
<1>14. ASSUME NEW i \in DOMAIN chain' PROVE chain'[i].timestamp >= 1
  <2>1. CASE i \in 1 .. Len(chain)
    BY <2>1, <1>10, <1>12 DEF TimeIsPositive
  <2>2. CASE i \notin 1 .. Len(chain)
    <3>1. i - Len(chain) \in 1 .. task.left - 1 /\ i = Len(chain) + (i - Len(chain))
      BY <2>2, <1>2, <1>10, <1>11
    <3> QED
      BY <3>1, <1>4, <1>13
  <2> QED
    BY <2>1, <2>2
<1>15. chain' # << >>
  BY <1>10, <1>11, EmptySeq
<1>16. ChainGrows
  BY <1>9, <1>11, <1>12, <1>14, <1>15 DEF ChainGrows
<1> QED
  BY <1>2, <1>11, <1>13, <1>16, <1>8

-----------------------------------------------------------------------------
(* Every step keeps the structure.                                            *)

\* Actions after which the task, if it has a snapshot, still has it.
LEMMA TaskStays ==
    ASSUME TaskIsSound, UNCHANGED <<snapshots, task>>
    PROVE  TaskIsSound'
BY DEF TaskIsSound

LEMMA MiningKeepsStructure ==
    ASSUME Structure, NEW timestamp \in Nat, NEW pool \in SUBSET Txs,
           MineBlock(timestamp, pool), UNCHANGED <<now, snapshotVars>>,
           task' \in Task, TaskIsSound'
    PROVE  Structure'
<1>1. Typed /\ TimeIsPositive /\ SnapshotsAreAncestors /\ IdsAreFresh
  BY DEF Structure
<1>2. PICK block : Mines(block, pool)
  BY <1>1, MineBlockEffect
<1>3. ChainGrows
  BY <1>1, <1>2, MinedChainGrows
<1>4. SnapshotsAreAncestors'
  BY <1>1, <1>3, GrowthKeepsSnapshots
<1>5. /\ poolSnapshots' = poolSnapshots /\ snapshots' = snapshots
      /\ nextSnapshotId' = nextSnapshotId
  BY DEF snapshotVars
<1>6. Typed'
  BY <1>1, <1>2, <1>3, <1>5 DEF Typed, Mines, ChainGrows, Block
<1>7. TimeIsPositive'
  BY <1>1, <1>2, <1>3, <1>5 DEF TimeIsPositive, Mines, ChainGrows
<1>8. IdsAreFresh'
  BY <1>1, <1>5 DEF IdsAreFresh
<1> QED
  BY <1>4, <1>6, <1>7, <1>8 DEF Structure

\* Actions that change none of the chain, the snapshots and the system clock.
LEMMA SmallStepKeepsStructure ==
    ASSUME Structure, UNCHANGED <<now, chain, snapshotVars>>,
           blockTimeOffsetSeconds' \in Int,
           blockTimeOffsetSeconds' = blockTimeOffsetSeconds
             \/ CurrentTimestamp + blockTimeOffsetSeconds' >= 1,
           nextBlockTimestamp' \in Nat, stateRoot' \in States, irregularStates' \in Maps,
           pending' \in SUBSET Txs, task' \in Task, TaskIsSound'
    PROVE  Structure'
<1>1. /\ poolSnapshots' = poolSnapshots /\ snapshots' = snapshots
      /\ nextSnapshotId' = nextSnapshotId
  BY DEF snapshotVars
<1>2. Typed'
  BY <1>1 DEF Structure, Typed
<1>3. CurrentTimestamp' = CurrentTimestamp
  BY DEF CurrentTimestamp
<1>4. CurrentTimestamp' + blockTimeOffsetSeconds' >= 1
  BY <1>3 DEF Structure, TimeIsPositive
<1>5. TimeIsPositive'
  BY <1>1, <1>4 DEF Structure, TimeIsPositive
<1>6. SnapshotsAreAncestors' /\ IdsAreFresh'
  BY <1>1 DEF Structure, SnapshotsAreAncestors, IdsAreFresh, LatestNumber
<1> QED
  BY <1>2, <1>5, <1>6 DEF Structure

\* Actions that take a snapshot, with a task that may count on it.
LEMMA TakingKeepsStructure ==
    ASSUME Structure, TakeSnapshot, UNCHANGED <<now, clockVars, chainVars>>,
           pending' \in SUBSET Txs, task' \in Task,
           task'.op \in {"pending", "send"} => task'.id = nextSnapshotId, task'.op # "mine"
    PROVE  Structure'
<1>1. Typed /\ TimeIsPositive /\ SnapshotsAreAncestors /\ IdsAreFresh
  BY DEF Structure
<1>2. /\ poolSnapshots' \in SUBSET [id : Nat, pending : SUBSET Txs]
      /\ snapshots' \in Seq(SnapshotType)
      /\ nextSnapshotId' \in Nat \ {0}
      /\ \A i \in DOMAIN snapshots' :
           CeilSeconds(snapshots'[i].date) + snapshots'[i].blockTimeOffsetSeconds >= 1
      /\ \E i \in DOMAIN snapshots' : snapshots'[i].id = nextSnapshotId
      /\ SnapshotsAreAncestors' /\ IdsAreFresh'
  BY <1>1, TakeSnapshotEffect DEF chainVars
<1>3. /\ blockTimeOffsetSeconds' = blockTimeOffsetSeconds /\ chain' = chain
      /\ nextBlockTimestamp' = nextBlockTimestamp /\ stateRoot' = stateRoot
      /\ irregularStates' = irregularStates /\ now' = now
  BY DEF clockVars, chainVars
<1>4. Typed'
  BY <1>1, <1>2, <1>3 DEF Typed
<1>5. TimeIsPositive'
  BY <1>1, <1>2, <1>3 DEF TimeIsPositive, CurrentTimestamp
<1>6. TaskIsSound'
  BY <1>2 DEF TaskIsSound
<1> QED
  BY <1>2, <1>4, <1>5, <1>6 DEF Structure

\* What a task is, by its operation.
LEMMA TaskTypes ==
    ASSUME task \in Task
    PROVE  /\ task.op = "send" => task.id \in Nat /\ task.tx \in Txs
           /\ task.op = "mine" =>
                /\ task \in [op : {"mine"}, stage : {"first", "pending", "rest"}, left : Nat,
                             interval : Intervals]
                /\ task.left \in Nat /\ task.interval \in Nat /\ task.interval \in Intervals
<1>1. CASE task = Idle
  BY <1>1 DEF Idle
<1>2. CASE task \in [op : {"pending"}, id : Nat]
  BY <1>2
<1>3. CASE task \in [op : {"send"}, id : Nat, tx : Txs]
  BY <1>3
<1>4. CASE task \in [op : {"mine"}, stage : {"first", "pending", "rest"}, left : Nat,
                     interval : Intervals]
  <2>1. task.left \in Nat /\ task.interval \in Intervals /\ task.op = "mine"
    BY <1>4
  <2>2. task.interval \in Nat
    BY <2>1, MiningAssumption
  <2> QED
    BY <1>4, <2>1, <2>2
<1> QED
  BY <1>1, <1>2, <1>3, <1>4 DEF Task

LEMMA IdleIsTask == Idle \in Task /\ Idle.op = "idle"
BY DEF Task, Idle

LEMMA NewTaskTypes ==
    /\ \A id \in Nat : [op |-> "pending", id |-> id] \in Task
    /\ \A id \in Nat, tx \in Txs : [op |-> "send", id |-> id, tx |-> tx] \in Task
    /\ \A left \in Nat, interval \in Intervals, stage \in {"first", "pending", "rest"} :
        [op |-> "mine", stage |-> stage, left |-> left, interval |-> interval] \in Task
BY DEF Task

\* With or without an initial date, the clock is not before the genesis block.
LEMMA GenesisIsNotAhead ==
    ASSUME Init
    PROVE  /\ now \in Nat /\ CurrentTimestamp \in Nat
           /\ \E timestamp, offset :
                /\ Created(timestamp, offset)
                /\ timestamp \in Nat /\ timestamp >= 1 /\ offset \in Int
                /\ CurrentTimestamp + offset >= timestamp
<1>1. now \in Nat /\ now >= TicksPerSecond /\ now \in Int
  BY TimeAssumption DEF Init
<1>2. CurrentTimestamp \in Nat /\ CurrentTimestamp >= 1
  BY <1>1, CeilBounds, OneSecond DEF CurrentTimestamp
<1>3. \E timestamp, offset :
        /\ Created(timestamp, offset)
        /\ timestamp \in Nat /\ timestamp >= 1 /\ offset \in Int
        /\ CurrentTimestamp + offset >= timestamp
  <2>1. CASE Created(CurrentTimestamp, 0)
    BY <2>1, <1>2
  <2>2. ASSUME NEW initialDate \in TicksPerSecond .. MaxTicks,
               Created(initialDate \div TicksPerSecond, (initialDate - now) \div TicksPerSecond)
        PROVE  \E timestamp, offset :
                 /\ Created(timestamp, offset)
                 /\ timestamp \in Nat /\ timestamp >= 1 /\ offset \in Int
                 /\ CurrentTimestamp + offset >= timestamp
    <3> DEFINE time == initialDate \div TicksPerSecond
               shift == (initialDate - now) \div TicksPerSecond
    <3>1. initialDate \in Int /\ initialDate >= TicksPerSecond /\ initialDate - now \in Int
      BY <1>1, TimeAssumption
    <3>2. time \in Int /\ time >= 1
      BY <3>1, DivBounds, OneSecond
    <3>3. shift \in Int
      BY <3>1, DivBounds
    <3>4. time <= CurrentTimestamp + shift
      BY <1>1, <3>1, InitialDate DEF CurrentTimestamp
    <3>5. Created(time, shift)
      BY <2>2
    <3> HIDE DEF time, shift
    <3> QED
      BY <1>2, <3>2, <3>3, <3>4, <3>5
  <2> QED
    BY <2>1, <2>2 DEF Init
<1> QED
  BY <1>1, <1>2, <1>3

LEMMA InitStructure ==
    ASSUME Init
    PROVE  Structure
<1>1. now \in Nat /\ CurrentTimestamp \in Nat
  BY GenesisIsNotAhead
<1>2. PICK timestamp, offset :
        /\ Created(timestamp, offset)
        /\ timestamp \in Nat /\ timestamp >= 1 /\ offset \in Int
        /\ CurrentTimestamp + offset >= timestamp
  BY GenesisIsNotAhead
<1>3. PICK state \in States :
        chain = << [timestamp |-> timestamp, state |-> state, txs |-> {}] >> /\ stateRoot = state
  BY <1>2 DEF Created
<1>4. /\ blockTimeOffsetSeconds = offset /\ nextBlockTimestamp = 0
      /\ irregularStates = NoIrregularStates
      /\ pending = {} /\ poolSnapshots = {} /\ snapshots = << >> /\ nextSnapshotId = 1
      /\ task = Idle
  BY <1>2 DEF Created
<1>5. /\ chain \in Seq(Block) /\ chain # << >> /\ Len(chain) = 1
      /\ chain[1].timestamp >= 1
  BY <1>2, <1>3 DEF Block
<1>6. irregularStates \in Maps
  <2>1. NoIrregularStates \in [{} -> States]
    BY DEF NoIrregularStates
  <2> QED
    BY <1>4, <2>1 DEF Maps
<1>7. snapshots \in Seq(SnapshotType) /\ DOMAIN snapshots = {}
  BY <1>4
<1>8. Typed
  BY <1>1, <1>2, <1>3, <1>4, <1>5, <1>6, <1>7, IdleIsTask DEF Typed
<1>9. DOMAIN chain = {1}
  BY <1>3
<1>10. TimeIsPositive
  BY <1>1, <1>2, <1>4, <1>5, <1>7, <1>9 DEF TimeIsPositive
<1>11. SnapshotsAreAncestors /\ IdsAreFresh /\ TaskIsSound
  BY <1>4, <1>7, IdleIsTask DEF SnapshotsAreAncestors, IdsAreFresh, TaskIsSound
<1> QED
  BY <1>8, <1>10, <1>11 DEF Structure

\* evm_increaseTime, whatever the sign of its number, within the bound on the clock.
LEMMA IncreaseTypes ==
    ASSUME Typed, NEW increment \in Increments, InTime(increment)
    PROVE  /\ increment \in Int /\ blockTimeOffsetSeconds + increment \in Int
           /\ CurrentTimestamp + (blockTimeOffsetSeconds + increment) >= 1
<1>1. increment \in Int /\ blockTimeOffsetSeconds \in Int /\ CurrentTimestamp \in Int
  BY TimeAssumption, CeilBounds DEF Typed, CurrentTimestamp
<1>2. CurrentTimestamp + blockTimeOffsetSeconds + increment >= 1
  BY <1>1, TimeAssumption DEF InTime
<1> HIDE DEF CurrentTimestamp
<1> QED
  BY <1>1, <1>2

LEMMA StepStructure ==
    ASSUME Structure, [Next]_vars
    PROVE  Structure'
<1>1. /\ Typed /\ task \in Task /\ pending \in SUBSET Txs /\ stateRoot \in States
      /\ irregularStates \in Maps /\ nextBlockTimestamp \in Nat
      /\ blockTimeOffsetSeconds \in Int /\ nextSnapshotId \in Nat
  BY DEF Structure, Typed
<1>2. Latest.timestamp \in Nat /\ LatestNumber \in Nat
  BY <1>1, ChainFacts DEF Block
<1>3. CASE Tick
  <2>1. now' = now + 1 /\ now \in Nat
    BY <1>3, <1>1 DEF Tick, Typed
  <2>2. UNCHANGED <<blockTimeOffsetSeconds, nextBlockTimestamp, chain, stateRoot,
                    irregularStates, pending, poolSnapshots, snapshots, nextSnapshotId, task>>
    BY <1>3 DEF Tick, clockVars, chainVars, snapshotVars
  <2>3. Typed'
    BY <2>1, <2>2, <1>1 DEF Typed
  <2>4. CurrentTimestamp' + blockTimeOffsetSeconds' >= 1
    <3>1. CeilSeconds(now) <= CeilSeconds(now + 1) /\ CeilSeconds(now) \in Int
            /\ CeilSeconds(now + 1) \in Int
      BY <2>1, CeilMonotone, CeilBounds
    <3>2. CurrentTimestamp' = CeilSeconds(now + 1) /\ CurrentTimestamp = CeilSeconds(now)
      BY <2>1 DEF CurrentTimestamp
    <3>3. CurrentTimestamp + blockTimeOffsetSeconds >= 1
      BY DEF Structure, TimeIsPositive
    <3>4. \A a, b, c \in Int : a + c >= 1 /\ a <= b => b + c >= 1
      OBVIOUS
    <3> QED
      BY <3>1, <3>2, <3>3, <3>4, <2>2, <1>1
  <2>5. TimeIsPositive'
    BY <2>2, <2>4 DEF Structure, TimeIsPositive
  <2>6. SnapshotsAreAncestors' /\ IdsAreFresh' /\ TaskIsSound'
    BY <2>2 DEF Structure, SnapshotsAreAncestors, IdsAreFresh, TaskIsSound, LatestNumber
  <2> QED
    BY <2>3, <2>5, <2>6 DEF Structure
<1>4. ASSUME NEW timestamp \in 0 .. MaxTime, EvmMine(timestamp)
      PROVE  Structure'
  <2>1. timestamp \in Nat
    OBVIOUS
  <2>2. MineBlock(timestamp, pending) /\ UNCHANGED <<now, snapshotVars>> /\ task' = task
    BY <1>4 DEF EvmMine
  <2>3. TaskIsSound'
    BY <2>2, TaskStays DEF Structure, snapshotVars
  <2> QED
    BY <2>1, <2>2, <2>3, <1>1, MiningKeepsStructure
<1>5. ASSUME NEW timestamp \in 1 .. MaxTime, SetNextBlockTimestamp(timestamp)
      PROVE  Structure'
  <2>1. /\ UNCHANGED <<now, chain, snapshotVars, blockTimeOffsetSeconds, stateRoot,
                       irregularStates, pending, task>>
        /\ nextBlockTimestamp' \in Nat
    BY <1>5 DEF SetNextBlockTimestamp, chainVars
  <2>2. TaskIsSound'
    BY <2>1, TaskStays DEF Structure, snapshotVars
  <2> QED
    BY <2>1, <2>2, <1>1, SmallStepKeepsStructure
<1>6. ASSUME NEW increment \in Increments, InTime(increment), IncreaseTime(increment)
      PROVE  Structure'
  <2>1. /\ UNCHANGED <<now, chain, snapshotVars, nextBlockTimestamp, stateRoot,
                       irregularStates, pending, task>>
        /\ blockTimeOffsetSeconds' = blockTimeOffsetSeconds + increment
    BY <1>6 DEF IncreaseTime, chainVars
  <2>2. /\ blockTimeOffsetSeconds' \in Int
        /\ CurrentTimestamp + blockTimeOffsetSeconds' >= 1
    BY <1>6, <2>1, IncreaseTypes DEF Structure
  <2>3. TaskIsSound'
    BY <2>1, TaskStays DEF Structure, snapshotVars
  <2> QED
    BY <2>1, <2>2, <2>3, <1>1, SmallStepKeepsStructure
<1>7. ASSUME NEW state \in States, EditState(state)
      PROVE  Structure'
  <2>1. /\ UNCHANGED <<now, chain, snapshotVars, blockTimeOffsetSeconds, nextBlockTimestamp,
                       pending, task>>
        /\ stateRoot' = state
        /\ irregularStates' = With(irregularStates, LatestNumber, state)
    BY <1>7 DEF EditState, clockVars
  <2>2. irregularStates' \in Maps
    BY <2>1, <1>1, <1>2, WithType
  <2>3. TaskIsSound'
    BY <2>1, TaskStays DEF Structure, snapshotVars
  <2> QED
    BY <2>1, <2>2, <2>3, <1>1, SmallStepKeepsStructure
<1>8. ASSUME NEW state \in OverriddenStates \union {stateRoot}, CallWithBadOverrides(state)
      PROVE  Structure'
  <2>1. /\ UNCHANGED <<now, chain, snapshotVars, blockTimeOffsetSeconds, nextBlockTimestamp,
                       irregularStates, pending, task>>
        /\ stateRoot' = state
    BY <1>8 DEF CallWithBadOverrides, clockVars
  <2>2. stateRoot' \in States
    BY <2>1, <1>1, MiningAssumption
  <2>3. TaskIsSound'
    BY <2>1, TaskStays DEF Structure, snapshotVars
  <2> QED
    BY <2>1, <2>2, <2>3, <1>1, SmallStepKeepsStructure
<1>9. CASE EvmSnapshot
  <2>1. /\ TakeSnapshot /\ UNCHANGED <<now, clockVars, chainVars>>
        /\ pending' = pending /\ task' = task /\ task = Idle
    BY <1>9 DEF EvmSnapshot
  <2> QED
    BY <2>1, <1>1, IdleIsTask, TakingKeepsStructure
<1>10. ASSUME NEW id \in 1 .. MaxSnapshots, EvmRevert(id)
       PROVE  Structure'
  <2>1. RevertToSnapshot(id) /\ UNCHANGED now /\ task' = Idle
    BY <1>10 DEF EvmRevert
  <2> QED
    BY <2>1, IdleIsTask, RevertEffect DEF Structure
<1>11. ASSUME NEW tx \in Txs, SubmitTransaction(tx)
       PROVE  Structure'
  <2>1. /\ UNCHANGED <<now, chain, snapshotVars, blockTimeOffsetSeconds, nextBlockTimestamp,
                       stateRoot, irregularStates, task>>
        /\ pending' \in SUBSET Txs
    BY <1>11, <1>1 DEF SubmitTransaction, AddTransaction, clockVars, chainVars
  <2>2. TaskIsSound'
    BY <2>1, TaskStays DEF Structure, snapshotVars
  <2> QED
    BY <2>1, <2>2, <1>1, SmallStepKeepsStructure
<1>12. ASSUME NEW tx \in Txs, MineTransaction(tx)
       PROVE  Structure'
  <2>1. MineBlock(0, {tx}) /\ UNCHANGED <<now, snapshotVars>> /\ task' = task
    BY <1>12 DEF MineTransaction
  <2>2. TaskIsSound'
    BY <2>1, TaskStays DEF Structure, snapshotVars
  <2> QED
    BY <2>1, <2>2, <1>1, MiningKeepsStructure
<1>13. ASSUME NEW tx \in Txs, StartSend(tx)
       PROVE  Structure'
  <2>1. /\ TakeSnapshot /\ UNCHANGED <<now, clockVars, chainVars>>
        /\ pending' \in SUBSET Txs
        /\ task' = [op |-> "send", id |-> nextSnapshotId, tx |-> tx]
    BY <1>13, <1>1 DEF StartSend, AddTransaction
  <2>2. task' \in Task /\ task'.op # "mine" /\ task'.id = nextSnapshotId
    BY <2>1, <1>1, NewTaskTypes
  <2> QED
    BY <2>1, <2>2, TakingKeepsStructure
<1>14. CASE SendMines
  <2>1. MineBlock(0, pending) /\ UNCHANGED <<now, snapshotVars>> /\ task' = task
    BY <1>14 DEF SendMines
  <2>2. TaskIsSound'
    BY <2>1, TaskStays DEF Structure, snapshotVars
  <2> QED
    BY <2>1, <2>2, <1>1, MiningKeepsStructure
<1>15. CASE SendEnds
  <2>1. /\ RemoveSnapshot(task.id) /\ task' = Idle
        /\ UNCHANGED <<now, blockTimeOffsetSeconds, nextBlockTimestamp, chain, stateRoot,
                       irregularStates, pending>>
    BY <1>15 DEF SendEnds, clockVars, chainVars
  <2>2. poolSnapshots' = poolSnapshots /\ nextSnapshotId' = nextSnapshotId
    BY <2>1 DEF RemoveSnapshot
  <2>3. /\ snapshots' \in Seq(SnapshotType)
        /\ \A j \in DOMAIN snapshots' :
             CeilSeconds(snapshots'[j].date) + snapshots'[j].blockTimeOffsetSeconds >= 1
        /\ SnapshotsAreAncestors' /\ IdsAreFresh'
    BY <2>1, RemoveSnapshotEffect DEF Structure
  <2>4. Typed'
    BY <2>1, <2>2, <2>3, <1>1, IdleIsTask DEF Typed
  <2>5. TimeIsPositive'
    BY <2>1, <2>3 DEF Structure, TimeIsPositive, CurrentTimestamp
  <2>6. TaskIsSound'
    BY <2>1, IdleIsTask DEF TaskIsSound
  <2> QED
    BY <2>3, <2>4, <2>5, <2>6 DEF Structure
<1>16. CASE SendFails
  <2>1. RevertToSnapshot(task.id) /\ UNCHANGED now /\ task' = Idle
    BY <1>16 DEF SendFails
  <2> QED
    BY <2>1, IdleIsTask, RevertEffect DEF Structure
<1>17. CASE StartPendingRead
  <2>1. /\ TakeSnapshot /\ UNCHANGED <<now, clockVars, chainVars>>
        /\ pending' = pending
        /\ task' = [op |-> "pending", id |-> nextSnapshotId]
    BY <1>17 DEF StartPendingRead
  <2>2. task' \in Task /\ task'.op # "mine" /\ task'.id = nextSnapshotId
    BY <2>1, <1>1, NewTaskTypes
  <2> QED
    BY <2>1, <2>2, <1>1, TakingKeepsStructure
<1>18. CASE MinePendingBlock
  <2>1. MineBlock(0, pending) /\ UNCHANGED <<now, snapshotVars>> /\ task' = task
    BY <1>18 DEF MinePendingBlock
  <2>2. TaskIsSound'
    BY <2>1, TaskStays DEF Structure, snapshotVars
  <2> QED
    BY <2>1, <2>2, <1>1, MiningKeepsStructure
<1>19. CASE EndPendingRead
  <2>1. RevertToSnapshot(task.id) /\ UNCHANGED now /\ task' = Idle
    BY <1>19 DEF EndPendingRead
  <2> QED
    BY <2>1, IdleIsTask, RevertEffect DEF Structure
<1>20. ASSUME NEW count \in Counts, NEW interval \in Intervals, StartMineBlocks(count, interval)
       PROVE  Structure'
  <2>1. /\ UNCHANGED <<now, chain, snapshotVars, blockTimeOffsetSeconds, nextBlockTimestamp,
                       stateRoot, irregularStates, pending>>
        /\ task' = [op |-> "mine", stage |-> "first", left |-> count, interval |-> interval]
    BY <1>20 DEF StartMineBlocks, clockVars, chainVars
  <2>2. count \in Nat /\ count >= 1
    BY MiningAssumption
  <2>3. task' \in Task /\ task'.op = "mine" /\ task'.left = count
    BY <2>1, <2>2, NewTaskTypes
  <2>4. TaskIsSound'
    BY <2>2, <2>3 DEF TaskIsSound
  <2> QED
    BY <2>1, <2>3, <2>4, <1>1, SmallStepKeepsStructure
<1>21. CASE MineOneOfBlocks
  <2> DEFINE timestamp == IF task.stage = "first" THEN 0 ELSE Latest.timestamp + task.interval
  <2>1. /\ MineBlock(timestamp, pending) /\ UNCHANGED <<now, snapshotVars>>
        /\ task.op = "mine"
        /\ \/ task' = Idle
           \/ /\ task.left # 1
              /\ task' = [task EXCEPT
                    !.left = @ - 1,
                    !.stage = IF @ = "first" THEN "pending" ELSE IF pending # {} THEN @ ELSE "rest"]
    BY <1>21 DEF MineOneOfBlocks
  <2>2. /\ task \in [op : {"mine"}, stage : {"first", "pending", "rest"}, left : Nat,
                     interval : Intervals]
        /\ task.left \in Nat /\ task.interval \in Nat
    BY <2>1, <1>1, TaskTypes
  <2>3. timestamp \in Nat
    BY <2>2, <1>2
  <2>4. task.left >= 1
    BY <2>1 DEF Structure, TaskIsSound
  <2>5. task' \in Task /\ TaskIsSound'
    <3>1. CASE task' = Idle
      BY <3>1, IdleIsTask DEF TaskIsSound
    <3>2. CASE task.left # 1 /\ task' # Idle
      <4>1. task.left - 1 \in Nat /\ task.left - 1 >= 1
        BY <3>2, <2>2, <2>4
      <4>2. /\ task' \in [op : {"mine"}, stage : {"first", "pending", "rest"}, left : Nat,
                          interval : Intervals]
            /\ task'.left = task.left - 1 /\ task'.op = "mine"
        BY <3>2, <2>1, <2>2, <4>1
      <4> QED
        BY <4>1, <4>2 DEF Task, TaskIsSound
    <3> QED
      BY <3>1, <3>2, <2>1
  <2> HIDE DEF timestamp
  <2> QED
    BY <2>1, <2>3, <2>5, <1>1, MiningKeepsStructure
<1>22. CASE ReserveRest
  <2>1. /\ UNCHANGED <<now, blockTimeOffsetSeconds, nextBlockTimestamp, stateRoot,
                       irregularStates, pending, snapshotVars>>
        /\ task.op = "mine" /\ task' = [task EXCEPT !.left = 1]
    BY <1>22 DEF ReserveRest, clockVars
  <2>2. ChainGrows
    BY <1>22, ReserveEffect DEF Structure
  <2>3. task \in [op : {"mine"}, stage : {"first", "pending", "rest"}, left : Nat,
                  interval : Intervals]
    BY <2>1, <1>1, TaskTypes
  <2>4. /\ task' \in [op : {"mine"}, stage : {"first", "pending", "rest"}, left : Nat,
                      interval : Intervals]
        /\ task'.left = 1 /\ task'.op = "mine"
    BY <2>1, <2>3
  <2>5. task' \in Task /\ TaskIsSound'
    BY <2>4 DEF Task, TaskIsSound
  <2>6. poolSnapshots' = poolSnapshots /\ snapshots' = snapshots /\ nextSnapshotId' = nextSnapshotId
    BY <2>1 DEF snapshotVars
  <2>7. Typed'
    BY <2>1, <2>2, <2>5, <2>6, <1>1 DEF Typed, ChainGrows
  <2>8. TimeIsPositive'
    BY <2>1, <2>2, <2>6 DEF Structure, TimeIsPositive, CurrentTimestamp, ChainGrows
  <2>9. SnapshotsAreAncestors'
    BY <2>1, <2>2, GrowthKeepsSnapshots DEF Structure
  <2>10. IdsAreFresh'
    BY <2>6 DEF Structure, IdsAreFresh
  <2> QED
    BY <2>5, <2>7, <2>8, <2>9, <2>10 DEF Structure
<1>23. CASE MineBlocksFails
  <2>1. /\ UNCHANGED <<now, chain, snapshotVars, blockTimeOffsetSeconds, nextBlockTimestamp,
                       stateRoot, irregularStates, pending>>
        /\ task' = Idle
    BY <1>23 DEF MineBlocksFails, clockVars, chainVars
  <2>2. TaskIsSound'
    BY <2>1, IdleIsTask DEF TaskIsSound
  <2> QED
    BY <2>1, <2>2, <1>1, IdleIsTask, SmallStepKeepsStructure
<1>24. CASE UNCHANGED vars
  <2>1. /\ UNCHANGED <<now, chain, snapshotVars, blockTimeOffsetSeconds, nextBlockTimestamp,
                       stateRoot, irregularStates, pending, task>>
    BY <1>24 DEF vars, clockVars, chainVars
  <2>2. TaskIsSound'
    BY <2>1, TaskStays DEF Structure, snapshotVars
  <2> QED
    BY <2>1, <2>2, <1>1, SmallStepKeepsStructure
<1> QED
  BY <1>3, <1>4, <1>5, <1>6, <1>7, <1>8, <1>9, <1>10, <1>11, <1>12, <1>13, <1>14, <1>15,
     <1>16, <1>17, <1>18, <1>19, <1>20, <1>21, <1>22, <1>23, <1>24 DEF Next

\* The strengthened invariant of the types and of what ids and snapshots refer to.
THEOREM Structured == Spec => []Structure
<1>1. Init => Structure
  BY InitStructure
<1>2. Structure /\ [Next]_vars => Structure'
  BY StepStructure
<1> QED
  BY <1>1, <1>2, PTL DEF Spec

LEMMA StructureImplies ==
    ASSUME Structure
    PROVE  TypeOK /\ SnapshotsAreAncestors
<1>1. /\ DOMAIN irregularStates \subseteq Nat
      /\ \A n \in DOMAIN irregularStates : irregularStates[n] \in States
  BY MapElements DEF Structure, Typed
<1> QED
  BY <1>1 DEF Structure, Typed, TaskIsSound, TypeOK

\* The node is well typed, its timestamps are never negative although its offset may be, and
\* the request under way has the snapshot it goes back to.
THEOREM TypeCorrect == Spec => []TypeOK
<1>1. Structure => TypeOK
  BY StructureImplies
<1> QED
  BY <1>1, Structured, PTL

\* Whatever is mined, reserved, reverted or fails, the blocks of the snapshots stay in the
\* chain, in order, and the pool has a snapshot for each of them.
THEOREM SnapshotsStayAncestors == Spec => []SnapshotsAreAncestors
<1>1. Structure => SnapshotsAreAncestors
  BY DEF Structure
<1> QED
  BY <1>1, Structured, PTL

-----------------------------------------------------------------------------
(* The current state, when no call fails in the middle of its overrides.      *)

StatesAreTraced ==
    /\ StateIsCurrent
    /\ DOMAIN irregularStates \subseteq 0 .. LatestNumber
    /\ \A i \in DOMAIN snapshots :
        LET snapshot == snapshots[i]
            latest == snapshot.latestBlock
        IN  /\ snapshot.stateRoot
                 = Lookup(snapshot.irregularStates, latest.number, latest.block.state)
            /\ DOMAIN snapshot.irregularStates \subseteq 0 .. latest.number

LEMMA InitTraced ==
    ASSUME Init
    PROVE  StatesAreTraced
<1>1. PICK timestamp, offset : Created(timestamp, offset)
  BY DEF Init
<1>2. /\ Latest.state = stateRoot /\ snapshots = << >>
      /\ DOMAIN irregularStates = {}
  BY <1>1 DEF Created, NoIrregularStates, Latest
<1> QED
  BY <1>2 DEF StatesAreTraced, StateIsCurrent, Lookup

\* The chain got blocks on top, the last of them with the current state.
LEMMA GrowthKeepsTraces ==
    ASSUME Structure, StatesAreTraced, UNCHANGED <<snapshots, irregularStates>>,
           LatestNumber' \in Nat, LatestNumber' > LatestNumber, stateRoot' = Latest'.state
    PROVE  StatesAreTraced'
<1>1. LatestNumber \in Nat
  BY ChainFacts DEF Structure
<1>2. LatestNumber' \notin DOMAIN irregularStates
  BY <1>1 DEF StatesAreTraced
<1>3. StateIsCurrent'
  BY <1>2 DEF StateIsCurrent, Lookup
<1>4. DOMAIN irregularStates' \subseteq 0 .. LatestNumber'
  BY <1>1 DEF StatesAreTraced
<1> QED
  BY <1>3, <1>4 DEF StatesAreTraced

LEMMA MiningKeepsTraces ==
    ASSUME Structure, StatesAreTraced, NEW timestamp \in Nat, NEW pool \in SUBSET Txs,
           MineBlock(timestamp, pool), UNCHANGED <<now, snapshotVars>>
    PROVE  StatesAreTraced'
<1>1. PICK block : Mines(block, pool)
  BY MineBlockEffect DEF Structure
<1>2. Latest' = block /\ LatestNumber' = LatestNumber + 1
  BY <1>1, MinedChainGrows DEF Structure
<1>3. stateRoot' = block.state /\ irregularStates' = irregularStates /\ snapshots' = snapshots
  BY <1>1 DEF Mines, snapshotVars
<1>4. LatestNumber' \in Nat /\ LatestNumber' > LatestNumber
  BY <1>2, ChainFacts DEF Structure
<1> QED
  BY <1>2, <1>3, <1>4, GrowthKeepsTraces

LEMMA TakingKeepsTraces ==
    ASSUME Structure, StatesAreTraced, TakeSnapshot, UNCHANGED chainVars
    PROVE  StatesAreTraced'
<1> DEFINE n == Len(snapshots)
<1>1. snapshots \in Seq(SnapshotType) /\ n \in Nat /\ DOMAIN snapshots = 1 .. n
  BY SnapshotFacts DEF Structure, Typed
<1> DEFINE snapshot ==
        [id |-> nextSnapshotId,
         date |-> now,
         latestBlock |-> [number |-> LatestNumber, block |-> Latest],
         stateRoot |-> stateRoot,
         blockTimeOffsetSeconds |-> blockTimeOffsetSeconds,
         nextBlockTimestamp |-> nextBlockTimestamp,
         irregularStates |-> irregularStates]
<1>2. snapshots' = Append(snapshots, snapshot)
  BY DEF TakeSnapshot
<1>3. snapshot \in SnapshotType
  BY ChainFacts DEF Structure, Typed, SnapshotType
<1>4. /\ DOMAIN snapshots' = 1 .. n + 1
      /\ \A i \in 1 .. n : snapshots'[i] = snapshots[i]
      /\ snapshots'[n + 1] = snapshot
  BY <1>1, <1>2, <1>3, AppendProperties, LenProperties
<1>5. /\ snapshot.stateRoot = Lookup(snapshot.irregularStates, snapshot.latestBlock.number,
                                     snapshot.latestBlock.block.state)
      /\ DOMAIN snapshot.irregularStates \subseteq 0 .. snapshot.latestBlock.number
  BY DEF StatesAreTraced, StateIsCurrent
<1> HIDE DEF snapshot
<1>6. StateIsCurrent' /\ DOMAIN irregularStates' \subseteq 0 .. LatestNumber'
  BY DEF chainVars, StatesAreTraced, StateIsCurrent, LatestNumber, Latest
<1>7. ASSUME NEW i \in 1 .. n + 1
      PROVE  /\ snapshots'[i].stateRoot
                  = Lookup(snapshots'[i].irregularStates, snapshots'[i].latestBlock.number,
                           snapshots'[i].latestBlock.block.state)
             /\ DOMAIN snapshots'[i].irregularStates \subseteq 0 .. snapshots'[i].latestBlock.number
  <2>1. CASE i \in 1 .. n
    BY <2>1, <1>1, <1>4 DEF StatesAreTraced
  <2>2. CASE i = n + 1
    BY <2>2, <1>4, <1>5
  <2> QED
    BY <2>1, <2>2, <1>1
<1> QED
  BY <1>4, <1>6, <1>7 DEF StatesAreTraced

LEMMA RevertKeepsTraces ==
    ASSUME Structure, StatesAreTraced, NEW id, RevertToSnapshot(id)
    PROVE  StatesAreTraced'
<1>1. PICK i \in DOMAIN snapshots :
        /\ chain' = SubSeq(chain, 1, snapshots[i].latestBlock.number + 1)
        /\ irregularStates' = snapshots[i].irregularStates
        /\ stateRoot' = Lookup(snapshots[i].irregularStates, snapshots[i].latestBlock.number,
                               snapshots[i].stateRoot)
        /\ snapshots' = SnapshotsBefore(i)
  BY DEF RevertToSnapshot
<1>2. LatestNumber' = snapshots[i].latestBlock.number /\ Latest' = snapshots[i].latestBlock.block
  BY <1>1, RevertedChain DEF Structure
<1>3. /\ DOMAIN snapshots' = 1 .. i - 1
      /\ \A j \in 1 .. i - 1 : j \in DOMAIN snapshots /\ snapshots'[j] = snapshots[j]
  BY <1>1, SnapshotsBeforeFacts DEF Structure
<1>4. StateIsCurrent'
  BY <1>1, <1>2 DEF StateIsCurrent, StatesAreTraced, Lookup
<1>5. DOMAIN irregularStates' \subseteq 0 .. LatestNumber'
  BY <1>1, <1>2 DEF StatesAreTraced
<1> QED
  BY <1>3, <1>4, <1>5 DEF StatesAreTraced

LEMMA StepTraced ==
    ASSUME OverriddenStates = {}, Structure, StatesAreTraced, [Next]_vars
    PROVE  StatesAreTraced'
<1>1. Typed /\ pending \in SUBSET Txs /\ LatestNumber \in Nat /\ Latest.timestamp \in Nat
  BY ChainFacts DEF Structure, Typed, Block
<1>2. ASSUME UNCHANGED <<chain, stateRoot, irregularStates, snapshots>>
      PROVE  StatesAreTraced'
  BY <1>2 DEF StatesAreTraced, StateIsCurrent, LatestNumber, Latest
<1>3. CASE Tick \/ MineBlocksFails \/ SendEnds
  <2>1. CASE Tick \/ MineBlocksFails
    BY <2>1, <1>2 DEF Tick, MineBlocksFails, chainVars, snapshotVars
  <2>2. CASE SendEnds
    <3>1. UNCHANGED <<chain, stateRoot, irregularStates>>
      BY <2>2 DEF SendEnds, chainVars
    <3>2. PICK i \in DOMAIN snapshots : snapshots' = SnapshotsBefore(i)
      BY <2>2 DEF SendEnds, RemoveSnapshot
    <3>3. /\ DOMAIN snapshots' = 1 .. i - 1
          /\ \A j \in 1 .. i - 1 : j \in DOMAIN snapshots /\ snapshots'[j] = snapshots[j]
      BY <3>2, <1>1, SnapshotsBeforeFacts
    <3> QED
      BY <3>1, <3>3 DEF StatesAreTraced, StateIsCurrent, LatestNumber, Latest
  <2> QED
    BY <1>3, <2>1, <2>2
<1>4. ASSUME NEW timestamp \in 0 .. MaxTime, EvmMine(timestamp)
      PROVE  StatesAreTraced'
  BY <1>1, <1>4, MiningKeepsTraces DEF EvmMine
<1>5. CASE \/ \E timestamp \in 1 .. MaxTime : SetNextBlockTimestamp(timestamp)
           \/ \E increment \in Increments : InTime(increment) /\ IncreaseTime(increment)
           \/ \E tx \in Txs : SubmitTransaction(tx)
           \/ \E count \in Counts, interval \in Intervals : StartMineBlocks(count, interval)
           \/ UNCHANGED vars
  BY <1>2, <1>5 DEF SetNextBlockTimestamp, IncreaseTime, SubmitTransaction, StartMineBlocks,
                    vars, chainVars, snapshotVars
<1>6. ASSUME NEW state \in States, EditState(state)
      PROVE  StatesAreTraced'
  <2>1. /\ stateRoot' = state
        /\ irregularStates' = With(irregularStates, LatestNumber, state)
        /\ snapshots' = snapshots /\ LatestNumber' = LatestNumber /\ Latest' = Latest
    BY <1>6 DEF EditState, snapshotVars, LatestNumber, Latest
  <2>2. Lookup(With(irregularStates, LatestNumber, state), LatestNumber, Latest.state) = state
    <3>1. irregularStates \in Maps
      BY <1>1 DEF Typed
    <3>2. \A other : Lookup(With(irregularStates, LatestNumber, state), LatestNumber, other) = state
      BY <3>1, <1>1, WithType
    <3> QED
      BY <3>2
  <2>3. DOMAIN irregularStates' = DOMAIN irregularStates \union {LatestNumber}
    BY <2>1, <1>1, WithType DEF Structure, Typed
  <2>4. StateIsCurrent'
    BY <2>1, <2>2 DEF StateIsCurrent
  <2>5. DOMAIN irregularStates' \subseteq 0 .. LatestNumber'
    BY <2>1, <2>3, <1>1 DEF StatesAreTraced
  <2> QED
    BY <2>1, <2>4, <2>5 DEF StatesAreTraced
<1>7. ASSUME NEW state \in OverriddenStates \union {stateRoot}, CallWithBadOverrides(state)
      PROVE  StatesAreTraced'
  <2>1. state = stateRoot
    OBVIOUS
  <2> QED
    BY <2>1, <1>7, <1>2 DEF CallWithBadOverrides, snapshotVars
<1>8. CASE EvmSnapshot \/ StartPendingRead \/ \E tx \in Txs : StartSend(tx)
  BY <1>8, TakingKeepsTraces DEF EvmSnapshot, StartPendingRead, StartSend
<1>9. CASE \/ \E id \in 1 .. MaxSnapshots : EvmRevert(id)
           \/ SendFails \/ EndPendingRead
  BY <1>9, RevertKeepsTraces DEF EvmRevert, SendFails, EndPendingRead
<1>10. ASSUME NEW tx \in Txs, MineTransaction(tx)
       PROVE  StatesAreTraced'
  <2>1. MineBlock(0, {tx}) /\ UNCHANGED <<now, snapshotVars>> /\ {tx} \in SUBSET Txs
    BY <1>10 DEF MineTransaction
  <2> QED
    BY <2>1, MiningKeepsTraces
<1>11. CASE SendMines \/ MinePendingBlock
  <2>1. MineBlock(0, pending) /\ UNCHANGED <<now, snapshotVars>>
    BY <1>11 DEF SendMines, MinePendingBlock
  <2> QED
    BY <2>1, <1>1, MiningKeepsTraces
<1>12. CASE MineOneOfBlocks
  <2> DEFINE timestamp == IF task.stage = "first" THEN 0 ELSE Latest.timestamp + task.interval
  <2>1. MineBlock(timestamp, pending) /\ UNCHANGED <<now, snapshotVars>> /\ task.op = "mine"
    BY <1>12 DEF MineOneOfBlocks
  <2>2. task.interval \in Nat
    BY <2>1, TaskTypes DEF Structure, Typed
  <2>3. timestamp \in Nat
    BY <2>2, <1>1
  <2> HIDE DEF timestamp
  <2> QED
    BY <2>1, <2>3, <1>1, MiningKeepsTraces
<1>13. CASE ReserveRest
  <2>1. /\ Len(chain') = Len(chain) + task.left - 1
        /\ \A i \in 1 .. task.left - 1 : chain'[Len(chain) + i].state = stateRoot
        /\ task.left \in Nat \ {0}
    BY <1>13, ReserveEffect DEF Structure
  <2>2. /\ task.left > ReserveAbove /\ ReserveAbove \in Nat \ {0}
        /\ UNCHANGED <<stateRoot, irregularStates, snapshots>>
    BY <1>13, MiningAssumption DEF ReserveRest, snapshotVars
  <2>3. \A left, above \in Nat \ {0} : left > above => left - 1 >= 1
    OBVIOUS
  <2>4. task.left - 1 >= 1 /\ task.left - 1 \in Nat /\ task.left - 1 \in 1 .. task.left - 1
    BY <2>1, <2>2, <2>3
  <2>5. Len(chain) \in Nat
    BY <1>1, ChainFacts
  <2>6. Len(chain') = Len(chain) + (task.left - 1)
    BY <2>1, <2>5
  <2>7. Latest' = chain'[Len(chain) + (task.left - 1)]
    BY <2>6 DEF Latest
  <2>8. Latest'.state = stateRoot
    BY <2>1, <2>4, <2>7
  <2>9. LatestNumber' \in Nat /\ LatestNumber' > LatestNumber
    BY <2>4, <2>5, <2>6, <1>1 DEF LatestNumber
  <2> QED
    BY <2>2, <2>8, <2>9, GrowthKeepsTraces
<1> QED
  BY <1>3, <1>4, <1>5, <1>6, <1>7, <1>8, <1>9, <1>10, <1>11, <1>12, <1>13 DEF Next

\* As long as no call stops in the middle of its state overrides, the current state is the one
\* of the latest block or the one it was edited to: mining, reading in the pending block,
\* editing, failing and reverting leave no other state behind.
THEOREM StateStaysCurrent ==
    ASSUME OverriddenStates = {}
    PROVE  Spec => []StateIsCurrent
<1>1. Init => Structure /\ StatesAreTraced
  BY InitStructure, InitTraced
<1>2. (Structure /\ StatesAreTraced) /\ [Next]_vars => (Structure /\ StatesAreTraced)'
  BY StepStructure, StepTraced
<1>3. Structure /\ StatesAreTraced => StateIsCurrent
  BY DEF StatesAreTraced
<1> QED
  BY <1>1, <1>2, <1>3, PTL DEF Spec

-----------------------------------------------------------------------------
(* The order of timestamps, when hardhat_mine is not asked for blocks of the  *)
(* same time on a node that does not allow them.                              *)

IntervalsAreAllowed == AllowBlocksWithSameTimestamp \/ 0 \notin Intervals

MineIsPrepared ==
    task.op = "mine" =>
        /\ task.stage # "first" => nextBlockTimestamp = 0
        /\ task.stage = "rest" => pending = {}

\* A timestamp for the next block is possible, now and where a snapshot goes back to.
NextIsOrdered ==
    /\ NextTimestampIsPossible
    /\ MineIsPrepared
    /\ \A i \in DOMAIN snapshots :
        snapshots[i].nextBlockTimestamp # 0 =>
            InOrder(snapshots[i].latestBlock.block.timestamp, snapshots[i].nextBlockTimestamp)

SnapshotsAreAhead == \A i \in DOMAIN snapshots : TakenAhead(snapshots[i])

\* evm_increaseTime with a negative number
Decreases == \E increment \in Increments : increment < 0 /\ IncreaseTime(increment)

ClockIsKept ==
    \/ ClockIsAhead' \/ Decreases \/ GoesBack
    \/ ~ ClockIsAhead /\ UNCHANGED chain

\* What every step does to the time of the chain, whatever the clock was turned back before.
TimeGoesOn ==
    /\ NextIsOrdered'
    /\ ClockIsAhead => NewBlocksFollow
    /\ ClockIsKept
    /\ ClockIsAhead /\ SnapshotsAreAhead => SnapshotsAreAhead'
    /\ Len(chain') \in Nat
    /\ \A i \in 1 .. Len(chain') : i <= Len(chain) => chain'[i] = chain[i]

\* The clock is set to the block that is mined; the block is after the latest one if the clock
\* was not behind, or a timestamp was given.
LEMMA MinedInOrder ==
    ASSUME Structure, NextTimestampIsPossible, NEW timestamp \in Nat, NEW pool \in SUBSET Txs,
           MineBlock(timestamp, pool), UNCHANGED now,
           timestamp # 0 => InOrder(Latest.timestamp, timestamp)
    PROVE  /\ timestamp # 0 \/ CurrentTimestamp + blockTimeOffsetSeconds >= Latest.timestamp
                => InOrder(Latest.timestamp, Latest'.timestamp)
           /\ CurrentTimestamp' + blockTimeOffsetSeconds' = Latest'.timestamp
           /\ nextBlockTimestamp' = 0
<1> DEFINE asked == IF timestamp # 0 THEN timestamp ELSE nextBlockTimestamp
           computed == IF asked # 0 THEN asked ELSE CurrentTimestamp + blockTimeOffsetSeconds
           clash == ~ AllowBlocksWithSameTimestamp /\ computed = Latest.timestamp
           stamp == IF clash THEN computed + 1 ELSE computed
           last == Latest.timestamp
<1>1. PICK txs \in SUBSET pool, state \in States :
        chain' = Append(chain, [timestamp |-> stamp, state |-> state, txs |-> txs])
  BY DEF MineBlock
<1>2. blockTimeOffsetSeconds' = NewOffset(asked, clash) /\ nextBlockTimestamp' = 0
  BY DEF MineBlock
<1>3. /\ CurrentTimestamp \in Int /\ CurrentTimestamp' = CurrentTimestamp
      /\ blockTimeOffsetSeconds \in Int /\ nextBlockTimestamp \in Nat
      /\ AllowBlocksWithSameTimestamp \in BOOLEAN
      /\ last \in Nat
  BY ClockFacts, ChainFacts, MiningAssumption
     DEF Structure, Typed, CurrentTimestamp, Block
<1>4. Latest'.timestamp = stamp
  <2>1. chain \in Seq(Block) /\ Len(chain) \in Nat
    BY ChainFacts DEF Structure, Typed
  <2> DEFINE block == [timestamp |-> stamp, state |-> state, txs |-> txs]
  <2>2. block.timestamp = stamp
    OBVIOUS
  <2>3. chain' = Append(chain, block)
    BY <1>1
  <2> HIDE DEF block, stamp
  <2>4. Len(chain') = Len(chain) + 1 /\ chain'[Len(chain) + 1] = block
    BY <2>1, <2>3
  <2> QED
    BY <2>2, <2>4 DEF Latest
<1>5. /\ asked \in Nat /\ (timestamp # 0 => asked # 0)
      /\ asked # 0 => InOrder(last, asked)
  BY <1>3 DEF NextTimestampIsPossible
<1> HIDE DEF asked, last
<1>6. computed \in Int /\ (asked # 0 => InOrder(last, computed))
  BY <1>3, <1>5
<1>7. ASSUME asked # 0 \/ CurrentTimestamp + blockTimeOffsetSeconds >= last
      PROVE  InOrder(last, stamp)
  <2>1. CASE AllowBlocksWithSameTimestamp
    BY <2>1, <1>3, <1>5, <1>7 DEF InOrder
  <2>2. CASE ~ AllowBlocksWithSameTimestamp
    <3>1. computed >= last
      BY <2>2, <1>3, <1>5, <1>7 DEF InOrder
    <3>2. CASE computed = last
      <4>1. stamp = last + 1
        BY <3>2, <2>2 DEF last
      <4> QED
        BY <4>1, <2>2, <1>3 DEF InOrder
    <3>3. CASE computed # last
      <4>1. stamp = computed
        BY <3>3 DEF last
      <4> HIDE DEF computed
      <4> QED
        BY <3>1, <3>3, <4>1, <2>2, <1>3, <1>6 DEF InOrder
    <3> QED
      BY <3>2, <3>3
  <2> QED
    BY <2>1, <2>2, <1>3
<1>8. CurrentTimestamp' + blockTimeOffsetSeconds' = stamp
  <2>1. CASE asked # 0
    <3>1. ~ clash
      BY <2>1, <1>3, <1>5, <1>6 DEF InOrder, last
    <3>2. blockTimeOffsetSeconds' = asked - CurrentTimestamp /\ stamp = asked
      BY <2>1, <3>1, <1>2 DEF NewOffset
    <3> QED
      BY <3>2, <1>3, <1>5
  <2>2. CASE asked = 0
    <3>1. computed = CurrentTimestamp + blockTimeOffsetSeconds
      BY <2>2
    <3>2. CASE clash
      <4>1. blockTimeOffsetSeconds' = blockTimeOffsetSeconds + 1 /\ stamp = computed + 1
        BY <3>2, <2>2, <1>2 DEF NewOffset
      <4> QED
        BY <3>1, <4>1, <1>3
    <3>3. CASE ~ clash
      <4>1. blockTimeOffsetSeconds' = blockTimeOffsetSeconds /\ stamp = computed
        BY <3>3, <2>2, <1>2 DEF NewOffset
      <4> QED
        BY <3>1, <4>1, <1>3
    <3> QED
      BY <3>2, <3>3
  <2> QED
    BY <2>1, <2>2
<1> QED
  BY <1>2, <1>4, <1>5, <1>7, <1>8 DEF last

\* A new block, with a timestamp that was given or while the clock is not behind by then.
LEMMA MiningInTime ==
    ASSUME Structure, NextIsOrdered, NEW timestamp \in Nat, NEW pool \in SUBSET Txs,
           MineBlock(timestamp, pool), UNCHANGED <<now, snapshotVars>>,
           timestamp # 0 => InOrder(Latest.timestamp, timestamp),
           timestamp = 0 => task.op # "mine" \/ task.stage # "rest",
           MineIsPrepared'
    PROVE  TimeGoesOn
<1>1. PICK block : Mines(block, pool)
  BY MineBlockEffect DEF Structure
<1>2. /\ ChainGrows /\ Len(chain') = Len(chain) + 1
      /\ chain'[Len(chain) + 1] = Latest' /\ Latest' = block
  BY <1>1, MinedChainGrows DEF Structure
<1>3. /\ timestamp # 0 \/ CurrentTimestamp + blockTimeOffsetSeconds >= Latest.timestamp
           => InOrder(Latest.timestamp, Latest'.timestamp)
      /\ CurrentTimestamp' + blockTimeOffsetSeconds' = Latest'.timestamp
      /\ nextBlockTimestamp' = 0
  BY MinedInOrder DEF NextIsOrdered
<1>4. Len(chain) \in Nat \ {0} /\ snapshots' = snapshots
  BY ChainFacts DEF Structure, snapshotVars
<1>5. ClockIsAhead => NewBlocksFollow
  <2>1. chain'[Len(chain)] = Latest
    BY <1>2, <1>4 DEF ChainGrows, Latest
  <2>2. ASSUME ClockIsAhead, NEW i \in Len(chain) + 1 .. Len(chain')
        PROVE  InOrder(chain'[i - 1].timestamp, chain'[i].timestamp)
    <3>1. i = Len(chain) + 1 /\ i - 1 = Len(chain)
      BY <1>2, <1>4
    <3>2. InOrder(Latest.timestamp, Latest'.timestamp)
      BY <2>2, <1>3 DEF ClockIsAhead
    <3> QED
      BY <3>1, <3>2, <2>1, <1>2
  <2> QED
    BY <2>2 DEF NewBlocksFollow
<1>6. Latest'.timestamp \in Int
  BY <1>1, <1>2 DEF Mines, Block
<1>7. ClockIsAhead'
  BY <1>3, <1>6 DEF ClockIsAhead
<1>8. NextIsOrdered' /\ (SnapshotsAreAhead => SnapshotsAreAhead')
  BY <1>3, <1>4 DEF NextIsOrdered, NextTimestampIsPossible, SnapshotsAreAhead
<1>9. Len(chain') \in Nat /\ \A i \in 1 .. Len(chain') : i <= Len(chain) => chain'[i] = chain[i]
  BY <1>2, <1>4 DEF ChainGrows
<1> QED
  BY <1>5, <1>7, <1>8, <1>9 DEF TimeGoesOn, ClockIsKept

LEMMA NoNewBlocks ==
    ASSUME Structure, UNCHANGED chain
    PROVE  /\ NewBlocksFollow
           /\ Len(chain') \in Nat
           /\ \A i \in 1 .. Len(chain') : i <= Len(chain) => chain'[i] = chain[i]
<1>1. Len(chain) \in Nat /\ Len(chain') = Len(chain)
  BY ChainFacts DEF Structure
<1> QED
  BY <1>1 DEF NewBlocksFollow

\* Actions that keep the chain and the snapshots.
LEMMA SmallStepInTime ==
    ASSUME Structure, NextIsOrdered, UNCHANGED <<chain, snapshots>>,
           NextTimestampIsPossible', MineIsPrepared', ClockIsKept
    PROVE  TimeGoesOn
<1>1. NextIsOrdered' /\ (SnapshotsAreAhead => SnapshotsAreAhead')
  BY DEF NextIsOrdered, SnapshotsAreAhead
<1> QED
  BY <1>1, NoNewBlocks DEF TimeGoesOn

\* If the clock does not change, nor whether it matters, it is as before.
LEMMA SameClock ==
    ASSUME UNCHANGED <<now, blockTimeOffsetSeconds, nextBlockTimestamp, chain>>,
           (task'.op = "mine" /\ task'.stage = "rest") \/ ~ (task.op = "mine" /\ task.stage = "rest")
    PROVE  ClockIsKept /\ (NextTimestampIsPossible => NextTimestampIsPossible')
BY DEF ClockIsKept, ClockIsAhead, NextTimestampIsPossible, InOrder, CurrentTimestamp, Latest

LEMMA TakingInTime ==
    ASSUME Structure, NextIsOrdered, TakeSnapshot, UNCHANGED <<now, clockVars, chainVars>>,
           task.op = "idle", task'.op # "mine"
    PROVE  TimeGoesOn
<1> DEFINE n == Len(snapshots)
<1>1. snapshots \in Seq(SnapshotType) /\ n \in Nat /\ DOMAIN snapshots = 1 .. n
  BY SnapshotFacts DEF Structure, Typed
<1> DEFINE snapshot ==
        [id |-> nextSnapshotId,
         date |-> now,
         latestBlock |-> [number |-> LatestNumber, block |-> Latest],
         stateRoot |-> stateRoot,
         blockTimeOffsetSeconds |-> blockTimeOffsetSeconds,
         nextBlockTimestamp |-> nextBlockTimestamp,
         irregularStates |-> irregularStates]
<1>2. snapshots' = Append(snapshots, snapshot)
  BY DEF TakeSnapshot
<1>3. snapshot \in SnapshotType
  BY ChainFacts DEF Structure, Typed, SnapshotType
<1>4. /\ DOMAIN snapshots' = 1 .. n + 1
      /\ \A i \in 1 .. n : snapshots'[i] = snapshots[i]
      /\ snapshots'[n + 1] = snapshot
  BY <1>1, <1>2, <1>3, AppendProperties, LenProperties
<1>5. /\ ClockIsAhead => TakenAhead(snapshot)
      /\ snapshot.nextBlockTimestamp # 0 =>
           InOrder(snapshot.latestBlock.block.timestamp, snapshot.nextBlockTimestamp)
  BY DEF NextIsOrdered, NextTimestampIsPossible, ClockIsAhead, TakenAhead, CurrentTimestamp
<1> HIDE DEF snapshot
<1>6. \A i \in DOMAIN snapshots' :
          \/ i \in DOMAIN snapshots /\ snapshots'[i] = snapshots[i]
          \/ snapshots'[i] = snapshot
  BY <1>1, <1>4
<1>7. ClockIsAhead /\ SnapshotsAreAhead => SnapshotsAreAhead'
  <2>1. ASSUME ClockIsAhead, SnapshotsAreAhead, NEW i \in DOMAIN snapshots'
        PROVE  TakenAhead(snapshots'[i])
    BY <2>1, <1>5, <1>6 DEF SnapshotsAreAhead
  <2> QED
    BY <2>1 DEF SnapshotsAreAhead, TakenAhead
<1>8. UNCHANGED <<now, blockTimeOffsetSeconds, nextBlockTimestamp, chain>>
  BY DEF clockVars, chainVars
<1>9. ClockIsKept /\ NextTimestampIsPossible' /\ MineIsPrepared'
  BY <1>8, SameClock DEF NextIsOrdered, MineIsPrepared
<1>10. NextIsOrdered'
  BY <1>5, <1>6, <1>9 DEF NextIsOrdered, InOrder
<1> QED
  BY <1>7, <1>8, <1>9, <1>10, NoNewBlocks DEF TimeGoesOn

\* The first snapshots remain, whatever happened to the rest.
LEMMA PrefixInTime ==
    ASSUME Structure, NextIsOrdered, NEW i \in DOMAIN snapshots, snapshots' = SnapshotsBefore(i),
           NextTimestampIsPossible', MineIsPrepared'
    PROVE  NextIsOrdered' /\ (SnapshotsAreAhead => SnapshotsAreAhead')
<1>1. /\ DOMAIN snapshots' = 1 .. i - 1
      /\ \A j \in 1 .. i - 1 : j \in DOMAIN snapshots /\ snapshots'[j] = snapshots[j]
  BY SnapshotsBeforeFacts DEF Structure
<1> QED
  BY <1>1 DEF NextIsOrdered, SnapshotsAreAhead, TakenAhead, InOrder

LEMMA RevertInTime ==
    ASSUME Structure, NextIsOrdered, NEW id, RevertToSnapshot(id), UNCHANGED now,
           task'.op = "idle"
    PROVE  TimeGoesOn
<1>1. PICK i \in DOMAIN snapshots :
        /\ snapshots[i].id = id
        /\ chain' = SubSeq(chain, 1, snapshots[i].latestBlock.number + 1)
        /\ blockTimeOffsetSeconds' = RevertedOffset(snapshots[i])
        /\ nextBlockTimestamp' = snapshots[i].nextBlockTimestamp
        /\ snapshots' = SnapshotsBefore(i)
  BY DEF RevertToSnapshot
<1>2. /\ Latest' = snapshots[i].latestBlock.block
      /\ Len(chain') \in Nat /\ Len(chain') <= Len(chain)
      /\ \A k \in 1 .. Len(chain') : k \in 1 .. Len(chain) /\ chain'[k] = chain[k]
  BY <1>1, RevertedChain DEF Structure
<1>3. NewBlocksFollow
  <2>1. Len(chain) \in Nat
    BY ChainFacts DEF Structure
  <2> QED
    BY <2>1, <1>2 DEF NewBlocksFollow
<1>4. ASSUME TakenAhead(snapshots[i])
      PROVE  ClockIsAhead'
  <2> DEFINE before == CeilSeconds(snapshots[i].date) + snapshots[i].blockTimeOffsetSeconds
             after == CurrentTimestamp' + blockTimeOffsetSeconds'
             stamp == snapshots[i].latestBlock.block.timestamp
  <2>1. before \in Int /\ after \in Int /\ after >= before
    BY <1>1, RevertedClock DEF Structure
  <2>2. before >= stamp
    BY <1>4 DEF TakenAhead
  <2>3. stamp \in Int
    BY SnapshotFacts DEF Structure, SnapshotType, Block
  <2> HIDE DEF before, after, stamp
  <2>4. after >= stamp
    BY <2>1, <2>2, <2>3
  <2> QED
    BY <2>4, <1>2 DEF after, stamp, ClockIsAhead
<1>5. ClockIsKept
  <2>1. ~ TakenAhead(snapshots[i]) => GoesBack
    BY <1>1 DEF GoesBack
  <2> QED
    BY <1>4, <2>1 DEF ClockIsKept
<1>6. NextTimestampIsPossible' /\ MineIsPrepared'
  BY <1>1, <1>2 DEF NextIsOrdered, NextTimestampIsPossible, MineIsPrepared, InOrder
<1>7. NextIsOrdered' /\ (SnapshotsAreAhead => SnapshotsAreAhead')
  BY <1>1, <1>6, PrefixInTime
<1> QED
  BY <1>2, <1>3, <1>5, <1>7 DEF TimeGoesOn

LEMMA InitInTime ==
    ASSUME Init
    PROVE  NextIsOrdered /\ ClockIsAhead /\ SnapshotsAreAhead /\ TimestampsIncrease
<1>1. CurrentTimestamp \in Nat
  BY GenesisIsNotAhead
<1>2. PICK timestamp, offset :
        /\ Created(timestamp, offset)
        /\ timestamp \in Nat /\ CurrentTimestamp + offset >= timestamp
  BY GenesisIsNotAhead
<1>3. /\ Len(chain) = 1 /\ Latest.timestamp = timestamp
      /\ blockTimeOffsetSeconds = offset /\ nextBlockTimestamp = 0
      /\ snapshots = << >> /\ task.op = "idle"
  BY <1>2 DEF Created, Latest, Idle
<1>4. TimestampsIncrease
  BY <1>3 DEF TimestampsIncrease
<1>5. ClockIsAhead
  BY <1>2, <1>3 DEF ClockIsAhead
<1> QED
  BY <1>3, <1>4, <1>5 DEF NextIsOrdered, NextTimestampIsPossible, MineIsPrepared, SnapshotsAreAhead

\* The reserved blocks are in order too, whatever the clock.
LEMMA ReservingInTime ==
    ASSUME IntervalsAreAllowed, Structure, NextIsOrdered, ReserveRest
    PROVE  TimeGoesOn
<1> DEFINE last == Latest.timestamp
           interval == task.interval
           more == task.left - 1
           length == Len(chain)
<1>1. /\ ChainGrows
      /\ Len(chain') = length + task.left - 1
      /\ \A i \in 1 .. more : chain'[length + i].timestamp = last + i * interval
      /\ task.left \in Nat \ {0} /\ interval \in Intervals /\ interval \in Nat
  BY ReserveEffect DEF Structure
<1>2. more \in Nat /\ length \in Nat \ {0} /\ last \in Nat /\ Len(chain') = length + more
  BY <1>1, ChainFacts DEF Structure, Block
<1>3. chain'[length] = Latest
  BY <1>1, <1>2 DEF ChainGrows, Latest
<1>4. \A a \in Int : InOrder(a, a + interval)
  BY <1>1, MiningAssumption DEF IntervalsAreAllowed, InOrder
<1> HIDE DEF last, interval, more, length
<1>5. ASSUME NEW i \in 1 .. more
      PROVE  InOrder(chain'[length + i - 1].timestamp, chain'[length + i].timestamp)
  <2>1. CASE i = 1
    <3>1. length + i - 1 = length /\ 1 * interval = interval
      BY <2>1, <1>1, <1>2
    <3>2. chain'[length + i].timestamp = last + interval
      BY <2>1, <3>1, <1>1
    <3>3. chain'[length].timestamp = last
      BY <1>3 DEF last
    <3> QED
      BY <3>1, <3>2, <3>3, <1>2, <1>4
  <2>2. CASE i # 1
    <3>1. i - 1 \in 1 .. more /\ length + i - 1 = length + (i - 1)
      BY <2>2, <1>2
    <3>2. /\ chain'[length + (i - 1)].timestamp = last + (i - 1) * interval
          /\ chain'[length + i].timestamp = last + i * interval
      BY <3>1, <1>1
    <3>3. i * interval = (i - 1) * interval + interval /\ (i - 1) * interval \in Int
      <4>1. i \in Int /\ interval \in Int
        BY <1>1
      <4> QED
        BY <4>1, SMTT(20)
    <3>4. /\ last + i * interval = (last + (i - 1) * interval) + interval
          /\ last + (i - 1) * interval \in Int
      BY <3>3, <1>1, <1>2
    <3> QED
      BY <3>1, <3>2, <3>4, <1>4
  <2> QED
    BY <2>1, <2>2
<1>6. NewBlocksFollow
  <2>1. ASSUME NEW i \in Len(chain) + 1 .. Len(chain')
        PROVE  InOrder(chain'[i - 1].timestamp, chain'[i].timestamp)
    <3>1. /\ i - length \in 1 .. more
          /\ length + (i - length) = i /\ length + (i - length) - 1 = i - 1
      BY <1>2 DEF length
    <3>2. InOrder(chain'[length + (i - length) - 1].timestamp,
                  chain'[length + (i - length)].timestamp)
      BY <3>1, <1>5
    <3> QED
      BY <3>1, <3>2
  <2> QED
    BY <2>1 DEF NewBlocksFollow
<1>7. /\ task.op = "mine" /\ task.stage = "rest"
      /\ task'.op = "mine" /\ task'.stage = "rest"
      /\ nextBlockTimestamp' = nextBlockTimestamp /\ pending' = pending
      /\ snapshots' = snapshots
  <2>1. /\ task \in [op : {"mine"}, stage : {"first", "pending", "rest"}, left : Nat,
                     interval : Intervals]
        /\ task' = [task EXCEPT !.left = 1]
    BY TaskTypes DEF Structure, Typed, ReserveRest
  <2>2. task'.op = task.op /\ task'.stage = task.stage
    BY <2>1
  <2> QED
    BY <2>1, <2>2 DEF ReserveRest, clockVars, snapshotVars
<1>8. ClockIsAhead' /\ MineIsPrepared' /\ NextTimestampIsPossible'
  BY <1>7 DEF NextIsOrdered, ClockIsAhead, MineIsPrepared, NextTimestampIsPossible
<1>9. NextIsOrdered' /\ (SnapshotsAreAhead => SnapshotsAreAhead')
  BY <1>7, <1>8 DEF NextIsOrdered, SnapshotsAreAhead
<1>10. Len(chain') \in Nat /\ \A i \in 1 .. Len(chain') : i <= Len(chain) => chain'[i] = chain[i]
  BY <1>1, <1>2 DEF ChainGrows, length
<1> QED
  BY <1>6, <1>8, <1>9, <1>10 DEF TimeGoesOn, ClockIsKept

LEMMA StepInTime ==
    ASSUME IntervalsAreAllowed, Structure, NextIsOrdered, [Next]_vars
    PROVE  TimeGoesOn
<1>1. /\ Typed /\ task \in Task /\ pending \in SUBSET Txs
      /\ blockTimeOffsetSeconds \in Int /\ nextBlockTimestamp \in Nat
      /\ CurrentTimestamp \in Int
      /\ Latest.timestamp \in Nat /\ Latest.timestamp >= 1
  BY ChainFacts, ClockFacts DEF Structure, Typed, Block, TimeIsPositive, Latest
<1>2. ASSUME UNCHANGED <<now, blockTimeOffsetSeconds, nextBlockTimestamp, chain, snapshots>>,
             (task'.op = "mine" /\ task'.stage = "rest")
               \/ ~ (task.op = "mine" /\ task.stage = "rest"),
             MineIsPrepared'
      PROVE  TimeGoesOn
  BY <1>2, SameClock, SmallStepInTime DEF NextIsOrdered
<1>3. CASE Tick
  <2>1. now' = now + 1 /\ now \in Nat
    BY <1>3, <1>1 DEF Tick, Typed
  <2>2. /\ UNCHANGED <<blockTimeOffsetSeconds, nextBlockTimestamp, chain, pending, snapshots,
                       task>>
        /\ Latest' = Latest
    BY <1>3 DEF Tick, clockVars, chainVars, snapshotVars, Latest
  <2>3. CurrentTimestamp <= CurrentTimestamp' /\ CurrentTimestamp' \in Int
    <3>1. now \in Int /\ now + 1 \in Int /\ now <= now + 1
      BY <2>1
    <3>2. CeilSeconds(now) <= CeilSeconds(now + 1) /\ CeilSeconds(now + 1) \in Int
      BY <3>1, CeilMonotone, CeilBounds
    <3> QED
      BY <2>1, <3>2 DEF CurrentTimestamp
  <2>4. \A a, b, c, d \in Int : a <= b /\ a + c >= d => b + c >= d
    OBVIOUS
  <2>5. ClockIsKept
    BY <2>2, <2>3, <2>4, <1>1 DEF ClockIsKept, ClockIsAhead
  <2>6. MineIsPrepared' /\ NextTimestampIsPossible'
    BY <2>2 DEF NextIsOrdered, MineIsPrepared, NextTimestampIsPossible
  <2> QED
    BY <2>2, <2>5, <2>6, SmallStepInTime
<1>4. ASSUME NEW timestamp \in 0 .. MaxTime, EvmMine(timestamp)
      PROVE  TimeGoesOn
  <2>1. /\ task.op = "idle" /\ task' = task
        /\ timestamp = 0 \/ timestamp > Latest.timestamp
        /\ MineBlock(timestamp, pending) /\ UNCHANGED <<now, snapshotVars>>
    BY <1>4 DEF EvmMine, Idle
  <2>2. timestamp \in Nat
    OBVIOUS
  <2>3. timestamp # 0 => InOrder(Latest.timestamp, timestamp)
    BY <2>1, <2>2, <1>1 DEF InOrder
  <2>4. MineIsPrepared'
    BY <2>1 DEF MineIsPrepared
  <2> QED
    BY <2>1, <2>2, <2>3, <2>4, <1>1, MiningInTime
<1>5. ASSUME NEW timestamp \in 1 .. MaxTime, SetNextBlockTimestamp(timestamp)
      PROVE  TimeGoesOn
  <2>1. /\ task.op = "idle" /\ task' = task
        /\ nextBlockTimestamp' = timestamp
        /\ UNCHANGED <<now, blockTimeOffsetSeconds, chain, snapshots>>
        /\ IF AllowBlocksWithSameTimestamp THEN timestamp >= Latest.timestamp
                                           ELSE timestamp > Latest.timestamp
    BY <1>5 DEF SetNextBlockTimestamp, Idle, chainVars, snapshotVars
  <2>2. CurrentTimestamp' = CurrentTimestamp /\ Latest' = Latest
    BY <2>1 DEF CurrentTimestamp, Latest
  <2>3. ClockIsKept
    BY <2>1, <2>2 DEF ClockIsKept, ClockIsAhead
  <2>4. MineIsPrepared'
    BY <2>1 DEF MineIsPrepared
  <2>5. NextTimestampIsPossible'
    BY <2>1, <2>2, <1>1 DEF NextTimestampIsPossible, InOrder
  <2> QED
    BY <2>1, <2>3, <2>4, <2>5, SmallStepInTime
<1>6. ASSUME NEW increment \in Increments, InTime(increment), IncreaseTime(increment)
      PROVE  TimeGoesOn
  <2>1. /\ task.op = "idle" /\ task' = task
        /\ blockTimeOffsetSeconds' = blockTimeOffsetSeconds + increment
        /\ UNCHANGED <<now, nextBlockTimestamp, chain, snapshots>>
    BY <1>6 DEF IncreaseTime, Idle, chainVars, snapshotVars
  <2>2. CurrentTimestamp' = CurrentTimestamp /\ Latest' = Latest
    BY <2>1 DEF CurrentTimestamp, Latest
  <2>3. increment \in Int
    BY TimeAssumption
  <2>4. ClockIsKept
    <3>1. CASE increment < 0
      BY <3>1, <1>6 DEF ClockIsKept, Decreases
    <3>2. CASE ~ (increment < 0)
      <4>1. \A a, b, c, d \in Int : a + b >= c /\ ~ (d < 0) => a + (b + d) >= c
        OBVIOUS
      <4>2. ClockIsAhead => ClockIsAhead'
        BY <2>1, <2>2, <2>3, <3>2, <4>1, <1>1 DEF ClockIsAhead
      <4> QED
        BY <4>2, <2>1 DEF ClockIsKept
    <3> QED
      BY <3>1, <3>2
  <2>5. MineIsPrepared' /\ NextTimestampIsPossible'
    BY <2>1, <2>2 DEF MineIsPrepared, NextIsOrdered, NextTimestampIsPossible
  <2> QED
    BY <2>1, <2>4, <2>5, SmallStepInTime
<1>7. CASE \/ \E state \in States : EditState(state)
           \/ \E state \in OverriddenStates \union {stateRoot} : CallWithBadOverrides(state)
           \/ \E tx \in Txs : SubmitTransaction(tx)
  <2>1. /\ UNCHANGED <<now, blockTimeOffsetSeconds, nextBlockTimestamp, chain, snapshots, task>>
        /\ task.op = "idle"
    BY <1>7 DEF EditState, CallWithBadOverrides, SubmitTransaction, Idle, clockVars, chainVars,
                snapshotVars
  <2>2. MineIsPrepared'
    BY <2>1 DEF MineIsPrepared
  <2> QED
    BY <2>1, <2>2, <1>2
<1>8. CASE EvmSnapshot \/ StartPendingRead \/ \E tx \in Txs : StartSend(tx)
  <2>1. /\ TakeSnapshot /\ UNCHANGED <<now, clockVars, chainVars>>
        /\ task.op = "idle" /\ task'.op # "mine"
    BY <1>8 DEF EvmSnapshot, StartPendingRead, StartSend, Idle
  <2> QED
    BY <2>1, TakingInTime
<1>9. CASE \/ \E id \in 1 .. MaxSnapshots : EvmRevert(id)
           \/ SendFails \/ EndPendingRead
  <2>1. PICK id : RevertToSnapshot(id) /\ UNCHANGED now /\ task'.op = "idle"
    BY <1>9 DEF EvmRevert, SendFails, EndPendingRead, Idle
  <2> QED
    BY <2>1, RevertInTime
<1>10. ASSUME NEW tx \in Txs, MineTransaction(tx)
       PROVE  TimeGoesOn
  <2>1. /\ MineBlock(0, {tx}) /\ UNCHANGED <<now, snapshotVars>> /\ {tx} \in SUBSET Txs
        /\ task.op = "idle" /\ task' = task
    BY <1>10 DEF MineTransaction, Idle
  <2>2. MineIsPrepared'
    BY <2>1 DEF MineIsPrepared
  <2> QED
    BY <2>1, <2>2, MiningInTime
<1>11. CASE SendMines \/ MinePendingBlock
  <2>1. /\ MineBlock(0, pending) /\ UNCHANGED <<now, snapshotVars>>
        /\ task.op # "mine" /\ task' = task
    BY <1>11 DEF SendMines, MinePendingBlock
  <2>2. MineIsPrepared'
    BY <2>1 DEF MineIsPrepared
  <2> QED
    BY <2>1, <2>2, <1>1, MiningInTime
<1>12. CASE SendEnds
  <2>1. /\ UNCHANGED <<now, blockTimeOffsetSeconds, nextBlockTimestamp, chain>>
        /\ task.op = "send" /\ task'.op = "idle"
    BY <1>12 DEF SendEnds, Idle, clockVars, chainVars
  <2>2. PICK i \in DOMAIN snapshots : snapshots' = SnapshotsBefore(i)
    BY <1>12 DEF SendEnds, RemoveSnapshot
  <2>3. ClockIsKept /\ NextTimestampIsPossible' /\ MineIsPrepared'
    BY <2>1, SameClock DEF NextIsOrdered, MineIsPrepared
  <2>4. NextIsOrdered' /\ (SnapshotsAreAhead => SnapshotsAreAhead')
    BY <2>2, <2>3, PrefixInTime
  <2> QED
    BY <2>1, <2>3, <2>4, NoNewBlocks DEF TimeGoesOn
<1>13. ASSUME NEW count \in Counts, NEW interval \in Intervals, StartMineBlocks(count, interval)
       PROVE  TimeGoesOn
  <2>1. /\ UNCHANGED <<now, blockTimeOffsetSeconds, nextBlockTimestamp, chain, snapshots>>
        /\ task.op = "idle" /\ task'.op = "mine" /\ task'.stage = "first"
    BY <1>13 DEF StartMineBlocks, Idle, clockVars, chainVars, snapshotVars
  <2>2. MineIsPrepared'
    BY <2>1 DEF MineIsPrepared
  <2> QED
    BY <2>1, <2>2, <1>2
<1>14. CASE MineOneOfBlocks
  <2> DEFINE timestamp == IF task.stage = "first" THEN 0 ELSE Latest.timestamp + task.interval
  <2>1. /\ MineBlock(timestamp, pending) /\ UNCHANGED <<now, snapshotVars>>
        /\ task.op = "mine"
        /\ \/ task' = Idle
           \/ task' = [task EXCEPT
                    !.left = @ - 1,
                    !.stage = IF @ = "first" THEN "pending" ELSE IF pending # {} THEN @ ELSE "rest"]
    BY <1>14 DEF MineOneOfBlocks
  <2>2. /\ task \in [op : {"mine"}, stage : {"first", "pending", "rest"}, left : Nat,
                     interval : Intervals]
        /\ task.interval \in Nat /\ task.interval \in Intervals
    BY <2>1, <1>1, TaskTypes
  <2>3. timestamp \in Nat
    BY <2>2, <1>1
  <2>4. timestamp # 0 => InOrder(Latest.timestamp, timestamp)
    <3>1. \A a \in Int : InOrder(a, a + task.interval)
      BY <2>2, MiningAssumption DEF IntervalsAreAllowed, InOrder
    <3> QED
      BY <3>1, <1>1
  <2>5. timestamp = 0 => task.stage # "rest"
    BY <2>2, <1>1
  <2>6. nextBlockTimestamp' = 0 /\ pending' \subseteq pending
    <3>1. PICK block : Mines(block, pending)
      BY <2>1, <2>3, <1>1, MineBlockEffect DEF Structure
    <3> QED
      BY <3>1 DEF Mines
  <2>7. MineIsPrepared'
    <3>1. CASE task' = Idle
      BY <3>1 DEF MineIsPrepared, Idle
    <3>2. CASE task' # Idle
      <4>1. task'.stage = "rest" => pending = {} \/ task.stage = "rest"
        BY <3>2, <2>1, <2>2
      <4>2. task.stage = "rest" => pending = {}
        BY <2>1 DEF NextIsOrdered, MineIsPrepared
      <4> QED
        BY <4>1, <4>2, <2>6 DEF MineIsPrepared
    <3> QED
      BY <3>1, <3>2
  <2> HIDE DEF timestamp
  <2> QED
    BY <2>1, <2>3, <2>4, <2>5, <2>7, <1>1, MiningInTime
<1>15. CASE ReserveRest
  BY <1>15, ReservingInTime
<1>16. CASE MineBlocksFails
  <2>1. /\ UNCHANGED <<now, blockTimeOffsetSeconds, nextBlockTimestamp, chain, snapshots>>
        /\ task.op = "mine" /\ pending # {} /\ task'.op = "idle"
    BY <1>16 DEF MineBlocksFails, Idle, clockVars, chainVars, snapshotVars
  <2>2. task.stage # "rest" /\ MineIsPrepared'
    BY <2>1 DEF NextIsOrdered, MineIsPrepared
  <2> QED
    BY <2>1, <2>2, <1>2
<1>17. CASE UNCHANGED vars
  <2>1. /\ UNCHANGED <<now, blockTimeOffsetSeconds, nextBlockTimestamp, chain, snapshots, task,
                       pending>>
    BY <1>17 DEF vars, clockVars, chainVars, snapshotVars
  <2>2. MineIsPrepared'
    BY <2>1 DEF NextIsOrdered, MineIsPrepared
  <2> QED
    BY <2>1, <2>2, <1>2
<1> QED
  BY <1>3, <1>4, <1>5, <1>6, <1>7, <1>8, <1>9, <1>10, <1>11, <1>12, <1>13, <1>14, <1>15, <1>16,
     <1>17 DEF Next

\* If blocks may have the same timestamp, or hardhat_mine is never asked for an interval of 0,
\* then for whatever numbers evm_increaseTime is given: a timestamp set for the next block stays
\* possible, blocks mined while the clock is ahead follow the latest in time, and the clock falls
\* behind only by a negative number or by going back to a snapshot taken when it was behind, and
\* catches up with the next block.
THEOREM TimeStaysInOrder ==
    ASSUME IntervalsAreAllowed
    PROVE  Spec => TimeIsInOrder
<1>1. Init => Structure /\ NextIsOrdered
  BY InitStructure, InitInTime
<1>2. (Structure /\ NextIsOrdered) /\ [Next]_vars => (Structure /\ NextIsOrdered)'
  BY StepStructure, StepInTime DEF TimeGoesOn
<1>3. Structure /\ NextIsOrdered => NextTimestampIsPossible
  BY DEF NextIsOrdered
<1>4. Structure /\ NextIsOrdered /\ [Next]_vars =>
        [/\ ClockIsAhead => NewBlocksFollow
         /\ \/ ClockIsAhead' \/ TurnsBack \/ GoesBack
            \/ ~ ClockIsAhead /\ UNCHANGED chain]_vars
  <2>1. ASSUME Structure, Decreases
        PROVE  TurnsBack
    <3>1. PICK increment \in Increments : increment < 0 /\ IncreaseTime(increment)
      BY <2>1 DEF Decreases
    <3>2. increment \in Int /\ blockTimeOffsetSeconds \in Int
      BY <2>1, TimeAssumption DEF Structure, Typed
    <3>3. blockTimeOffsetSeconds' - blockTimeOffsetSeconds = increment
      BY <3>1, <3>2 DEF IncreaseTime
    <3> QED
      BY <3>1, <3>3 DEF TurnsBack
  <2>2. ASSUME Structure, NextIsOrdered, [Next]_vars
        PROVE  TimeGoesOn
    BY <2>2, StepInTime
  <2> QED
    BY <2>1, <2>2 DEF TimeGoesOn, ClockIsKept
<1> QED
  BY <1>1, <1>2, <1>3, <1>4, PTL DEF Spec, TimeIsInOrder

\* Nothing turns the clock back.
TimeIsOrdered == NextIsOrdered /\ ClockIsAhead /\ SnapshotsAreAhead /\ TimestampsIncrease

LEMMA StepOrdered ==
    ASSUME IntervalsAreAllowed, Increments \subseteq Nat, Structure, TimeIsOrdered, [Next]_vars
    PROVE  TimeIsOrdered'
<1>1. TimeGoesOn
  BY StepInTime DEF TimeIsOrdered
<1>2. ~ Decreases /\ ~ GoesBack
  <2>1. \A increment \in Increments : increment \in Nat
    OBVIOUS
  <2>2. ~ Decreases
    BY <2>1 DEF Decreases
  <2>3. ~ GoesBack
    BY DEF GoesBack, TimeIsOrdered, SnapshotsAreAhead
  <2> QED
    BY <2>2, <2>3
<1>3. ClockIsAhead'
  BY <1>1, <1>2 DEF TimeGoesOn, ClockIsKept, TimeIsOrdered
<1>4. TimestampsIncrease'
  <2>1. /\ Len(chain) \in Nat \ {0} /\ Len(chain') \in Nat
        /\ \A i \in 1 .. Len(chain') : i <= Len(chain) => chain'[i] = chain[i]
        /\ NewBlocksFollow
    BY <1>1, ChainFacts DEF Structure, TimeGoesOn, TimeIsOrdered
  <2>2. ASSUME NEW i \in 2 .. Len(chain')
        PROVE  InOrder(chain'[i - 1].timestamp, chain'[i].timestamp)
    <3>1. CASE i <= Len(chain)
      <4>1. i \in 2 .. Len(chain) /\ i \in 1 .. Len(chain') /\ i - 1 \in 1 .. Len(chain')
            /\ i - 1 <= Len(chain)
        BY <3>1, <2>1
      <4>2. chain'[i] = chain[i] /\ chain'[i - 1] = chain[i - 1]
        BY <3>1, <4>1, <2>1
      <4> QED
        BY <4>1, <4>2 DEF TimeIsOrdered, TimestampsIncrease
    <3>2. CASE i \in Len(chain) + 1 .. Len(chain')
      BY <3>2, <2>1 DEF NewBlocksFollow
    <3> QED
      BY <3>1, <3>2, <2>1
  <2> QED
    BY <2>2 DEF TimestampsIncrease, InOrder
<1> QED
  BY <1>1, <1>3, <1>4 DEF TimeGoesOn, TimeIsOrdered

LEMMA TimeStaysOrdered ==
    ASSUME IntervalsAreAllowed, Increments \subseteq Nat
    PROVE  Spec => []TimeIsOrdered
<1>1. Init => Structure /\ TimeIsOrdered
  BY InitStructure, InitInTime DEF TimeIsOrdered
<1>2. (Structure /\ TimeIsOrdered) /\ [Next]_vars => (Structure /\ TimeIsOrdered)'
  BY StepStructure, StepOrdered
<1> QED
  BY <1>1, <1>2, PTL DEF Spec

\* If, besides, evm_increaseTime is never given a negative number, timestamps increase along the
\* chain, whatever mixture of passing and changed time, reservations, reverts and failures came
\* before.
THEOREM TimestampsStayOrdered ==
    ASSUME IntervalsAreAllowed, Increments \subseteq Nat
    PROVE  Spec => []TimestampsIncrease
<1>1. TimeIsOrdered => TimestampsIncrease
  BY DEF TimeIsOrdered
<1> QED
  BY <1>1, TimeStaysOrdered, PTL

\* Under the same conditions the adjusted clock is never behind the latest block, except within
\* hardhat_mine, also after a revert.
THEOREM ClockStaysAhead ==
    ASSUME IntervalsAreAllowed, Increments \subseteq Nat
    PROVE  Spec => []ClockIsAhead
<1>1. TimeIsOrdered => ClockIsAhead
  BY DEF TimeIsOrdered
<1> QED
  BY <1>1, TimeStaysOrdered, PTL

-----------------------------------------------------------------------------
(* Transactions are mined once.                                               *)

\* The transactions saved with a snapshot are in none of the blocks it goes back to.
PoolsAreApart ==
    \A i \in DOMAIN snapshots, p \in poolSnapshots :
        p.id = snapshots[i].id =>
            \A k \in 1 .. snapshots[i].latestBlock.number + 1 :
                p.pending \intersect chain[k].txs = {}

BlocksAreApart ==
    /\ \A k \in 1 .. Len(chain) : pending \intersect chain[k].txs = {}
    /\ \A j, k \in 1 .. Len(chain) : j # k => chain[j].txs \intersect chain[k].txs = {}

Apart == BlocksAreApart /\ PoolsAreApart

LEMMA MinedOnceIsApart == MinedOnce <=> BlocksAreApart
<1>1. \A tx : tx \in Mined <=> \E k \in 1 .. Len(chain) : tx \in chain[k].txs
  BY DEF Mined
<1> QED
  BY <1>1 DEF MinedOnce, BlocksAreApart

LEMMA NotMined ==
    ASSUME NEW tx, tx \notin Mined
    PROVE  \A k \in 1 .. Len(chain) : tx \notin chain[k].txs
BY DEF Mined

\* A transaction that is added, and those that it lets become pending, are in no block.
LEMMA AddedNotMined ==
    ASSUME NEW tx \in Txs, AddTransaction(tx), Apart
    PROVE  \A k \in 1 .. Len(chain) : pending' \intersect chain[k].txs = {}
<1>1. PICK promoted \in SUBSET (Txs \ Mined) : pending' = pending \union {tx} \union promoted
  BY DEF AddTransaction
<1>2. tx \notin Mined
  BY DEF AddTransaction
<1>3. ASSUME NEW k \in 1 .. Len(chain), NEW added \in pending', added \in chain[k].txs
      PROVE  FALSE
  <2>1. CASE added \in pending
    BY <2>1, <1>3 DEF Apart, BlocksAreApart
  <2>2. CASE added \notin pending
    <3>1. added \notin Mined
      BY <2>2, <1>1, <1>2
    <3> QED
      BY <3>1, <1>3, NotMined
  <2> QED
    BY <2>1, <2>2
<1> QED
  BY <1>3

LEMMA GrowthKeepsPoolsApart ==
    ASSUME Structure, PoolsAreApart, ChainGrows, UNCHANGED <<snapshots, poolSnapshots>>
    PROVE  PoolsAreApart'
<1>1. ASSUME NEW i \in DOMAIN snapshots, NEW k \in 1 .. snapshots[i].latestBlock.number + 1
      PROVE  chain'[k] = chain[k]
  <2>1. /\ snapshots[i].latestBlock.number \in 0 .. LatestNumber
        /\ Len(chain) \in Nat /\ LatestNumber = Len(chain) - 1
    BY ChainFacts DEF Structure, SnapshotsAreAncestors, LatestNumber
  <2>2. k \in 1 .. Len(chain)
    BY <2>1
  <2> QED
    BY <2>2 DEF ChainGrows
<1> QED
  BY <1>1 DEF PoolsAreApart

LEMMA MiningKeepsApart ==
    ASSUME Structure, Apart, NEW timestamp \in Nat, NEW pool \in SUBSET Txs,
           MineBlock(timestamp, pool), UNCHANGED <<now, snapshotVars>>,
           \A k \in 1 .. Len(chain) : pool \intersect chain[k].txs = {}
    PROVE  Apart'
<1>1. PICK block : Mines(block, pool)
  BY MineBlockEffect DEF Structure
<1>2. /\ ChainGrows /\ Len(chain') = Len(chain) + 1
      /\ chain'[Len(chain) + 1] = block
  BY <1>1, MinedChainGrows DEF Structure
<1>3. block.txs \subseteq pool /\ pending' \subseteq pool \ block.txs
  BY <1>1 DEF Mines
<1>4. Len(chain) \in Nat
  BY ChainFacts DEF Structure
<1>5. ASSUME NEW k \in 1 .. Len(chain')
      PROVE  /\ k \in 1 .. Len(chain) => chain'[k] = chain[k]
             /\ k \notin 1 .. Len(chain) => k = Len(chain) + 1 /\ chain'[k] = block
  BY <1>2, <1>4 DEF ChainGrows
<1>6. BlocksAreApart'
  BY <1>3, <1>5 DEF Apart, BlocksAreApart
<1>7. PoolsAreApart'
  BY <1>2, GrowthKeepsPoolsApart DEF Apart, snapshotVars
<1> QED
  BY <1>6, <1>7 DEF Apart

LEMMA TakingKeepsPoolsApart ==
    ASSUME Structure, Apart, TakeSnapshot, UNCHANGED chain
    PROVE  PoolsAreApart'
<1> DEFINE n == Len(snapshots)
<1>1. snapshots \in Seq(SnapshotType) /\ n \in Nat /\ DOMAIN snapshots = 1 .. n
  BY SnapshotFacts DEF Structure, Typed
<1> DEFINE snapshot ==
        [id |-> nextSnapshotId,
         date |-> now,
         latestBlock |-> [number |-> LatestNumber, block |-> Latest],
         stateRoot |-> stateRoot,
         blockTimeOffsetSeconds |-> blockTimeOffsetSeconds,
         nextBlockTimestamp |-> nextBlockTimestamp,
         irregularStates |-> irregularStates]
           saved == [id |-> nextSnapshotId, pending |-> pending]
<1>2. snapshots' = Append(snapshots, snapshot) /\ poolSnapshots' = poolSnapshots \union {saved}
  BY DEF TakeSnapshot
<1>3. snapshot \in SnapshotType
  BY ChainFacts DEF Structure, Typed, SnapshotType
<1>4. /\ DOMAIN snapshots' = 1 .. n + 1
      /\ \A i \in 1 .. n : snapshots'[i] = snapshots[i]
      /\ snapshots'[n + 1] = snapshot
  BY <1>1, <1>2, <1>3, AppendProperties, LenProperties
<1>5. /\ snapshot.id = nextSnapshotId /\ saved.id = nextSnapshotId /\ saved.pending = pending
      /\ snapshot.latestBlock.number + 1 = Len(chain)
  BY ChainFacts DEF Structure, LatestNumber
<1> HIDE DEF snapshot, saved
<1>6. /\ \A i \in 1 .. n : snapshots[i].id < nextSnapshotId /\ snapshots[i].id \in Nat
      /\ \A p \in poolSnapshots : p.id < nextSnapshotId /\ p.id \in Nat
      /\ nextSnapshotId \in Nat
  BY <1>1, SnapshotFacts
     DEF Structure, Typed, SnapshotsAreAncestors, IdsAreFresh, SnapshotType
<1>7. ASSUME NEW i \in 1 .. n + 1, NEW p \in poolSnapshots', p.id = snapshots'[i].id,
             NEW k \in 1 .. snapshots'[i].latestBlock.number + 1
      PROVE  p.pending \intersect chain[k].txs = {}
  <2>1. CASE i \in 1 .. n
    <3>1. snapshots'[i] = snapshots[i]
      BY <2>1, <1>4
    <3>2. p # saved
      BY <3>1, <2>1, <1>5, <1>6, <1>7
    <3>3. p \in poolSnapshots
      BY <3>2, <1>2
    <3> QED
      BY <3>1, <3>3, <2>1, <1>1, <1>7 DEF Apart, PoolsAreApart
  <2>2. CASE i = n + 1
    <3>1. p.id = nextSnapshotId /\ k \in 1 .. Len(chain)
      BY <2>2, <1>4, <1>5, <1>7
    <3>2. p = saved
      BY <3>1, <1>2, <1>6
    <3> QED
      BY <3>1, <3>2, <1>5 DEF Apart, BlocksAreApart
  <2> QED
    BY <2>1, <2>2, <1>1
<1> QED
  BY <1>4, <1>7 DEF PoolsAreApart

\* Going back to a snapshot, and forgetting it and those after it.
LEMMA RevertKeepsApart ==
    ASSUME Structure, Apart, NEW id, RevertToSnapshot(id)
    PROVE  Apart'
<1>1. PICK i \in DOMAIN snapshots, saved \in poolSnapshots :
        /\ snapshots[i].id = id /\ saved.id = id
        /\ chain' = SubSeq(chain, 1, snapshots[i].latestBlock.number + 1)
        /\ pending' = saved.pending
        /\ poolSnapshots' = {p \in poolSnapshots : p.id < id}
        /\ snapshots' = SnapshotsBefore(i)
  BY DEF RevertToSnapshot
<1>2. /\ LatestNumber' = snapshots[i].latestBlock.number
      /\ Len(chain') \in Nat
      /\ \A k \in 1 .. Len(chain') : k \in 1 .. Len(chain) /\ chain'[k] = chain[k]
  BY <1>1, RevertedChain DEF Structure
<1>3. Len(chain') = snapshots[i].latestBlock.number + 1
  BY <1>2 DEF LatestNumber
<1>4. BlocksAreApart'
  <2>1. ASSUME NEW k \in 1 .. Len(chain') PROVE pending' \intersect chain'[k].txs = {}
    <3>1. saved.pending \intersect chain[k].txs = {}
      BY <1>1, <1>3 DEF Apart, PoolsAreApart
    <3> QED
      BY <3>1, <1>1, <1>2
  <2>2. ASSUME NEW j \in 1 .. Len(chain'), NEW k \in 1 .. Len(chain'), j # k
        PROVE  chain'[j].txs \intersect chain'[k].txs = {}
    <3>1. chain[j].txs \intersect chain[k].txs = {}
      BY <1>2, <2>2 DEF Apart, BlocksAreApart
    <3> QED
      BY <3>1, <1>2
  <2> QED
    BY <2>1, <2>2 DEF BlocksAreApart
<1>5. /\ DOMAIN snapshots' = 1 .. i - 1
      /\ \A j \in 1 .. i - 1 : j \in DOMAIN snapshots /\ snapshots'[j] = snapshots[j]
  BY <1>1, SnapshotsBeforeFacts DEF Structure
<1>6. ASSUME NEW j \in 1 .. i - 1, NEW k \in 1 .. snapshots[j].latestBlock.number + 1
      PROVE  chain'[k] = chain[k]
  <2>1. /\ snapshots[j].latestBlock.number <= snapshots[i].latestBlock.number
        /\ snapshots[j].latestBlock.number \in Nat /\ snapshots[i].latestBlock.number \in Nat
    BY <1>5, SnapshotFacts DEF Structure, SnapshotsAreAncestors, SnapshotType
  <2>2. k \in 1 .. Len(chain')
    BY <2>1, <1>3
  <2> QED
    BY <2>2, <1>2
<1>7. PoolsAreApart'
  <2>1. ASSUME NEW j \in DOMAIN snapshots', NEW p \in poolSnapshots', p.id = snapshots'[j].id,
               NEW k \in 1 .. snapshots'[j].latestBlock.number + 1
        PROVE  p.pending \intersect chain'[k].txs = {}
    <3>1. j \in 1 .. i - 1 /\ j \in DOMAIN snapshots /\ snapshots'[j] = snapshots[j]
      BY <1>5
    <3>2. p \in poolSnapshots
      BY <1>1
    <3>3. p.pending \intersect chain[k].txs = {}
      BY <2>1, <3>1, <3>2 DEF Apart, PoolsAreApart
    <3>4. chain'[k] = chain[k]
      BY <3>1, <1>6
    <3> QED
      BY <3>3, <3>4
  <2> QED
    BY <2>1 DEF PoolsAreApart
<1> QED
  BY <1>4, <1>7 DEF Apart

LEMMA StepApart ==
    ASSUME Structure, Apart, [Next]_vars
    PROVE  Apart'
<1>1. /\ Typed /\ task \in Task /\ pending \in SUBSET Txs
      /\ Latest.timestamp \in Nat
      /\ \A k \in 1 .. Len(chain) : pending \intersect chain[k].txs = {}
  BY ChainFacts DEF Structure, Typed, Block, Apart, BlocksAreApart
<1>2. CASE \/ Tick \/ MineBlocksFails \/ UNCHANGED vars
           \/ \E timestamp \in 1 .. MaxTime : SetNextBlockTimestamp(timestamp)
           \/ \E increment \in Increments : InTime(increment) /\ IncreaseTime(increment)
           \/ \E state \in States : EditState(state)
           \/ \E state \in OverriddenStates \union {stateRoot} : CallWithBadOverrides(state)
           \/ \E count \in Counts, interval \in Intervals : StartMineBlocks(count, interval)
  <2>1. UNCHANGED <<chain, pending, snapshots, poolSnapshots>>
    BY <1>2 DEF Tick, MineBlocksFails, vars, SetNextBlockTimestamp, IncreaseTime, EditState,
                CallWithBadOverrides, StartMineBlocks, chainVars, snapshotVars
  <2> QED
    BY <2>1 DEF Apart, BlocksAreApart, PoolsAreApart
<1>3. ASSUME NEW timestamp \in 0 .. MaxTime, EvmMine(timestamp)
      PROVE  Apart'
  <2>1. /\ MineBlock(timestamp, pending) /\ UNCHANGED <<now, snapshotVars>>
        /\ timestamp \in Nat
    BY <1>3 DEF EvmMine
  <2> QED
    BY <2>1, <1>1, MiningKeepsApart
<1>4. CASE EvmSnapshot \/ StartPendingRead
  <2>1. TakeSnapshot /\ UNCHANGED <<chain, pending>>
    BY <1>4 DEF EvmSnapshot, StartPendingRead, chainVars
  <2>2. PoolsAreApart'
    BY <2>1, TakingKeepsPoolsApart
  <2> QED
    BY <2>1, <2>2 DEF Apart, BlocksAreApart
<1>5. CASE \/ \E id \in 1 .. MaxSnapshots : EvmRevert(id)
           \/ SendFails \/ EndPendingRead
  BY <1>5, RevertKeepsApart DEF EvmRevert, SendFails, EndPendingRead
<1>6. ASSUME NEW tx \in Txs, SubmitTransaction(tx)
      PROVE  Apart'
  <2>1. AddTransaction(tx) /\ UNCHANGED <<chain, snapshots, poolSnapshots>>
    BY <1>6 DEF SubmitTransaction, chainVars, snapshotVars
  <2>2. \A k \in 1 .. Len(chain) : pending' \intersect chain[k].txs = {}
    BY <2>1, AddedNotMined
  <2> QED
    BY <2>1, <2>2 DEF Apart, BlocksAreApart, PoolsAreApart
<1>7. ASSUME NEW tx \in Txs, MineTransaction(tx)
      PROVE  Apart'
  <2>1. /\ MineBlock(0, {tx}) /\ UNCHANGED <<now, snapshotVars>> /\ {tx} \in SUBSET Txs
        /\ tx \notin Mined
    BY <1>7 DEF MineTransaction
  <2>2. \A k \in 1 .. Len(chain) : {tx} \intersect chain[k].txs = {}
    BY <2>1, NotMined
  <2> QED
    BY <2>1, <2>2, MiningKeepsApart
<1>8. ASSUME NEW tx \in Txs, StartSend(tx)
      PROVE  Apart'
  <2>1. TakeSnapshot /\ UNCHANGED chain /\ AddTransaction(tx)
    BY <1>8 DEF StartSend, chainVars
  <2>2. \A k \in 1 .. Len(chain) : pending' \intersect chain[k].txs = {}
    BY <2>1, AddedNotMined
  <2>3. PoolsAreApart'
    BY <2>1, TakingKeepsPoolsApart
  <2> QED
    BY <2>1, <2>2, <2>3 DEF Apart, BlocksAreApart
<1>9. CASE SendMines \/ MinePendingBlock
  <2>1. MineBlock(0, pending) /\ UNCHANGED <<now, snapshotVars>>
    BY <1>9 DEF SendMines, MinePendingBlock
  <2> QED
    BY <2>1, <1>1, MiningKeepsApart
<1>10. CASE SendEnds
  <2>1. UNCHANGED <<chain, pending, poolSnapshots>>
    BY <1>10 DEF SendEnds, RemoveSnapshot, chainVars
  <2>2. PICK i \in DOMAIN snapshots : snapshots' = SnapshotsBefore(i)
    BY <1>10 DEF SendEnds, RemoveSnapshot
  <2>3. /\ DOMAIN snapshots' = 1 .. i - 1
        /\ \A j \in 1 .. i - 1 : j \in DOMAIN snapshots /\ snapshots'[j] = snapshots[j]
    BY <2>2, <1>1, SnapshotsBeforeFacts
  <2> QED
    BY <2>1, <2>3 DEF Apart, BlocksAreApart, PoolsAreApart
<1>11. CASE MineOneOfBlocks
  <2> DEFINE timestamp == IF task.stage = "first" THEN 0 ELSE Latest.timestamp + task.interval
  <2>1. MineBlock(timestamp, pending) /\ UNCHANGED <<now, snapshotVars>> /\ task.op = "mine"
    BY <1>11 DEF MineOneOfBlocks
  <2>2. task.interval \in Nat
    BY <2>1, <1>1, TaskTypes
  <2>3. timestamp \in Nat
    BY <2>2, <1>1
  <2> HIDE DEF timestamp
  <2> QED
    BY <2>1, <2>3, <1>1, MiningKeepsApart
<1>12. CASE ReserveRest
  <2>1. /\ ChainGrows
        /\ Len(chain') = Len(chain) + task.left - 1
        /\ \A i \in 1 .. task.left - 1 : chain'[Len(chain) + i].txs = {}
        /\ task.left \in Nat \ {0}
    BY <1>12, ReserveEffect DEF Structure
  <2>2. UNCHANGED <<pending, snapshots, poolSnapshots>>
    BY <1>12 DEF ReserveRest, snapshotVars
  <2>3. Len(chain) \in Nat
    BY <1>1, ChainFacts
  <2>4. ASSUME NEW k \in 1 .. Len(chain')
        PROVE  /\ k \in 1 .. Len(chain) => chain'[k] = chain[k]
               /\ k \notin 1 .. Len(chain) => chain'[k].txs = {}
    <3>1. CASE k \in 1 .. Len(chain)
      BY <3>1, <2>1 DEF ChainGrows
    <3>2. CASE k \notin 1 .. Len(chain)
      <4>1. k - Len(chain) \in 1 .. task.left - 1 /\ Len(chain) + (k - Len(chain)) = k
        BY <3>2, <2>1, <2>3
      <4>2. chain'[Len(chain) + (k - Len(chain))].txs = {}
        BY <4>1, <2>1
      <4> QED
        BY <3>2, <4>1, <4>2
    <3> QED
      BY <3>1, <3>2
  <2>5. BlocksAreApart'
    BY <2>2, <2>4 DEF Apart, BlocksAreApart
  <2>6. PoolsAreApart'
    BY <2>1, <2>2, GrowthKeepsPoolsApart DEF Apart
  <2> QED
    BY <2>5, <2>6 DEF Apart
<1> QED
  BY <1>2, <1>3, <1>4, <1>5, <1>6, <1>7, <1>8, <1>9, <1>10, <1>11, <1>12 DEF Next

\* No transaction is in two blocks, and none that is mined is pending: neither after a revert,
\* which brings back the pool of the snapshot, nor after a request that failed halfway.
THEOREM TransactionsAreMinedOnce == Spec => []MinedOnce
<1>1. Init => Structure /\ Apart
  <2>1. ASSUME Init PROVE Apart
    <3>1. PICK timestamp, offset : Created(timestamp, offset)
      BY <2>1 DEF Init
    <3>2. pending = {} /\ snapshots = << >> /\ Len(chain) = 1
      BY <3>1 DEF Created
    <3> QED
      BY <3>2 DEF Apart, BlocksAreApart, PoolsAreApart
  <2> QED
    BY <2>1, InitStructure
<1>2. (Structure /\ Apart) /\ [Next]_vars => (Structure /\ Apart)'
  BY StepStructure, StepApart
<1>3. Structure /\ Apart => MinedOnce
  BY MinedOnceIsApart DEF Apart
<1> QED
  BY <1>1, <1>2, <1>3, PTL DEF Spec

-----------------------------------------------------------------------------
(* The clock after a revert.                                                  *)

LEMMA CeilOfSumBound ==
    ASSUME NEW x \in Int, NEW y \in Int
    PROVE  CeilSeconds(x) + CeilSeconds(y) <= CeilSeconds(x + y) + 1
<1> DEFINE u == CeilSeconds(x)
           v == CeilSeconds(y)
           w == CeilSeconds(x + y)
<1>1. x + y \in Int /\ u \in Int /\ v \in Int /\ w \in Int
  BY CeilBounds
<1>2. /\ TicksPerSecond * u < x + TicksPerSecond
      /\ TicksPerSecond * v < y + TicksPerSecond
      /\ TicksPerSecond * w >= x + y
  BY <1>1, CeilBounds
<1> HIDE DEF u, v, w
<1>3. /\ TicksPerSecond * (u + v) = TicksPerSecond * u + TicksPerSecond * v
      /\ TicksPerSecond * (w + 1) = TicksPerSecond * w + TicksPerSecond * 1
      /\ TicksPerSecond * 1 = TicksPerSecond /\ TicksPerSecond \in Int
      /\ TicksPerSecond * u \in Int /\ TicksPerSecond * v \in Int /\ TicksPerSecond * w \in Int
  BY <1>1, SumOfTicks, TimeAssumption
<1>4. TicksPerSecond * (u + v) < TicksPerSecond * (w + 1) + TicksPerSecond
  BY <1>2, <1>3
<1>5. u + v <= w + 1
  BY <1>1, <1>4, CompareTicks
<1> QED
  BY <1>5 DEF u, v, w

LEMMA RevertClock ==
    ASSUME Structure, NEW i \in DOMAIN snapshots, RevertToSnapshot(snapshots[i].id)
    PROVE  LET before == CeilSeconds(snapshots[i].date) + snapshots[i].blockTimeOffsetSeconds
           IN  CurrentTimestamp + blockTimeOffsetSeconds' \in {before, before + 1}
<1>1. PICK j \in DOMAIN snapshots :
        /\ snapshots[j].id = snapshots[i].id
        /\ blockTimeOffsetSeconds' = RevertedOffset(snapshots[j])
  BY DEF RevertToSnapshot
<1>2. i = j
  <2>1. /\ i \in Nat /\ j \in Nat /\ i >= 1 /\ j >= 1
        /\ snapshots[i].id \in Nat /\ snapshots[j].id \in Nat
    BY SnapshotFacts DEF Structure, SnapshotType
  <2>2. i \notin 1 .. j - 1 /\ j \notin 1 .. i - 1
    BY <2>1, <1>1 DEF Structure, SnapshotsAreAncestors
  <2> QED
    BY <2>1, <2>2
<1> DEFINE date == snapshots[i].date
           offset == snapshots[i].blockTimeOffsetSeconds
<1>3. date \in Nat /\ offset \in Int /\ now \in Nat
  BY SnapshotFacts DEF Structure, SnapshotType, Typed
<1>4. blockTimeOffsetSeconds' = offset + CeilSeconds(date - now)
  BY <1>1, <1>2 DEF RevertedOffset
<1> HIDE DEF date, offset
<1>5. date - now \in Int /\ now + (date - now) = date
  BY <1>3
<1>6. /\ CeilSeconds(date) <= CeilSeconds(now) + CeilSeconds(date - now)
      /\ CeilSeconds(now) + CeilSeconds(date - now) <= CeilSeconds(date) + 1
  BY <1>3, <1>5, CeilOfSum, CeilOfSumBound
<1>7. CeilSeconds(date) \in Int /\ CeilSeconds(now) \in Int /\ CeilSeconds(date - now) \in Int
  BY <1>3, <1>5, CeilBounds
<1>8. CeilSeconds(now) + blockTimeOffsetSeconds'
        \in {CeilSeconds(date) + offset, CeilSeconds(date) + offset + 1}
  BY <1>3, <1>4, <1>6, <1>7
<1> QED
  BY <1>8 DEF CurrentTimestamp, date, offset

\* After a revert the adjusted clock is where it was when the snapshot was taken, or one second
\* ahead, however much time has passed in between and however it was changed.
THEOREM RevertsRestoreClock == Spec => RevertRestoresClock
<1> DEFINE Restores ==
      \A i \in DOMAIN snapshots :
        LET before == CeilSeconds(snapshots[i].date) + snapshots[i].blockTimeOffsetSeconds
        IN  RevertToSnapshot(snapshots[i].id) =>
                CurrentTimestamp + blockTimeOffsetSeconds' \in {before, before + 1}
<1>1. Structure => Restores
  BY RevertClock
<1>2. [][Restores]_vars => RevertRestoresClock
  BY DEF RevertRestoresClock
<1> HIDE DEF Restores
<1> QED
  BY <1>1, <1>2, Structured, PTL

-----------------------------------------------------------------------------
(* The properties that the runs check are made of these.                      *)

\* The snapshots stay those of the chain, and every transaction that of one block, through
\* reverts and requests that fail half way.
THEOREM HistoryStaysKept == Spec => []HistoryIsKept
BY SnapshotsStayAncestors, TransactionsAreMinedOnce, PTL DEF HistoryIsKept

-----------------------------------------------------------------------------
(* The node as module World: the blocks with the states after them, and the   *)
(* snapshots with the history that each of them goes back to.                 *)

HistoryOf(blocks, length, irregular, root) ==
    [i \in 1 .. length |->
        [blocks[i] EXCEPT !.state =
            IF i = length THEN root ELSE Lookup(irregular, i - 1, blocks[i].state)]]

PoolOf(pools, id) == (CHOOSE p \in pools : p.id = id).pending

SavedOf(blocks, pools, snapshot) ==
    [history |-> HistoryOf(blocks, snapshot.latestBlock.number + 1, snapshot.irregularStates,
                           snapshot.stateRoot),
     pending |-> PoolOf(pools, snapshot.id)]

HistoryNow == History(Len(chain), irregularStates, stateRoot)
SavedNow == [i \in DOMAIN snapshots |-> Saved(snapshots[i])]

SavedType == [history : Seq(Block), pending : SUBSET Txs]

PoolsAreUnique == \A p, r \in poolSnapshots : p.id = r.id => p = r

\* What the mapping to World rests on.
Mapped == Structure /\ StatesAreTraced /\ PoolsAreUnique

LEMMA HistoryShape ==
    ASSUME NEW blocks, NEW n \in Nat, NEW irregular \in Maps, NEW root \in States,
           \A i \in 1 .. n : blocks[i] \in Block
    PROVE  /\ HistoryOf(blocks, n, irregular, root) \in Seq(Block)
           /\ Len(HistoryOf(blocks, n, irregular, root)) = n
           /\ DOMAIN HistoryOf(blocks, n, irregular, root) = 1 .. n
           /\ \A i \in 1 .. n :
                HistoryOf(blocks, n, irregular, root)[i]
                  = [timestamp |-> blocks[i].timestamp,
                     state |-> IF i = n THEN root
                               ELSE Lookup(irregular, i - 1, blocks[i].state),
                     txs |-> blocks[i].txs]
<1> DEFINE f == HistoryOf(blocks, n, irregular, root)
<1>1. ASSUME NEW i \in 1 .. n
      PROVE  /\ f[i] = [timestamp |-> blocks[i].timestamp,
                        state |-> IF i = n THEN root
                                  ELSE Lookup(irregular, i - 1, blocks[i].state),
                        txs |-> blocks[i].txs]
             /\ f[i] \in Block
  <2> DEFINE s == IF i = n THEN root ELSE Lookup(irregular, i - 1, blocks[i].state)
  <2>1. blocks[i] \in Block
    OBVIOUS
  <2>2. blocks[i].state \in States
    BY <2>1 DEF Block
  <2>3. s \in States
    BY <2>2, LookupType
  <2>4. f[i] = [blocks[i] EXCEPT !.state = s]
    BY DEF HistoryOf
  <2> HIDE DEF s, f
  <2>5. /\ f[i] = [timestamp |-> blocks[i].timestamp, state |-> s, txs |-> blocks[i].txs]
        /\ f[i] \in Block
    BY <2>1, <2>3, <2>4 DEF Block
  <2> QED
    BY <2>5 DEF s
<1>2. DOMAIN f = 1 .. n /\ f = [i \in 1 .. n |-> f[i]]
  BY DEF HistoryOf
<1> HIDE DEF f
<1>3. f \in [1 .. n -> Block]
  BY <1>1, <1>2
<1>4. f \in Seq(Block) /\ Len(f) = n
  BY <1>3, FunctionIsSequence
<1>5. /\ f \in Seq(Block) /\ Len(f) = n /\ DOMAIN f = 1 .. n
      /\ \A i \in 1 .. n :
           f[i] = [timestamp |-> blocks[i].timestamp,
                   state |-> IF i = n THEN root
                             ELSE Lookup(irregular, i - 1, blocks[i].state),
                   txs |-> blocks[i].txs]
  BY <1>1, <1>2, <1>4
<1> QED
  BY <1>5 DEF f

\* Only the blocks of the history count.
LEMMA SameHistory ==
    ASSUME NEW b1, NEW b2, NEW n \in Nat, NEW irregular, NEW root,
           \A i \in 1 .. n : b1[i] = b2[i]
    PROVE  HistoryOf(b1, n, irregular, root) = HistoryOf(b2, n, irregular, root)
BY DEF HistoryOf

LEMMA PoolChosen ==
    ASSUME NEW pools, NEW p \in pools, \A q, r \in pools : q.id = r.id => q = r
    PROVE  PoolOf(pools, p.id) = p.pending
<1>1. \E q \in pools : q.id = p.id
  OBVIOUS
<1>2. /\ (CHOOSE q \in pools : q.id = p.id) \in pools
      /\ (CHOOSE q \in pools : q.id = p.id).id = p.id
  BY <1>1
<1>3. (CHOOSE q \in pools : q.id = p.id) = p
  BY <1>2
<1> QED
  BY <1>3 DEF PoolOf

LEMMA NowAsBefore ==
    /\ HistoryNow = HistoryOf(chain, Len(chain), irregularStates, stateRoot)
    /\ HistoryNow' = HistoryOf(chain', Len(chain'), irregularStates', stateRoot')
    /\ \A snapshot : Saved(snapshot) = SavedOf(chain, poolSnapshots, snapshot)
    /\ SavedNow = [i \in DOMAIN snapshots |-> SavedOf(chain, poolSnapshots, snapshots[i])]
    /\ SavedNow' = [i \in DOMAIN snapshots' |-> SavedOf(chain', poolSnapshots', snapshots'[i])]
<1>1. HistoryNow = HistoryOf(chain, Len(chain), irregularStates, stateRoot)
  BY DEF HistoryNow, History, HistoryOf, StateAfter
<1>2. HistoryNow' = HistoryOf(chain', Len(chain'), irregularStates', stateRoot')
  BY DEF HistoryNow, History, HistoryOf, StateAfter
<1>3. \A snapshot : Saved(snapshot) = SavedOf(chain, poolSnapshots, snapshot)
  BY DEF Saved, SavedOf, PoolOf, History, HistoryOf, StateAfter
<1>4. SavedNow = [i \in DOMAIN snapshots |-> SavedOf(chain, poolSnapshots, snapshots[i])]
  BY DEF SavedNow, Saved, SavedOf, PoolOf, History, HistoryOf, StateAfter
<1>5. SavedNow' = [i \in DOMAIN snapshots' |-> SavedOf(chain', poolSnapshots', snapshots'[i])]
  BY DEF SavedNow, Saved, SavedOf, PoolOf, History, HistoryOf, StateAfter
<1> QED
  BY <1>1, <1>2, <1>3, <1>4, <1>5

LEMMA PrefixOf ==
    ASSUME NEW S, NEW s \in Seq(S), NEW n \in Nat, n <= Len(s),
           NEW f, f = [i \in 1 .. n |-> s[i]]
    PROVE  f = SubSeq(s, 1, n) /\ f \in Seq(S) /\ Len(f) = n
<1>1. Len(s) \in Nat /\ \A i \in 1 .. Len(s) : s[i] \in S
  BY LenProperties, ElementOfSeq
<1>2. \A i \in 1 .. n : s[i] \in S
  BY <1>1
<1>3. f \in [1 .. n -> S]
  BY <1>2
<1>4. f \in Seq(S) /\ Len(f) = n
  BY <1>3, FunctionIsSequence
<1>5. /\ SubSeq(s, 1, n) \in Seq(S)
      /\ Len(SubSeq(s, 1, n)) = IF 1 <= n THEN n - 1 + 1 ELSE 0
      /\ \A i \in 1 .. n - 1 + 1 : SubSeq(s, 1, n)[i] = s[1 + i - 1]
  BY <1>2, SubSeqProperties
<1>6. n - 1 + 1 = n /\ (IF 1 <= n THEN n - 1 + 1 ELSE 0) = n /\ \A i \in 1 .. n : 1 + i - 1 = i
  OBVIOUS
<1>7. Len(SubSeq(s, 1, n)) = n /\ \A i \in 1 .. n : SubSeq(s, 1, n)[i] = s[i]
  BY <1>5, <1>6
<1>8. \A i \in 1 .. Len(f) : f[i] = SubSeq(s, 1, n)[i]
  BY <1>4, <1>7
<1>9. f = SubSeq(s, 1, n)
  BY <1>4, <1>5, <1>7, <1>8, SeqEqual
<1> QED
  BY <1>4, <1>9

LEMMA LongerSequence ==
    ASSUME NEW S, NEW s \in Seq(S), NEW t \in Seq(S), Len(s) <= Len(t),
           \A i \in 1 .. Len(s) : t[i] = s[i]
    PROVE  SubSeq(t, 1, Len(s)) = s
<1>1. Len(s) \in Nat /\ s \in [1 .. Len(s) -> S]
  BY LenProperties
<1>2. s = [i \in 1 .. Len(s) |-> s[i]]
  BY <1>1
<1>3. s = [i \in 1 .. Len(s) |-> t[i]]
  BY <1>2
<1> QED
  BY <1>1, <1>3, PrefixOf

LEMMA StructuredHistory ==
    ASSUME Structure
    PROVE  /\ HistoryNow \in Seq(Block)
           /\ Len(HistoryNow) = Len(chain) /\ Len(chain) \in Nat \ {0}
           /\ \A i \in 1 .. Len(chain) :
                HistoryNow[i] = [timestamp |-> chain[i].timestamp,
                                 state |-> IF i = Len(chain) THEN stateRoot
                                           ELSE Lookup(irregularStates, i - 1, chain[i].state),
                                 txs |-> chain[i].txs]
<1>1. /\ Len(chain) \in Nat \ {0} /\ irregularStates \in Maps /\ stateRoot \in States
      /\ \A i \in 1 .. Len(chain) : chain[i] \in Block
  BY ChainFacts DEF Structure, Typed
<1> QED
  BY <1>1, HistoryShape, NowAsBefore

LEMMA HistoryFacts ==
    ASSUME Mapped
    PROVE  /\ HistoryNow \in Seq(Block)
           /\ Len(HistoryNow) = Len(chain) /\ Len(chain) \in Nat \ {0}
           /\ \A i \in 1 .. Len(chain) :
                HistoryNow[i] = [timestamp |-> chain[i].timestamp,
                                 state |-> IF i = Len(chain) THEN stateRoot
                                           ELSE Lookup(irregularStates, i - 1, chain[i].state),
                                 txs |-> chain[i].txs]
BY StructuredHistory DEF Mapped

\* The latest block of a snapshot, its pool and its state.
LEMMA SnapshotIsKept ==
    ASSUME Mapped, NEW i \in DOMAIN snapshots
    PROVE  LET n == snapshots[i].latestBlock.number
           IN  /\ snapshots[i] \in SnapshotType
               /\ n \in Nat /\ n + 1 \in 1 .. Len(chain)
               /\ \A k \in 1 .. n + 1 : k \in 1 .. Len(chain) /\ chain[k] \in Block
               /\ \E p \in poolSnapshots : p.id = snapshots[i].id
               /\ Lookup(snapshots[i].irregularStates, n, snapshots[i].stateRoot)
                    = snapshots[i].stateRoot
<1> DEFINE n == snapshots[i].latestBlock.number
<1>1. /\ snapshots[i] \in SnapshotType
      /\ Len(chain) \in Nat \ {0} /\ \A k \in 1 .. Len(chain) : chain[k] \in Block
      /\ LatestNumber = Len(chain) - 1
  BY SnapshotFacts, ChainFacts DEF Mapped, Structure, LatestNumber
<1>2. n \in 0 .. LatestNumber /\ \E p \in poolSnapshots : p.id = snapshots[i].id
  BY DEF Mapped, Structure, SnapshotsAreAncestors
<1>3. snapshots[i].stateRoot
        = Lookup(snapshots[i].irregularStates, n, snapshots[i].latestBlock.block.state)
  BY DEF Mapped, StatesAreTraced
<1>4. Lookup(snapshots[i].irregularStates, n, snapshots[i].stateRoot) = snapshots[i].stateRoot
  BY <1>3 DEF Lookup
<1> HIDE DEF n
<1>5. n \in Nat /\ n + 1 \in 1 .. Len(chain)
      /\ \A k \in 1 .. n + 1 : k \in 1 .. Len(chain) /\ chain[k] \in Block
  BY <1>1, <1>2
<1> QED
  BY <1>1, <1>2, <1>4, <1>5 DEF n

\* A snapshot goes back to the same history as long as the chain keeps its blocks and the pool
\* its snapshot.
LEMMA SavedStays ==
    ASSUME Mapped, NEW i \in DOMAIN snapshots, NEW blocks, NEW pools,
           \A k \in 1 .. snapshots[i].latestBlock.number + 1 : blocks[k] = chain[k],
           \A p, r \in pools : p.id = r.id => p = r,
           \A p \in poolSnapshots : p.id = snapshots[i].id => p \in pools
    PROVE  SavedOf(blocks, pools, snapshots[i]) = SavedOf(chain, poolSnapshots, snapshots[i])
<1> DEFINE n == snapshots[i].latestBlock.number
<1>1. PICK p \in poolSnapshots : p.id = snapshots[i].id
  BY SnapshotIsKept
<1>2. p \in pools
  BY <1>1
<1>3. PoolOf(poolSnapshots, snapshots[i].id) = p.pending
  BY <1>1, PoolChosen DEF Mapped, PoolsAreUnique
<1>4. PoolOf(pools, snapshots[i].id) = p.pending
  BY <1>1, <1>2, PoolChosen
<1>5. n + 1 \in Nat
  BY SnapshotIsKept
<1>6. HistoryOf(blocks, n + 1, snapshots[i].irregularStates, snapshots[i].stateRoot)
        = HistoryOf(chain, n + 1, snapshots[i].irregularStates, snapshots[i].stateRoot)
  <2> DEFINE m == n + 1
             irregular == snapshots[i].irregularStates
             root == snapshots[i].stateRoot
  <2>1. m \in Nat /\ \A k \in 1 .. m : blocks[k] = chain[k]
    BY <1>5
  <2> HIDE DEF m, irregular, root
  <2>2. HistoryOf(blocks, m, irregular, root) = HistoryOf(chain, m, irregular, root)
    BY <2>1, SameHistory
  <2> QED
    BY <2>2 DEF m, irregular, root
<1> QED
  BY <1>3, <1>4, <1>6 DEF SavedOf

LEMMA SavedIsTyped ==
    ASSUME Mapped, NEW i \in DOMAIN snapshots
    PROVE  SavedOf(chain, poolSnapshots, snapshots[i]) \in SavedType
<1> DEFINE n == snapshots[i].latestBlock.number
<1>1. /\ n \in Nat /\ snapshots[i].irregularStates \in Maps /\ snapshots[i].stateRoot \in States
      /\ \A k \in 1 .. n + 1 : chain[k] \in Block
  BY SnapshotIsKept DEF SnapshotType
<1>2. n + 1 \in Nat
  BY <1>1
<1>3. HistoryOf(chain, n + 1, snapshots[i].irregularStates, snapshots[i].stateRoot) \in Seq(Block)
  <2> HIDE DEF n
  <2> QED
    BY <1>1, <1>2, HistoryShape
<1>4. PICK p \in poolSnapshots : p.id = snapshots[i].id
  BY SnapshotIsKept
<1>5. PoolOf(poolSnapshots, snapshots[i].id) = p.pending
  BY <1>4, PoolChosen DEF Mapped, PoolsAreUnique
<1>6. p.pending \in SUBSET Txs
  BY <1>4 DEF Mapped, Structure, Typed
<1> QED
  BY <1>3, <1>5, <1>6 DEF SavedOf, SavedType

LEMMA SavedFacts ==
    ASSUME Mapped
    PROVE  /\ SavedNow \in Seq(SavedType)
           /\ Len(SavedNow) = Len(snapshots) /\ Len(snapshots) \in Nat
           /\ DOMAIN SavedNow = 1 .. Len(snapshots) /\ DOMAIN snapshots = 1 .. Len(snapshots)
           /\ \A i \in 1 .. Len(snapshots) :
                SavedNow[i] = SavedOf(chain, poolSnapshots, snapshots[i])
<1>1. Len(snapshots) \in Nat /\ DOMAIN snapshots = 1 .. Len(snapshots)
  BY SnapshotFacts DEF Mapped, Structure
<1>2. SavedNow = [i \in 1 .. Len(snapshots) |-> SavedOf(chain, poolSnapshots, snapshots[i])]
  BY <1>1, NowAsBefore
<1>3. SavedNow \in [1 .. Len(snapshots) -> SavedType]
  BY <1>1, <1>2, SavedIsTyped
<1>4. SavedNow \in Seq(SavedType) /\ Len(SavedNow) = Len(snapshots)
  BY <1>1, <1>3, FunctionIsSequence
<1> QED
  BY <1>1, <1>2, <1>4

\* The snapshots when the chain keeps the blocks of each of them.
LEMMA SavedKept ==
    ASSUME Mapped, UNCHANGED snapshotVars,
           \A k \in 1 .. Len(chain) : chain'[k] = chain[k]
    PROVE  SavedNow' = SavedNow
<1>1. snapshots' = snapshots /\ poolSnapshots' = poolSnapshots
  BY DEF snapshotVars
<1>2. ASSUME NEW i \in DOMAIN snapshots
      PROVE  SavedOf(chain', poolSnapshots, snapshots[i])
               = SavedOf(chain, poolSnapshots, snapshots[i])
  <2>1. \A k \in 1 .. snapshots[i].latestBlock.number + 1 : chain'[k] = chain[k]
    BY SnapshotIsKept
  <2>2. \A p, r \in poolSnapshots : p.id = r.id => p = r
    BY DEF Mapped, PoolsAreUnique
  <2> QED
    BY <2>1, <2>2, SavedStays
<1> QED
  BY <1>1, <1>2, NowAsBefore

LEMMA GrownHistory ==
    ASSUME Mapped, ChainGrows, irregularStates' = irregularStates, stateRoot' \in States,
           Len(chain') > Len(chain)
    PROVE  /\ HistoryNow' \in Seq(Block)
           /\ Len(HistoryNow') = Len(chain') /\ Len(chain') \in Nat
           /\ SubSeq(HistoryNow', 1, Len(HistoryNow)) = HistoryNow
           /\ \A i \in 1 .. Len(chain') : HistoryNow'[i].txs = chain'[i].txs
           /\ \A i \in Len(chain) + 1 .. Len(chain') :
                HistoryNow'[i].state = IF i = Len(chain') THEN stateRoot' ELSE chain'[i].state
           /\ UNCHANGED snapshotVars => SavedNow' = SavedNow
<1>1. /\ Len(chain) \in Nat \ {0} /\ irregularStates \in Maps /\ stateRoot \in States
      /\ LatestNumber = Len(chain) - 1 /\ Latest = chain[Len(chain)]
  BY ChainFacts DEF Mapped, Structure, Typed, LatestNumber, Latest
<1>2. /\ Len(chain') \in Nat /\ \A i \in 1 .. Len(chain') : chain'[i] \in Block
      /\ \A i \in 1 .. Len(chain) : chain'[i] = chain[i]
  BY LenProperties, ElementOfSeq DEF ChainGrows
<1>3. /\ HistoryNow' \in Seq(Block) /\ Len(HistoryNow') = Len(chain')
      /\ \A i \in 1 .. Len(chain') :
           HistoryNow'[i] = [timestamp |-> chain'[i].timestamp,
                             state |-> IF i = Len(chain') THEN stateRoot'
                                       ELSE Lookup(irregularStates, i - 1, chain'[i].state),
                             txs |-> chain'[i].txs]
  <2>1. HistoryNow' = HistoryOf(chain', Len(chain'), irregularStates, stateRoot')
    BY NowAsBefore
  <2> QED
    BY <2>1, <1>1, <1>2, HistoryShape
<1>4. stateRoot = Lookup(irregularStates, Len(chain) - 1, chain[Len(chain)].state)
  BY <1>1 DEF Mapped, StatesAreTraced, StateIsCurrent
<1>5. ASSUME NEW i \in 1 .. Len(chain)
      PROVE  HistoryNow'[i] = HistoryNow[i]
  <2>1. i # Len(chain') /\ i \in 1 .. Len(chain') /\ chain'[i] = chain[i]
    BY <1>1, <1>2
  <2>2. HistoryNow'[i] = [timestamp |-> chain[i].timestamp,
                          state |-> Lookup(irregularStates, i - 1, chain[i].state),
                          txs |-> chain[i].txs]
    BY <2>1, <1>3
  <2>3. HistoryNow[i] = [timestamp |-> chain[i].timestamp,
                         state |-> IF i = Len(chain) THEN stateRoot
                                   ELSE Lookup(irregularStates, i - 1, chain[i].state),
                         txs |-> chain[i].txs]
    BY HistoryFacts
  <2> QED
    BY <2>2, <2>3, <1>4
<1>6. SubSeq(HistoryNow', 1, Len(HistoryNow)) = HistoryNow
  <2>1. HistoryNow \in Seq(Block) /\ Len(HistoryNow) = Len(chain)
    BY HistoryFacts
  <2>2. Len(HistoryNow) <= Len(HistoryNow')
    BY <2>1, <1>1, <1>2, <1>3
  <2> QED
    BY <2>1, <2>2, <1>3, <1>5, LongerSequence
<1>7. ASSUME NEW i \in Len(chain) + 1 .. Len(chain')
      PROVE  HistoryNow'[i].state = IF i = Len(chain') THEN stateRoot' ELSE chain'[i].state
  <2>1. i \in 1 .. Len(chain') /\ i - 1 \notin 0 .. Len(chain) - 1
    BY <1>1, <1>2
  <2>2. i - 1 \notin DOMAIN irregularStates
    BY <2>1, <1>1 DEF Mapped, StatesAreTraced
  <2>3. Lookup(irregularStates, i - 1, chain'[i].state) = chain'[i].state
    BY <2>2 DEF Lookup
  <2>4. HistoryNow'[i] = [timestamp |-> chain'[i].timestamp,
                          state |-> IF i = Len(chain') THEN stateRoot'
                                    ELSE Lookup(irregularStates, i - 1, chain'[i].state),
                          txs |-> chain'[i].txs]
    BY <2>1, <1>3
  <2>5. HistoryNow'[i].state = IF i = Len(chain') THEN stateRoot'
                               ELSE Lookup(irregularStates, i - 1, chain'[i].state)
    BY <2>4
  <2> QED
    BY <2>3, <2>5
<1>8. UNCHANGED snapshotVars => SavedNow' = SavedNow
  BY <1>2, SavedKept
<1>9. ASSUME NEW i \in 1 .. Len(chain')
      PROVE  HistoryNow'[i].txs = chain'[i].txs
  <2>1. HistoryNow'[i] = [timestamp |-> chain'[i].timestamp,
                          state |-> IF i = Len(chain') THEN stateRoot'
                                    ELSE Lookup(irregularStates, i - 1, chain'[i].state),
                          txs |-> chain'[i].txs]
    BY <1>3
  <2> QED
    BY <2>1
<1> QED
  BY <1>2, <1>3, <1>6, <1>7, <1>8, <1>9

\* World in the terms of the node.
LEMMA PromisedMineFrom ==
    ASSUME NEW pool,
           Len(HistoryNow') > Len(HistoryNow),
           SubSeq(HistoryNow', 1, Len(HistoryNow)) = HistoryNow,
           Len(HistoryNow') = Len(HistoryNow) + 1,
           HistoryNow'[Len(HistoryNow')].state \in States,
           HistoryNow'[Len(HistoryNow')].txs \subseteq pool,
           pending' \subseteq pool \ HistoryNow'[Len(HistoryNow')].txs
    PROVE  Promised!MineFrom(pool)
BY Zenon DEF Promised!MineFrom, Promised!Grows, Promised!Latest, HistoryNow

LEMMA PromisedMineEmptyBlocks ==
    ASSUME Len(HistoryNow') > Len(HistoryNow),
           SubSeq(HistoryNow', 1, Len(HistoryNow)) = HistoryNow,
           \A i \in Len(HistoryNow) + 1 .. Len(HistoryNow') :
              /\ HistoryNow'[i].state = HistoryNow[Len(HistoryNow)].state
              /\ HistoryNow'[i].txs = {},
           pending' = pending, SavedNow' = SavedNow
    PROVE  Promised!MineEmptyBlocks
BY Zenon DEF Promised!MineEmptyBlocks, Promised!Grows, Promised!Latest, HistoryNow, SavedNow

LEMMA PromisedRevert ==
    ASSUME NEW i,
           HistoryNow' = SavedNow[i].history,
           pending' = SavedNow[i].pending,
           SavedNow' = SubSeq(SavedNow, 1, i - 1)
    PROVE  Promised!Revert(i)
BY Zenon DEF Promised!Revert, HistoryNow, SavedNow

LEMMA PromisedForget ==
    ASSUME NEW i,
           HistoryNow' = HistoryNow, pending' = pending, SavedNow' = SubSeq(SavedNow, 1, i - 1)
    PROVE  Promised!Forget(i)
BY Zenon DEF Promised!Forget, HistoryNow, SavedNow

LEMMA PromisedSave ==
    ASSUME SavedNow' = Append(SavedNow, [history |-> HistoryNow, pending |-> pending])
    PROVE  Promised!Save
BY Zenon DEF Promised!Save, HistoryNow, SavedNow

LEMMA PromisedEdit ==
    ASSUME NEW state \in States,
           HistoryNow' = [HistoryNow EXCEPT ![Len(HistoryNow)].state = state],
           pending' = pending, SavedNow' = SavedNow
    PROVE  Promised!Edit
BY Zenon DEF Promised!Edit, HistoryNow, SavedNow

LEMMA PromisedStutter ==
    ASSUME HistoryNow' = HistoryNow, pending' = pending, SavedNow' = SavedNow
    PROVE  UNCHANGED Promised!worldVars
BY Zenon DEF Promised!worldVars, HistoryNow, SavedNow

\* A block on top of the chain is one on top of the history.
LEMMA MiningIsPromised ==
    ASSUME Mapped, NEW timestamp \in Nat, NEW pool \in SUBSET Txs,
           MineBlock(timestamp, pool), UNCHANGED <<now, snapshotVars>>
    PROVE  Promised!MineFrom(pool) /\ SavedNow' = SavedNow
<1>1. Typed /\ TimeIsPositive
  BY DEF Mapped, Structure
<1>2. PICK block : Mines(block, pool)
  BY <1>1, MineBlockEffect
<1>3. /\ ChainGrows /\ Len(chain') = Len(chain) + 1 /\ chain'[Len(chain) + 1] = block
      /\ irregularStates' = irregularStates /\ stateRoot' = block.state
      /\ block \in Block /\ block.txs \subseteq pool /\ pending' \subseteq pool \ block.txs
  BY <1>1, <1>2, MinedChainGrows DEF Mines
<1>4. Len(HistoryNow) = Len(chain) /\ Len(chain) \in Nat \ {0}
  BY HistoryFacts
<1>5. block.state \in States
  BY <1>3 DEF Block
<1>6. /\ Len(HistoryNow') = Len(chain') /\ SubSeq(HistoryNow', 1, Len(HistoryNow)) = HistoryNow
      /\ \A i \in 1 .. Len(chain') : HistoryNow'[i].txs = chain'[i].txs
      /\ \A i \in Len(chain) + 1 .. Len(chain') :
           HistoryNow'[i].state = IF i = Len(chain') THEN stateRoot' ELSE chain'[i].state
      /\ SavedNow' = SavedNow
  <2>1. Len(chain') > Len(chain) /\ stateRoot' \in States
    BY <1>3, <1>4, <1>5
  <2> QED
    BY <2>1, <1>3, GrownHistory
<1> DEFINE n == Len(chain)
<1>7. HistoryNow'[n + 1].txs = block.txs /\ HistoryNow'[n + 1].state = block.state
  <2>1. n + 1 \in 1 .. Len(chain') /\ n + 1 \in Len(chain) + 1 .. Len(chain') /\ n + 1 = Len(chain')
    BY <1>3, <1>4
  <2> QED
    BY <2>1, <1>3, <1>6
<1>8. /\ Len(HistoryNow') > Len(HistoryNow) /\ Len(HistoryNow') = Len(HistoryNow) + 1
      /\ Len(HistoryNow') = n + 1
  BY <1>3, <1>4, <1>6
<1> HIDE DEF n
<1>9. /\ HistoryNow'[Len(HistoryNow')].state \in States
      /\ HistoryNow'[Len(HistoryNow')].txs \subseteq pool
      /\ pending' \subseteq pool \ HistoryNow'[Len(HistoryNow')].txs
  BY <1>3, <1>5, <1>7, <1>8
<1>10. Promised!MineFrom(pool)
  BY <1>6, <1>8, <1>9, PromisedMineFrom
<1> QED
  BY <1>6, <1>10

\* Reserved blocks are empty, and nothing happens in them.
LEMMA ReservingIsPromised ==
    ASSUME Mapped, ReserveRest
    PROVE  Promised!MineEmptyBlocks
<1>1. Typed /\ TimeIsPositive
  BY DEF Mapped, Structure
<1>2. /\ ChainGrows /\ Len(chain') = Len(chain) + task.left - 1
      /\ \A i \in 1 .. task.left - 1 :
           /\ chain'[Len(chain) + i].state = stateRoot
           /\ chain'[Len(chain) + i].txs = {}
      /\ task.left \in Nat \ {0}
  BY <1>1, ReserveEffect
<1>3. /\ task.left > ReserveAbove /\ UNCHANGED snapshotVars /\ pending' = pending
      /\ irregularStates' = irregularStates /\ stateRoot' = stateRoot
  BY DEF ReserveRest
<1>4. Len(HistoryNow) = Len(chain) /\ Len(chain) \in Nat \ {0} /\ stateRoot \in States
  BY <1>1, HistoryFacts DEF Typed
<1>5. Len(chain') > Len(chain)
  BY <1>2, <1>3, <1>4, MiningAssumption
<1>6. /\ Len(HistoryNow') = Len(chain') /\ SubSeq(HistoryNow', 1, Len(HistoryNow)) = HistoryNow
      /\ Len(chain') \in Nat
      /\ \A i \in 1 .. Len(chain') : HistoryNow'[i].txs = chain'[i].txs
      /\ \A i \in Len(chain) + 1 .. Len(chain') :
           HistoryNow'[i].state = IF i = Len(chain') THEN stateRoot' ELSE chain'[i].state
      /\ SavedNow' = SavedNow
  BY <1>2, <1>3, <1>4, <1>5, GrownHistory
<1>7. HistoryNow[Len(chain)].state = stateRoot
  <2> DEFINE n == Len(chain)
  <2>1. HistoryNow[n] = [timestamp |-> chain[n].timestamp,
                         state |-> IF n = Len(chain) THEN stateRoot
                                   ELSE Lookup(irregularStates, n - 1, chain[n].state),
                         txs |-> chain[n].txs]
    BY <1>4, HistoryFacts
  <2>2. HistoryNow[n].state = stateRoot
    BY <2>1
  <2> QED
    BY <2>2
<1>8. ASSUME NEW i \in Len(chain) + 1 .. Len(chain')
      PROVE  HistoryNow'[i].state = stateRoot /\ HistoryNow'[i].txs = {}
  <2>1. i \in 1 .. Len(chain')
    BY <1>4, <1>6
  <2>2. i - Len(chain) \in 1 .. task.left - 1 /\ Len(chain) + (i - Len(chain)) = i
    BY <1>2, <1>4, <1>6
  <2>3. chain'[i].state = stateRoot /\ chain'[i].txs = {}
    BY <2>2, <1>2
  <2> QED
    BY <2>1, <2>3, <1>3, <1>6
<1>9. Len(HistoryNow') > Len(HistoryNow)
  BY <1>4, <1>5, <1>6
<1>10. \A i \in Len(HistoryNow) + 1 .. Len(HistoryNow') :
         /\ HistoryNow'[i].state = HistoryNow[Len(HistoryNow)].state
         /\ HistoryNow'[i].txs = {}
  BY <1>4, <1>6, <1>7, <1>8
<1> QED
  BY <1>3, <1>6, <1>9, <1>10, PromisedMineEmptyBlocks

\* An edit reaches the state after the latest block and no other.
LEMMA EditingIsPromised ==
    ASSUME Mapped, NEW state \in States, EditState(state)
    PROVE  Promised!Edit
<1> DEFINE n == Len(chain)
           edited == With(irregularStates, LatestNumber, state)
<1>1. /\ stateRoot' = state /\ irregularStates' = edited /\ chain' = chain
      /\ pending' = pending /\ UNCHANGED snapshotVars
  BY DEF EditState
<1>2. /\ Typed /\ n \in Nat \ {0} /\ irregularStates \in Maps /\ LatestNumber = n - 1
      /\ LatestNumber \in Nat
      /\ \A i \in 1 .. n : chain[i] \in Block
  BY ChainFacts DEF Mapped, Structure, Typed, LatestNumber
<1>3. edited \in Maps
  BY <1>2, WithType
<1>4. \A k, other : k # LatestNumber => Lookup(edited, k, other) = Lookup(irregularStates, k, other)
  BY DEF With, Lookup
<1> HIDE DEF edited, n
<1>5. HistoryNow' = HistoryOf(chain, n, edited, state)
  <2>1. HistoryNow' = HistoryOf(chain', Len(chain'), irregularStates', stateRoot')
    BY NowAsBefore
  <2> QED
    BY <2>1, <1>1 DEF n
<1>6. /\ HistoryNow' \in Seq(Block) /\ Len(HistoryNow') = n
      /\ \A i \in 1 .. n :
           HistoryNow'[i] = [timestamp |-> chain[i].timestamp,
                             state |-> IF i = n THEN state
                                       ELSE Lookup(edited, i - 1, chain[i].state),
                             txs |-> chain[i].txs]
  BY <1>2, <1>3, <1>5, HistoryShape
<1>7. /\ HistoryNow \in Seq(Block) /\ Len(HistoryNow) = n
      /\ \A i \in 1 .. n :
           HistoryNow[i] = [timestamp |-> chain[i].timestamp,
                            state |-> IF i = n THEN stateRoot
                                      ELSE Lookup(irregularStates, i - 1, chain[i].state),
                            txs |-> chain[i].txs]
  BY HistoryFacts DEF n
<1> DEFINE last == [HistoryNow[n] EXCEPT !.state = state]
           new == [HistoryNow EXCEPT ![n] = last]
<1>8. last = [timestamp |-> chain[n].timestamp, state |-> state, txs |-> chain[n].txs]
  <2>1. n \in 1 .. n
    BY <1>2
  <2>2. HistoryNow[n] = [timestamp |-> chain[n].timestamp,
                         state |-> IF n = n THEN stateRoot
                                   ELSE Lookup(irregularStates, n - 1, chain[n].state),
                         txs |-> chain[n].txs]
    BY <2>1, <1>7
  <2> QED
    BY <2>2
<1>9. last \in Block
  <2>1. chain[n] \in Block
    BY <1>2
  <2> QED
    BY <2>1, <1>8 DEF Block
<1> HIDE DEF last
<1>10. /\ new \in Seq(Block) /\ Len(new) = n
       /\ \A i \in 1 .. n : new[i] = IF i = n THEN last ELSE HistoryNow[i]
  <2>1. n \in 1 .. Len(HistoryNow)
    BY <1>2, <1>7
  <2> QED
    BY <2>1, <1>7, <1>9, ExceptSeq
<1> HIDE DEF new
<1>11. ASSUME NEW i \in 1 .. n
       PROVE  HistoryNow'[i] = new[i]
  <2>1. HistoryNow'[i] = [timestamp |-> chain[i].timestamp,
                          state |-> IF i = n THEN state
                                    ELSE Lookup(edited, i - 1, chain[i].state),
                          txs |-> chain[i].txs]
    BY <1>6
  <2>2. CASE i = n
    BY <2>1, <2>2, <1>8, <1>10
  <2>3. CASE i # n
    <3>1. new[i] = HistoryNow[i]
      BY <2>3, <1>10
    <3>2. HistoryNow[i] = [timestamp |-> chain[i].timestamp,
                           state |-> Lookup(irregularStates, i - 1, chain[i].state),
                           txs |-> chain[i].txs]
      BY <2>3, <1>7
    <3>3. i - 1 # LatestNumber
      BY <2>3, <1>2
    <3>4. Lookup(edited, i - 1, chain[i].state) = Lookup(irregularStates, i - 1, chain[i].state)
      BY <3>3, <1>4
    <3> QED
      BY <2>1, <2>3, <3>1, <3>2, <3>4
  <2> QED
    BY <2>2, <2>3
<1>12. HistoryNow' = new
  BY <1>6, <1>10, <1>11, SeqEqual
<1>13. HistoryNow' = [HistoryNow EXCEPT ![Len(HistoryNow)].state = state]
  BY <1>7, <1>12 DEF new, last
<1>14. SavedNow' = SavedNow
  BY <1>1, SavedKept
<1> QED
  BY <1>1, <1>13, <1>14, PromisedEdit

\* A snapshot keeps what there is when it is taken.
LEMMA TakingIsPromised ==
    ASSUME Mapped, TakeSnapshot, UNCHANGED chainVars
    PROVE  Promised!Save /\ HistoryNow' = HistoryNow /\ PoolsAreUnique'
<1> DEFINE n == Len(snapshots)
           saved == [id |-> nextSnapshotId, pending |-> pending]
           snapshot ==
        [id |-> nextSnapshotId,
         date |-> now,
         latestBlock |-> [number |-> LatestNumber, block |-> Latest],
         stateRoot |-> stateRoot,
         blockTimeOffsetSeconds |-> blockTimeOffsetSeconds,
         nextBlockTimestamp |-> nextBlockTimestamp,
         irregularStates |-> irregularStates]
<1>1. /\ snapshots' = Append(snapshots, snapshot)
      /\ poolSnapshots' = poolSnapshots \union {saved}
      /\ chain' = chain /\ irregularStates' = irregularStates /\ stateRoot' = stateRoot
  BY DEF TakeSnapshot, chainVars
<1>2. snapshot \in SnapshotType
  BY ChainFacts DEF Mapped, Structure, Typed, SnapshotType
<1>3. /\ snapshot.id = nextSnapshotId /\ saved.id = nextSnapshotId /\ saved.pending = pending
      /\ snapshot.latestBlock.number = Len(chain) - 1 /\ Len(chain) \in Nat
      /\ snapshot.irregularStates = irregularStates /\ snapshot.stateRoot = stateRoot
  BY HistoryFacts DEF LatestNumber
<1>4. \A p \in poolSnapshots : p.id \in Nat /\ p.id < nextSnapshotId
  BY DEF Mapped, Structure, Typed, IdsAreFresh
<1>5. nextSnapshotId \in Nat
  BY DEF Mapped, Structure, Typed
<1> HIDE DEF snapshot, saved
<1>6. /\ n \in Nat /\ DOMAIN snapshots = 1 .. n /\ snapshots \in Seq(SnapshotType)
      /\ SavedNow \in Seq(SavedType) /\ Len(SavedNow) = n
      /\ \A i \in 1 .. n : SavedNow[i] = SavedOf(chain, poolSnapshots, snapshots[i])
  BY SavedFacts DEF Mapped, Structure, Typed
<1>7. /\ DOMAIN snapshots' = 1 .. n + 1
      /\ \A i \in 1 .. n : snapshots'[i] = snapshots[i]
      /\ snapshots'[n + 1] = snapshot
  BY <1>1, <1>2, <1>6, AppendProperties, LenProperties
<1>8. \A p, r \in poolSnapshots' : p.id = r.id => p = r
  BY <1>1, <1>3, <1>4, <1>5 DEF Mapped, PoolsAreUnique
<1>9. HistoryNow' = HistoryNow
  BY <1>1, NowAsBefore
<1> DEFINE record == [history |-> HistoryNow, pending |-> pending]
<1>10. SavedOf(chain, poolSnapshots', snapshot) = record
  <2>1. saved \in poolSnapshots'
    BY <1>1
  <2>2. PoolOf(poolSnapshots', saved.id) = saved.pending
    <3> DEFINE pools == poolSnapshots'
    <3>1. saved \in pools /\ \A q, r \in pools : q.id = r.id => q = r
      BY <2>1, <1>8
    <3> HIDE DEF pools
    <3>2. PoolOf(pools, saved.id) = saved.pending
      BY <3>1, PoolChosen
    <3> QED
      BY <3>2 DEF pools
  <2>3. Len(chain) - 1 + 1 = Len(chain)
    BY <1>3
  <2> QED
    BY <2>2, <2>3, <1>3, NowAsBefore DEF SavedOf
<1>11. record \in SavedType
  BY HistoryFacts DEF SavedType, Mapped, Structure, Typed
<1> DEFINE new == Append(SavedNow, record)
<1> HIDE DEF record
<1>12. /\ new \in Seq(SavedType) /\ Len(new) = n + 1
       /\ \A i \in 1 .. n : new[i] = SavedNow[i]
       /\ new[n + 1] = record
  BY <1>6, <1>11, AppendProperties
<1> HIDE DEF new
<1>13. SavedNow' = [i \in 1 .. n + 1 |-> SavedOf(chain, poolSnapshots', snapshots'[i])]
  BY <1>1, <1>7, NowAsBefore
<1>14. ASSUME NEW i \in 1 .. n + 1
       PROVE  SavedOf(chain, poolSnapshots', snapshots'[i]) = new[i]
  <2>1. CASE i = n + 1
    BY <2>1, <1>7, <1>10, <1>12
  <2>2. CASE i # n + 1
    <3>1. i \in 1 .. n /\ i \in DOMAIN snapshots
      BY <2>2, <1>6
    <3>2. \A p \in poolSnapshots : p.id = snapshots[i].id => p \in poolSnapshots'
      BY <1>1
    <3>3. SavedOf(chain, poolSnapshots', snapshots[i]) = SavedOf(chain, poolSnapshots, snapshots[i])
      BY <3>1, <3>2, <1>8, SavedStays
    <3> QED
      BY <3>1, <3>3, <1>6, <1>7, <1>12
  <2> QED
    BY <2>1, <2>2
<1>15. SavedNow' = [i \in 1 .. n + 1 |-> new[i]]
  BY <1>13, <1>14
<1>16. new = [i \in 1 .. n + 1 |-> new[i]]
  BY <1>6, <1>12, LenProperties
<1>17. SavedNow' = Append(SavedNow, [history |-> HistoryNow, pending |-> pending])
  BY <1>15, <1>16 DEF new, record
<1>18. Promised!Save
  BY <1>17, PromisedSave
<1> QED
  BY <1>8, <1>9, <1>18 DEF PoolsAreUnique

\* Forgetting a snapshot, or going back to it, leaves those before it as they are.
LEMMA SavedBefore ==
    ASSUME Mapped, NEW i \in DOMAIN snapshots, snapshots' = SnapshotsBefore(i),
           \A j \in 1 .. i - 1 :
              SavedOf(chain', poolSnapshots', snapshots[j])
                = SavedOf(chain, poolSnapshots, snapshots[j])
    PROVE  SavedNow' = SubSeq(SavedNow, 1, i - 1)
<1>1. Typed
  BY DEF Mapped, Structure
<1>2. /\ DOMAIN snapshots' = 1 .. i - 1
      /\ \A j \in 1 .. i - 1 : j \in DOMAIN snapshots /\ snapshots'[j] = snapshots[j]
  BY <1>1, SnapshotsBeforeFacts
<1>3. /\ SavedNow \in Seq(SavedType) /\ Len(SavedNow) = Len(snapshots)
      /\ Len(snapshots) \in Nat /\ i \in 1 .. Len(snapshots)
      /\ \A j \in 1 .. Len(snapshots) :
           SavedNow[j] = SavedOf(chain, poolSnapshots, snapshots[j])
  BY SavedFacts
<1>4. i - 1 \in Nat /\ i - 1 <= Len(SavedNow)
  BY <1>3
<1>5. SavedNow' = [j \in 1 .. i - 1 |-> SavedOf(chain', poolSnapshots', snapshots'[j])]
  BY <1>2, NowAsBefore
<1>6. ASSUME NEW j \in 1 .. i - 1
      PROVE  SavedOf(chain', poolSnapshots', snapshots'[j]) = SavedNow[j]
  <2>1. j \in 1 .. Len(snapshots) /\ snapshots'[j] = snapshots[j]
    BY <1>2, <1>3
  <2> QED
    BY <2>1, <1>3
<1>7. SavedNow' = [j \in 1 .. i - 1 |-> SavedNow[j]]
  BY <1>5, <1>6
<1> DEFINE m == i - 1
<1>8. m \in Nat /\ m <= Len(SavedNow) /\ SavedNow' = [j \in 1 .. m |-> SavedNow[j]]
  BY <1>4, <1>7
<1> HIDE DEF m
<1>9. SavedNow' = SubSeq(SavedNow, 1, m)
  BY <1>3, <1>8, PrefixOf
<1> QED
  BY <1>9 DEF m

LEMMA ForgettingIsPromised ==
    ASSUME Mapped, NEW id, RemoveSnapshot(id), UNCHANGED <<chainVars, pending>>
    PROVE  (\E i \in DOMAIN SavedNow : Promised!Forget(i)) /\ PoolsAreUnique'
<1>1. PICK i \in DOMAIN snapshots : snapshots' = SnapshotsBefore(i)
  BY DEF RemoveSnapshot
<1>2. /\ poolSnapshots' = poolSnapshots /\ pending' = pending
      /\ chain' = chain /\ irregularStates' = irregularStates /\ stateRoot' = stateRoot
  BY DEF RemoveSnapshot, chainVars
<1>3. HistoryNow' = HistoryNow
  BY <1>2, NowAsBefore
<1>4. SavedNow' = SubSeq(SavedNow, 1, i - 1)
  BY <1>1, <1>2, SavedBefore
<1>5. Promised!Forget(i)
  BY <1>2, <1>3, <1>4, PromisedForget
<1>6. i \in DOMAIN SavedNow
  BY SavedFacts
<1> QED
  BY <1>2, <1>5, <1>6 DEF PoolsAreUnique, Mapped

LEMMA RevertingIsPromised ==
    ASSUME Mapped, NEW id, RevertToSnapshot(id)
    PROVE  (\E i \in DOMAIN SavedNow : Promised!Revert(i)) /\ PoolsAreUnique'
<1>1. PICK i \in DOMAIN snapshots, saved \in poolSnapshots :
        /\ snapshots[i].id = id /\ saved.id = id
        /\ chain' = SubSeq(chain, 1, snapshots[i].latestBlock.number + 1)
        /\ irregularStates' = snapshots[i].irregularStates
        /\ stateRoot' = Lookup(snapshots[i].irregularStates, snapshots[i].latestBlock.number,
                               snapshots[i].stateRoot)
        /\ pending' = saved.pending
        /\ poolSnapshots' = {p \in poolSnapshots : p.id < id}
        /\ snapshots' = SnapshotsBefore(i)
  BY DEF RevertToSnapshot
<1> DEFINE n == snapshots[i].latestBlock.number
<1>2. /\ LatestNumber' = n /\ Len(chain') \in Nat
      /\ \A k \in 1 .. Len(chain') : chain'[k] = chain[k]
  BY <1>1, RevertedChain DEF Mapped, Structure
<1>3. /\ snapshots[i] \in SnapshotType /\ n \in Nat
      /\ Lookup(snapshots[i].irregularStates, n, snapshots[i].stateRoot) = snapshots[i].stateRoot
  BY SnapshotIsKept
<1>4. Len(chain') = n + 1
  BY <1>2, <1>3 DEF LatestNumber
<1>5. PoolOf(poolSnapshots, snapshots[i].id) = saved.pending
  BY <1>1, PoolChosen DEF Mapped, PoolsAreUnique
<1>6. SavedOf(chain, poolSnapshots, snapshots[i]) = SavedNow[i] /\ i \in DOMAIN SavedNow
  BY SavedFacts
<1>7. HistoryNow' = SavedNow[i].history
  <2>1. HistoryNow' = HistoryOf(chain', n + 1, snapshots[i].irregularStates,
                                snapshots[i].stateRoot)
    BY <1>1, <1>3, <1>4, NowAsBefore
  <2>2. HistoryOf(chain', n + 1, snapshots[i].irregularStates, snapshots[i].stateRoot)
          = HistoryOf(chain, n + 1, snapshots[i].irregularStates, snapshots[i].stateRoot)
    <3> DEFINE m == n + 1
    <3>1. m \in Nat /\ \A k \in 1 .. m : chain'[k] = chain[k]
      BY <1>2, <1>3, <1>4
    <3> HIDE DEF m
    <3>2. HistoryOf(chain', m, snapshots[i].irregularStates, snapshots[i].stateRoot)
            = HistoryOf(chain, m, snapshots[i].irregularStates, snapshots[i].stateRoot)
      BY <3>1, SameHistory
    <3> QED
      BY <3>2 DEF m
  <2> QED
    BY <2>1, <2>2, <1>6 DEF SavedOf
<1>8. pending' = SavedNow[i].pending
  BY <1>1, <1>5, <1>6 DEF SavedOf
<1>9. \A p, r \in poolSnapshots' : p.id = r.id => p = r
  BY <1>1 DEF Mapped, PoolsAreUnique
<1>10. ASSUME NEW j \in 1 .. i - 1
       PROVE  SavedOf(chain', poolSnapshots', snapshots[j])
                = SavedOf(chain, poolSnapshots, snapshots[j])
  <2>1. j \in DOMAIN snapshots /\ i \in Nat
    BY SavedFacts
  <2>2. /\ snapshots[j].id < snapshots[i].id
        /\ snapshots[j].latestBlock.number <= n
    BY <2>1 DEF Mapped, Structure, SnapshotsAreAncestors
  <2>3. snapshots[j].latestBlock.number \in Nat
    BY <2>1, SnapshotIsKept
  <2>4. \A k \in 1 .. snapshots[j].latestBlock.number + 1 : chain'[k] = chain[k]
    <3>1. 1 .. snapshots[j].latestBlock.number + 1 \subseteq 1 .. Len(chain')
      <4> HIDE DEF n
      <4> QED
        BY <2>2, <2>3, <1>3, <1>4
    <3> QED
      BY <3>1, <1>2
  <2>5. \A p \in poolSnapshots : p.id = snapshots[j].id => p \in poolSnapshots'
    BY <2>2, <1>1
  <2> QED
    BY <2>1, <2>4, <2>5, <1>9, SavedStays
<1>11. SavedNow' = SubSeq(SavedNow, 1, i - 1)
  BY <1>1, <1>10, SavedBefore
<1>12. Promised!Revert(i)
  BY <1>7, <1>8, <1>11, PromisedRevert
<1> QED
  BY <1>6, <1>9, <1>12 DEF PoolsAreUnique

LEMMA PromisedInit ==
    ASSUME Init
    PROVE  Promised!Init
<1>1. PICK timestamp, offset : Created(timestamp, offset)
  BY DEF Init
<1>2. PICK state \in States :
        chain = << [timestamp |-> timestamp, state |-> state, txs |-> {}] >> /\ stateRoot = state
  BY <1>1 DEF Created
<1>3. pending = {} /\ snapshots = << >>
  BY <1>1 DEF Created
<1>4. SavedNow = << >>
  BY <1>3 DEF SavedNow
<1>5. Len(chain) = 1 /\ chain[1] = [timestamp |-> timestamp, state |-> state, txs |-> {}]
  BY <1>2
<1>6. Structure
  BY InitStructure
<1> DEFINE n == Len(chain)
<1>7. /\ Len(HistoryNow) = n
      /\ HistoryNow[n] = [timestamp |-> chain[n].timestamp,
                          state |-> IF n = Len(chain) THEN stateRoot
                                    ELSE Lookup(irregularStates, n - 1, chain[n].state),
                          txs |-> chain[n].txs]
  <2>1. n \in 1 .. Len(chain)
    BY <1>5
  <2> QED
    BY <2>1, <1>6, StructuredHistory
<1>8. HistoryNow[n].state = stateRoot /\ HistoryNow[n].txs = chain[n].txs
  BY <1>7
<1>9. /\ Len(HistoryNow) = 1
      /\ HistoryNow[Len(HistoryNow)].state \in States
      /\ HistoryNow[Len(HistoryNow)].txs = {}
  BY <1>2, <1>5, <1>7, <1>8
<1> QED
  BY <1>3, <1>4, <1>9, Zenon DEF Promised!Init, Promised!Latest, HistoryNow, SavedNow

\* Submitting and mining in the terms of World.
LEMMA PromisedSteps ==
    /\ \A pool : (Promised!MineFrom(pool) /\ pool = pending /\ SavedNow' = SavedNow)
                   => Promised!Mine
    /\ \A tx : (Promised!MineFrom({tx}) /\ pending = {} /\ SavedNow' = SavedNow)
                   => Promised!SubmitAndMine(tx)
    /\ \A txs : (HistoryNow' = HistoryNow /\ SavedNow' = SavedNow
                   /\ pending' = pending \union txs) => Promised!Submit(txs)
    /\ \A txs : (Promised!Save /\ HistoryNow' = HistoryNow
                   /\ pending' = pending \union txs) => Promised!SnapshotAndSubmit(txs)
    /\ (Promised!Save /\ HistoryNow' = HistoryNow /\ pending' = pending) => Promised!Snapshot
<1>1. ASSUME NEW pool, Promised!MineFrom(pool), pool = pending, SavedNow' = SavedNow
      PROVE  Promised!Mine
  <2>1. Promised!MineFrom(pending)
    BY <1>1, Zenon
  <2> QED
    BY <2>1, <1>1, Zenon DEF Promised!Mine, SavedNow
<1>2. ASSUME NEW tx, Promised!MineFrom({tx}), pending = {}, SavedNow' = SavedNow
      PROVE  Promised!SubmitAndMine(tx)
  <2>1. {tx} = pending \union {tx}
    BY <1>2
  <2>2. Promised!MineFrom(pending \union {tx})
    BY <2>1, <1>2, Zenon
  <2> QED
    BY <2>2, <1>2, Zenon DEF Promised!SubmitAndMine, SavedNow
<1>3. ASSUME NEW txs, HistoryNow' = HistoryNow, SavedNow' = SavedNow,
             pending' = pending \union txs
      PROVE  Promised!Submit(txs)
  BY <1>3, Zenon DEF Promised!Submit, HistoryNow, SavedNow
<1>4. ASSUME NEW txs, Promised!Save, HistoryNow' = HistoryNow, pending' = pending \union txs
      PROVE  Promised!SnapshotAndSubmit(txs)
  BY <1>4, Zenon DEF Promised!SnapshotAndSubmit, HistoryNow
<1>5. ASSUME Promised!Save, HistoryNow' = HistoryNow, pending' = pending
      PROVE  Promised!Snapshot
  BY <1>5, Zenon DEF Promised!Snapshot, HistoryNow
<1> QED
  BY <1>1, <1>2, <1>3, <1>4, <1>5, Zenon

\* A transaction comes with those that had to wait for it.
LEMMA AddedTogether ==
    ASSUME NEW tx \in Txs, AddTransaction(tx)
    PROVE  \E txs \in SUBSET Txs : pending' = pending \union txs
<1>1. PICK promoted \in SUBSET (Txs \ Mined) : pending' = pending \union {tx} \union promoted
  BY DEF AddTransaction
<1>2. {tx} \union promoted \in SUBSET Txs /\ pending' = pending \union ({tx} \union promoted)
  BY <1>1
<1> QED
  BY <1>2

\* A step that leaves the chain, its states and the snapshots alone is not seen.
LEMMA UnseenStep ==
    ASSUME UNCHANGED <<chain, irregularStates, stateRoot, snapshots, poolSnapshots>>
    PROVE  HistoryNow' = HistoryNow /\ SavedNow' = SavedNow
BY NowAsBefore

LEMMA StepPromised ==
    ASSUME OverriddenStates = {}, Mapped, [Next]_vars
    PROVE  [Promised!Next]_(Promised!worldVars) /\ PoolsAreUnique'
<1>1. /\ task \in Task /\ pending \in SUBSET Txs /\ Latest.timestamp \in Nat
      /\ PoolsAreUnique
  BY ChainFacts DEF Mapped, Structure, Typed, Block
<1>2. CASE \/ Tick \/ MineBlocksFails \/ UNCHANGED vars
           \/ \E timestamp \in 1 .. MaxTime : SetNextBlockTimestamp(timestamp)
           \/ \E increment \in Increments : InTime(increment) /\ IncreaseTime(increment)
           \/ \E state \in OverriddenStates \union {stateRoot} : CallWithBadOverrides(state)
           \/ \E count \in Counts, interval \in Intervals : StartMineBlocks(count, interval)
  <2>1. UNCHANGED <<chain, irregularStates, stateRoot, pending, snapshots, poolSnapshots>>
    BY <1>2 DEF Tick, MineBlocksFails, vars, SetNextBlockTimestamp, IncreaseTime,
                CallWithBadOverrides, StartMineBlocks, chainVars, snapshotVars
  <2>2. HistoryNow' = HistoryNow /\ SavedNow' = SavedNow /\ pending' = pending
    BY <2>1, UnseenStep
  <2>3. UNCHANGED Promised!worldVars
    BY <2>2, PromisedStutter
  <2>4. PoolsAreUnique'
    BY <2>1, <1>1 DEF PoolsAreUnique
  <2> QED
    BY <2>3, <2>4
<1>3. ASSUME NEW timestamp \in 0 .. MaxTime, EvmMine(timestamp)
      PROVE  Promised!Next /\ PoolsAreUnique'
  <2>1. MineBlock(timestamp, pending) /\ UNCHANGED <<now, snapshotVars>> /\ timestamp \in Nat
    BY <1>3 DEF EvmMine
  <2>2. Promised!MineFrom(pending) /\ SavedNow' = SavedNow
    BY <2>1, <1>1, MiningIsPromised
  <2>3. Promised!Mine
    BY <2>2, PromisedSteps, Zenon
  <2>4. PoolsAreUnique'
    BY <2>1, <1>1 DEF PoolsAreUnique, snapshotVars
  <2> QED
    BY <2>3, <2>4, Zenon DEF Promised!Next
<1>4. ASSUME NEW state \in States, EditState(state)
      PROVE  Promised!Next /\ PoolsAreUnique'
  <2>1. Promised!Edit
    BY <1>4, EditingIsPromised
  <2>2. PoolsAreUnique'
    BY <1>4, <1>1 DEF EditState, PoolsAreUnique, snapshotVars
  <2> QED
    BY <2>1, <2>2, Zenon DEF Promised!Next
<1>5. CASE EvmSnapshot \/ StartPendingRead
  <2>1. TakeSnapshot /\ UNCHANGED chainVars /\ pending' = pending
    BY <1>5 DEF EvmSnapshot, StartPendingRead
  <2>2. Promised!Save /\ HistoryNow' = HistoryNow /\ PoolsAreUnique'
    BY <2>1, TakingIsPromised
  <2>3. Promised!Snapshot
    BY <2>1, <2>2, PromisedSteps, Zenon
  <2> QED
    BY <2>2, <2>3, Zenon DEF Promised!Next
<1>6. CASE \/ \E id \in 1 .. MaxSnapshots : EvmRevert(id)
           \/ SendFails \/ EndPendingRead
  <2>1. PICK id : RevertToSnapshot(id)
    BY <1>6 DEF EvmRevert, SendFails, EndPendingRead
  <2>2. (\E i \in DOMAIN SavedNow : Promised!Revert(i)) /\ PoolsAreUnique'
    BY <2>1, RevertingIsPromised
  <2> QED
    BY <2>2, Zenon DEF Promised!Next, SavedNow
<1>7. ASSUME NEW tx \in Txs, SubmitTransaction(tx)
      PROVE  Promised!Next /\ PoolsAreUnique'
  <2>1. /\ AddTransaction(tx)
        /\ UNCHANGED <<chain, irregularStates, stateRoot, snapshots, poolSnapshots>>
    BY <1>7 DEF SubmitTransaction, chainVars, snapshotVars
  <2>2. PICK txs \in SUBSET Txs : pending' = pending \union txs
    BY <2>1, AddedTogether
  <2>3. HistoryNow' = HistoryNow /\ SavedNow' = SavedNow
    BY <2>1, UnseenStep
  <2>4. Promised!Submit(txs)
    BY <2>2, <2>3, PromisedSteps, Zenon
  <2>5. PoolsAreUnique'
    BY <2>1, <1>1 DEF PoolsAreUnique
  <2> QED
    BY <2>4, <2>5, Zenon DEF Promised!Next
<1>8. ASSUME NEW tx \in Txs, MineTransaction(tx)
      PROVE  Promised!Next /\ PoolsAreUnique'
  <2>1. /\ MineBlock(0, {tx}) /\ UNCHANGED <<now, snapshotVars>> /\ {tx} \in SUBSET Txs
        /\ 0 \in Nat /\ pending = {}
    BY <1>8 DEF MineTransaction
  <2>2. Promised!MineFrom({tx}) /\ SavedNow' = SavedNow
    BY <2>1, MiningIsPromised
  <2>3. Promised!SubmitAndMine(tx)
    BY <2>1, <2>2, PromisedSteps, Zenon
  <2>4. PoolsAreUnique'
    BY <2>1, <1>1 DEF PoolsAreUnique, snapshotVars
  <2> QED
    BY <2>3, <2>4, Zenon DEF Promised!Next
<1>9. ASSUME NEW tx \in Txs, StartSend(tx)
      PROVE  Promised!Next /\ PoolsAreUnique'
  <2>1. TakeSnapshot /\ UNCHANGED chainVars /\ AddTransaction(tx)
    BY <1>9 DEF StartSend
  <2>2. PICK txs \in SUBSET Txs : pending' = pending \union txs
    BY <2>1, AddedTogether
  <2>3. Promised!Save /\ HistoryNow' = HistoryNow /\ PoolsAreUnique'
    BY <2>1, TakingIsPromised
  <2>4. Promised!SnapshotAndSubmit(txs)
    BY <2>2, <2>3, PromisedSteps, Zenon
  <2> QED
    BY <2>3, <2>4, Zenon DEF Promised!Next
<1>10. CASE SendMines \/ MinePendingBlock
  <2>1. MineBlock(0, pending) /\ UNCHANGED <<now, snapshotVars>> /\ 0 \in Nat
    BY <1>10 DEF SendMines, MinePendingBlock
  <2>2. Promised!MineFrom(pending) /\ SavedNow' = SavedNow
    BY <2>1, <1>1, MiningIsPromised
  <2>3. Promised!Mine
    BY <2>2, PromisedSteps, Zenon
  <2>4. PoolsAreUnique'
    BY <2>1, <1>1 DEF PoolsAreUnique, snapshotVars
  <2> QED
    BY <2>3, <2>4, Zenon DEF Promised!Next
<1>11. CASE SendEnds
  <2>1. RemoveSnapshot(task.id) /\ UNCHANGED <<chainVars, pending>>
    BY <1>11 DEF SendEnds
  <2>2. (\E i \in DOMAIN SavedNow : Promised!Forget(i)) /\ PoolsAreUnique'
    BY <2>1, ForgettingIsPromised
  <2> QED
    BY <2>2, Zenon DEF Promised!Next, SavedNow
<1>12. CASE MineOneOfBlocks
  <2> DEFINE timestamp == IF task.stage = "first" THEN 0 ELSE Latest.timestamp + task.interval
  <2>1. MineBlock(timestamp, pending) /\ UNCHANGED <<now, snapshotVars>> /\ task.op = "mine"
    BY <1>12 DEF MineOneOfBlocks
  <2>2. task.interval \in Nat
    BY <2>1, <1>1, TaskTypes
  <2>3. timestamp \in Nat
    BY <2>2, <1>1
  <2> HIDE DEF timestamp
  <2>4. Promised!MineFrom(pending) /\ SavedNow' = SavedNow
    BY <2>1, <2>3, <1>1, MiningIsPromised
  <2>5. Promised!Mine
    BY <2>4, PromisedSteps, Zenon
  <2>6. PoolsAreUnique'
    BY <2>1, <1>1 DEF PoolsAreUnique, snapshotVars
  <2> QED
    BY <2>5, <2>6, Zenon DEF Promised!Next
<1>13. CASE ReserveRest
  <2>1. Promised!MineEmptyBlocks
    BY <1>13, ReservingIsPromised
  <2>2. PoolsAreUnique'
    BY <1>13, <1>1 DEF ReserveRest, PoolsAreUnique, snapshotVars
  <2> QED
    BY <2>1, <2>2, Zenon DEF Promised!Next
<1> QED
  BY <1>2, <1>3, <1>4, <1>5, <1>6, <1>7, <1>8, <1>9, <1>10, <1>11, <1>12, <1>13 DEF Next

\* The node keeps what World promises: blocks that stay, states that only edits at the end
\* change, and reverts that bring back the blocks, states and pending transactions of their
\* snapshot, as long as no call stops within its overrides.
THEOREM NodeReadsAsAWorld ==
    ASSUME OverriddenStates = {}
    PROVE  Spec => ImplementsWorld
<1>1. Init => Mapped /\ Promised!Init
  <2>1. Init => PoolsAreUnique
    BY DEF Init, Created, PoolsAreUnique
  <2> QED
    BY <2>1, InitStructure, InitTraced, PromisedInit DEF Mapped
<1>2. Mapped /\ [Next]_vars => Mapped' /\ [Promised!Next]_(Promised!worldVars)
  <2> SUFFICES ASSUME Mapped, [Next]_vars
               PROVE  Mapped' /\ [Promised!Next]_(Promised!worldVars)
    OBVIOUS
  <2>1. Structure' /\ StatesAreTraced'
    BY StepStructure, StepTraced DEF Mapped
  <2>2. [Promised!Next]_(Promised!worldVars) /\ PoolsAreUnique'
    BY <2>1, StepPromised
  <2> QED
    BY <2>1, <2>2 DEF Mapped
<1> QED
  BY <1>1, <1>2, PTL DEF Spec, ImplementsWorld, Promised!Spec

=============================================================================
