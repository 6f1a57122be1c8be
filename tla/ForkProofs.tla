----------------------------- MODULE ForkProofs ------------------------------
(***************************************************************************)
(* What TLAPS proves of modules ForkBlockchain and ForkStateManager: that  *)
(* a forked node reads as one chain and as one state, for remote chains,   *)
(* forks and local chains of any length, any accounts and slots, and any   *)
(* number of roots, checkpoints and changes.                               *)
(***************************************************************************)
EXTENDS ForkBlockchain, ForkStateManager, HardhatBlockchainProofs, FiniteSetTheorems

(* The chain: with everything up to the fork fetched, the maps of a fork are  *)
(* those of a chain without one, on which each of its operations does what    *)
(* HardhatBlockchain's does.                                                  *)

(* The maps as they would be if everything up to the fork had been fetched.   *)

BeforeFork == {RemoteBlocks[n] : n \in 0 .. ForkBlockNumber}

RemoteTotals ==
    {[block |-> RemoteBlocks[n], td |-> RemoteTotalDifficulty[n]] : n \in 0 .. ForkBlockNumber}

TransactionsOf(blocks) == UNION {{[tx |-> tx, block |-> b] : tx \in b.txs} : b \in blocks}

Completed(d) ==
    [blocksByNumber       |-> d.blocksByNumber \union BeforeFork,
     blocksByHash         |-> d.blocksByHash \union BeforeFork,
     blocksByTransactions |-> d.blocksByTransactions \union TransactionsOf(BeforeFork),
     transactionReceipts  |-> d.transactionReceipts \union TxsOf(BeforeFork),
     totalDifficulty      |-> d.totalDifficulty \union RemoteTotals,
     blockReservations    |-> d.blockReservations]

(* The inductive invariant: completed, the maps are those of a chain; local   *)
(* blocks stand on a fork block that has been fetched; and what is known of   *)
(* transactions is what the blocks have.                                      *)

StandsOnFork(d, len) ==
    /\ len > ForkBlockNumber
    /\ len > ForkBlockNumber + 1 => RemoteBlocks[ForkBlockNumber] \in d.blocksByNumber
    /\ \A b \in d.blocksByNumber : \E e \in d.totalDifficulty : e.block = b

KnowsTransactions(d, known) ==
    /\ \A b \in d.blocksByNumber : b.txs \subseteq known
    /\ known \subseteq TxsOf(Completed(d).blocksByNumber)

ForkInv ==
    /\ data \in BlockchainData
    /\ Sound(Completed(data), length)
    /\ Mapped(Completed(data))
    /\ StandsOnFork(data, length)
    /\ KnowsTransactions(data, transactions)

-----------------------------------------------------------------------------
(* The remote chain.                                                          *)

LEMMA RemoteFacts ==
    ASSUME RemoteIsAChain
    PROVE  /\ ForkBlockNumber \in Nat
           /\ BeforeFork \subseteq Block
           /\ \A n \in 0 .. ForkBlockNumber :
                RemoteBlocks[n] \in BeforeFork /\ RemoteBlocks[n].number = n
           /\ \A b \in BeforeFork : b.number \in 0 .. ForkBlockNumber /\ b = RemoteBlocks[b.number]
           /\ \A b, c \in BeforeFork : b.txs \cap c.txs # {} => b = c
<1>1. \A n \in 0 .. ForkBlockNumber : n \in DOMAIN RemoteBlocks
  BY DEF RemoteIsAChain
<1>2. ForkBlockNumber \in Nat
  BY DEF RemoteIsAChain
<1>3. \A n \in DOMAIN RemoteBlocks : RemoteBlocks[n] \in Block /\ RemoteBlocks[n].number = n
  BY DEF RemoteIsAChain
<1>4. \A m, n \in DOMAIN RemoteBlocks : m # n => RemoteBlocks[m].txs \cap RemoteBlocks[n].txs = {}
  BY DEF RemoteIsAChain
<1> QED
  BY <1>1, <1>2, <1>3, <1>4 DEF BeforeFork

LEMMA TotalFacts ==
    ASSUME RemoteIsAChain
    PROVE  /\ RemoteTotals \subseteq [block : Block, td : Nat]
           /\ \A e \in RemoteTotals :
                e.block \in BeforeFork /\ e.td = RemoteTotalDifficulty[e.block.number]
           /\ \A b \in BeforeFork : \E e \in RemoteTotals : e.block = b
           /\ \A e, f \in RemoteTotals :
                f.block.number = e.block.number - 1 => e.td = f.td + e.block.difficulty
<1>1. /\ RemoteTotalDifficulty \in [DOMAIN RemoteBlocks -> Nat]
      /\ \A n \in 0 .. ForkBlockNumber : n \in DOMAIN RemoteBlocks
  BY DEF RemoteIsAChain
<1>2. \A n \in DOMAIN RemoteBlocks : n # 0 =>
        RemoteTotalDifficulty[n] = RemoteTotalDifficulty[n - 1] + RemoteBlocks[n].difficulty
  BY DEF RemoteIsAChain
<1>3. \A n \in 0 .. ForkBlockNumber : RemoteTotalDifficulty[n] \in Nat
  BY <1>1
<1>4. \A e \in RemoteTotals : \E n \in 0 .. ForkBlockNumber :
        e = [block |-> RemoteBlocks[n], td |-> RemoteTotalDifficulty[n]]
  BY DEF RemoteTotals
<1>5. \A n \in 0 .. ForkBlockNumber : RemoteBlocks[n] \in Block /\ RemoteBlocks[n].number = n
  BY RemoteFacts
<1>6. \A e \in RemoteTotals :
        /\ e \in [block : Block, td : Nat]
        /\ e.block \in BeforeFork /\ e.td = RemoteTotalDifficulty[e.block.number]
  BY <1>3, <1>4, <1>5, RemoteFacts
<1>7. \A b \in BeforeFork : \E e \in RemoteTotals : e.block = b
  <2> TAKE b \in BeforeFork
  <2>1. PICK n \in 0 .. ForkBlockNumber : b = RemoteBlocks[n]
    BY DEF BeforeFork
  <2> DEFINE e == [block |-> RemoteBlocks[n], td |-> RemoteTotalDifficulty[n]]
  <2>2. e \in RemoteTotals /\ e.block = b
    BY <2>1 DEF RemoteTotals
  <2> QED
    BY <2>2
<1>8. ASSUME NEW e \in RemoteTotals, NEW f \in RemoteTotals, f.block.number = e.block.number - 1
      PROVE  e.td = f.td + e.block.difficulty
  <2>1. PICK n \in 0 .. ForkBlockNumber : n = e.block.number /\ e.block = RemoteBlocks[n]
    BY <1>6, RemoteFacts
  <2>2. f.block.number \in 0 .. ForkBlockNumber
    BY <1>6, RemoteFacts
  <2>3. n # 0
    BY <1>8, <2>1, <2>2
  <2> QED
    BY <1>1, <1>2, <1>6, <1>8, <2>1, <2>3
<1> QED
  BY <1>6, <1>7, <1>8

LEMMA CompletedParts ==
    ASSUME NEW d
    PROVE  /\ Completed(d).blocksByNumber = d.blocksByNumber \union BeforeFork
           /\ Completed(d).blocksByHash = d.blocksByHash \union BeforeFork
           /\ Completed(d).blocksByTransactions = d.blocksByTransactions \union TransactionsOf(BeforeFork)
           /\ Completed(d).transactionReceipts = d.transactionReceipts \union TxsOf(BeforeFork)
           /\ Completed(d).totalDifficulty = d.totalDifficulty \union RemoteTotals
           /\ Completed(d).blockReservations = d.blockReservations
BY DEF Completed

LEMMA CompletedTyped ==
    ASSUME RemoteIsAChain, NEW d \in BlockchainData
    PROVE  Completed(d) \in BlockchainData
<1>1. BeforeFork \subseteq Block /\ RemoteTotals \subseteq [block : Block, td : Nat]
  BY RemoteFacts, TotalFacts
<1>2. TxsOf(BeforeFork) \subseteq Txs
  BY <1>1 DEF TxsOf, Block
<1>3. TransactionsOf(BeforeFork) \subseteq [tx : Txs, block : Block]
  BY <1>1 DEF TransactionsOf, Block
<1> QED
  BY <1>1, <1>2, <1>3 DEF Completed, BlockchainData

LEMMA ForkInvInit == RemoteIsAChain /\ ForkChainInit => ForkInv
<1> SUFFICES ASSUME RemoteIsAChain, ForkChainInit PROVE ForkInv
  OBVIOUS
<1>1. data = NoData /\ transactions = {} /\ length = ForkBlockNumber + 1
  BY DEF ForkChainInit
<1>2. NoData \in BlockchainData
  BY DEF NoData, BlockchainData
<1> DEFINE D == Completed(NoData)
<1>3. /\ D.blocksByNumber = BeforeFork /\ D.blocksByHash = BeforeFork
      /\ D.blocksByTransactions = TransactionsOf(BeforeFork)
      /\ D.transactionReceipts = TxsOf(BeforeFork)
      /\ D.totalDifficulty = RemoteTotals /\ D.blockReservations = {}
  <2>1. /\ NoData.blocksByNumber = {} /\ NoData.blocksByHash = {} /\ NoData.blocksByTransactions = {}
        /\ NoData.transactionReceipts = {} /\ NoData.totalDifficulty = {} /\ NoData.blockReservations = {}
    BY DEF NoData
  <2> QED
    BY <2>1, CompletedParts
<1>4. D \in BlockchainData
  BY <1>2, CompletedTyped
<1> HIDE DEF D
<1>5. Shape(BeforeFork, {}, ForkBlockNumber + 1)
  <2>1. TypedSets(BeforeFork, {}, ForkBlockNumber + 1)
    BY RemoteFacts DEF TypedSets
  <2>2. \A n \in 0 .. (ForkBlockNumber + 1) - 1 : \E b \in BeforeFork : b.number = n
    BY RemoteFacts
  <2>3. Tiled(BeforeFork, {}, ForkBlockNumber + 1)
    BY <2>2, RemoteFacts DEF Tiled
  <2> QED
    BY <2>1, <2>3 DEF Shape, Follow
<1>6. Sound(D, ForkBlockNumber + 1)
  BY <1>3, <1>4, <1>5 DEF Sound
<1>7. Valued(BeforeFork, RemoteTotals)
  BY TotalFacts, RemoteFacts DEF Valued
<1>8. Indexed(BeforeFork, TransactionsOf(BeforeFork), TxsOf(BeforeFork))
  <2>1. TransactionsOf(BeforeFork) \subseteq [tx : Txs, block : Block]
    BY <1>3, <1>4 DEF BlockchainData
  <2>2. \A x \in TransactionsOf(BeforeFork) : x.block \in BeforeFork /\ x.tx \in x.block.txs
    BY DEF TransactionsOf
  <2>3. \A b \in BeforeFork : \A tx \in b.txs : [tx |-> tx, block |-> b] \in TransactionsOf(BeforeFork)
    BY DEF TransactionsOf
  <2> QED
    BY <2>1, <2>2, <2>3, RemoteFacts DEF Indexed
<1>9. Adds(RemoteTotals, {})
  BY TotalFacts DEF Adds
<1>10. Mapped(D)
  BY <1>3, <1>7, <1>8, <1>9 DEF Mapped
<1>11. StandsOnFork(NoData, ForkBlockNumber + 1)
  BY RemoteFacts DEF StandsOnFork, NoData
<1>12. KnowsTransactions(NoData, {})
  BY DEF KnowsTransactions, NoData
<1> QED
  BY <1>1, <1>2, <1>6, <1>10, <1>11, <1>12 DEF ForkInv, D

-----------------------------------------------------------------------------
(* What is fetched: completed, the maps stay as they are.                     *)

LEMMA CompletedEqual ==
    ASSUME NEW d, NEW e,
           e.blocksByNumber \union BeforeFork = d.blocksByNumber \union BeforeFork,
           e.blocksByHash \union BeforeFork = d.blocksByHash \union BeforeFork,
           e.blocksByTransactions \union TransactionsOf(BeforeFork) =
               d.blocksByTransactions \union TransactionsOf(BeforeFork),
           e.transactionReceipts \union TxsOf(BeforeFork) = d.transactionReceipts \union TxsOf(BeforeFork),
           e.totalDifficulty \union RemoteTotals = d.totalDifficulty \union RemoteTotals,
           e.blockReservations = d.blockReservations
    PROVE  Completed(e) = Completed(d)
BY DEF Completed

\* Blocks, totals and transactions up to the fork are what the remote node has.
LEMMA SameAsRemote ==
    ASSUME RemoteIsAChain, NEW d \in BlockchainData, NEW len,
           Sound(Completed(d), len), Mapped(Completed(d)), NEW n \in 0 .. ForkBlockNumber
    PROVE  LET block == RemoteBlocks[n]
           IN  /\ block \in Block /\ block.number = n /\ RemoteTotalDifficulty[n] \in Nat
               /\ [block |-> block, td |-> RemoteTotalDifficulty[n]] \in RemoteTotals
               /\ \A b \in Completed(d).blocksByNumber : b.number = n => b = block
               /\ \A e \in Completed(d).totalDifficulty :
                    e.block = block => e = [block |-> block, td |-> RemoteTotalDifficulty[n]]
               /\ \A x \in Completed(d).blocksByTransactions :
                    x.tx \in block.txs <=> x \in {[tx |-> tx, block |-> block] : tx \in block.txs}
<1> DEFINE block == RemoteBlocks[n]
           entry == [block |-> block, td |-> RemoteTotalDifficulty[n]]
           B == Completed(d).blocksByNumber
<1>1. block \in BeforeFork /\ block \in Block /\ block.number = n /\ block \in B
  BY RemoteFacts, CompletedParts
<1>2. RemoteTotalDifficulty[n] \in Nat
  BY DEF RemoteIsAChain
<1>3. entry \in RemoteTotals /\ entry \in Completed(d).totalDifficulty
  BY CompletedParts DEF RemoteTotals
<1>4. \A b \in B : b.number = n => b = block
  BY <1>1 DEF Sound, Shape, Tiled
<1>5. \A e \in Completed(d).totalDifficulty : e.block = block => e = entry
  <2>1. entry.block = block
    OBVIOUS
  <2> HIDE DEF entry, block
  <2> QED
    BY <1>3, <2>1 DEF Mapped, Valued
<1>6. ASSUME NEW x \in Completed(d).blocksByTransactions
      PROVE  x.tx \in block.txs <=> x \in {[tx |-> tx, block |-> block] : tx \in block.txs}
  <2>1. /\ x = [tx |-> x.tx, block |-> x.block] /\ x.block \in B /\ x.tx \in x.block.txs
    BY DEF Mapped, Indexed
  <2>2. x.tx \in block.txs => x.block = block
    BY <1>1, <2>1 DEF Mapped, Indexed
  <2> HIDE DEF block
  <2>3. x.tx \in block.txs => x \in {[tx |-> tx, block |-> block] : tx \in block.txs}
    BY <2>1, <2>2
  <2> QED
    BY <2>3
<1> QED
  BY <1>1, <1>2, <1>3, <1>4, <1>5, <1>6

LEMMA FetchedBlock ==
    ASSUME RemoteIsAChain, NEW d \in BlockchainData, NEW len,
           Sound(Completed(d), len), Mapped(Completed(d)), NEW n \in 0 .. ForkBlockNumber,
           NEW e, e = WithBlock(d, RemoteBlocks[n], RemoteTotalDifficulty[n])
    PROVE  /\ e \in BlockchainData /\ Completed(e) = Completed(d)
           /\ e.blocksByNumber = d.blocksByNumber \union {RemoteBlocks[n]}
           /\ \A f \in d.totalDifficulty : \E g \in e.totalDifficulty : g.block = f.block
           /\ \E g \in e.totalDifficulty : g.block = RemoteBlocks[n]
<1> DEFINE block == RemoteBlocks[n]
           td == RemoteTotalDifficulty[n]
           entry == [block |-> block, td |-> td]
           entries == {[tx |-> tx, block |-> block] : tx \in block.txs}
<1>1. /\ block \in BeforeFork /\ block \in Block /\ block.number = n /\ td \in Nat
      /\ entry \in RemoteTotals
      /\ \A b \in Completed(d).blocksByNumber : b.number = n => b = block
      /\ \A f \in Completed(d).totalDifficulty : f.block = block => f = entry
      /\ \A x \in Completed(d).blocksByTransactions : x.tx \in block.txs <=> x \in entries
  BY SameAsRemote, RemoteFacts
<1>2. entry.block = block
  OBVIOUS
<1>3. entries \subseteq TransactionsOf(BeforeFork)
  BY <1>1 DEF TransactionsOf
<1>4. \A x \in entries : x.tx \in block.txs
  OBVIOUS
<1>5. e = WithBlock(d, block, td)
  OBVIOUS
<1> HIDE DEF block, td
<1>6. /\ e \in BlockchainData
      /\ e.blocksByNumber = {b \in d.blocksByNumber : b.number # n} \union {block}
      /\ e.blocksByHash = d.blocksByHash \union {block}
      /\ e.blockReservations = d.blockReservations
      /\ e.totalDifficulty = {f \in d.totalDifficulty : f.block # block} \union {entry}
      /\ e.blocksByTransactions = {x \in d.blocksByTransactions : x.tx \notin block.txs} \union entries
      /\ e.transactionReceipts = d.transactionReceipts
  BY <1>1, <1>5, WithBlockData, WithBlockMaps
<1> HIDE DEF entry, entries
<1>7. /\ d.blocksByNumber \subseteq Completed(d).blocksByNumber
      /\ d.totalDifficulty \subseteq Completed(d).totalDifficulty
      /\ d.blocksByTransactions \subseteq Completed(d).blocksByTransactions
  BY CompletedParts
<1>8. e.blocksByNumber = d.blocksByNumber \union {block}
  BY <1>1, <1>6, <1>7
<1>9. e.blocksByTransactions = d.blocksByTransactions \union entries
  BY <1>1, <1>6, <1>7
<1>10. e.totalDifficulty = d.totalDifficulty \union {entry}
  BY <1>1, <1>2, <1>6, <1>7
<1>11. Completed(e) = Completed(d)
  BY <1>1, <1>3, <1>6, <1>8, <1>9, <1>10, CompletedEqual
<1> QED
  BY <1>2, <1>6, <1>8, <1>10, <1>11 DEF block

\* The invariant, of the variables after a step.
LEMMA ForkInvAfter ==
    ASSUME data' \in BlockchainData, Sound(Completed(data'), length'), Mapped(Completed(data')),
           StandsOnFork(data', length'), KnowsTransactions(data', transactions')
    PROVE  ForkInv'
BY DEF ForkInv

LEMMA FetchStep ==
    ASSUME RemoteIsAChain, ForkInv, NEW n \in 0 .. ForkBlockNumber, ProcessRemoteBlock(n)
    PROVE  ForkInv' /\ Completed(data') = Completed(data) /\ length' = length
<1> DEFINE block == RemoteBlocks[n]
<1>1. /\ data' = WithBlock(data, RemoteBlocks[n], RemoteTotalDifficulty[n])
      /\ transactions' = transactions \union block.txs /\ length' = length
  BY DEF ProcessRemoteBlock
<1>2. /\ data \in BlockchainData /\ Sound(Completed(data), length) /\ Mapped(Completed(data))
      /\ StandsOnFork(data, length) /\ KnowsTransactions(data, transactions)
  BY DEF ForkInv
<1>3. /\ data' \in BlockchainData /\ Completed(data') = Completed(data)
      /\ data'.blocksByNumber = data.blocksByNumber \union {block}
      /\ \A f \in data.totalDifficulty : \E g \in data'.totalDifficulty : g.block = f.block
      /\ \E g \in data'.totalDifficulty : g.block = block
  BY <1>1, <1>2, FetchedBlock
<1>4. block \in BeforeFork
  BY RemoteFacts
<1> HIDE DEF block
<1>5. StandsOnFork(data', length')
  BY <1>1, <1>2, <1>3 DEF StandsOnFork
<1>6. block.txs \subseteq TxsOf(Completed(data).blocksByNumber)
  BY <1>4, CompletedParts DEF TxsOf
<1>7. KnowsTransactions(data', transactions')
  BY <1>1, <1>2, <1>3, <1>6 DEF KnowsTransactions
<1> QED
  BY <1>1, <1>2, <1>3, <1>5, <1>7, ForkInvAfter

LEMMA RemoteNumbers ==
    ASSUME RemoteIsAChain, NEW tx
    PROVE  RemoteNumber(tx) = {n \in 0 .. ForkBlockNumber : tx \in RemoteBlocks[n].txs}
<1>1. \A n \in 0 .. ForkBlockNumber : n \in DOMAIN RemoteBlocks
  BY DEF RemoteIsAChain
<1>2. \A n \in DOMAIN RemoteBlocks : n \in Nat
  BY DEF RemoteIsAChain, Block
<1>3. ForkBlockNumber \in Nat
  BY DEF RemoteIsAChain
<1> QED
  BY <1>1, <1>2, <1>3 DEF RemoteNumber, IsBeforeFork

LEMMA RemoteTxs ==
    ASSUME RemoteIsAChain, NEW tx
    PROVE  RemoteNumber(tx) # {} <=> tx \in TxsOf(BeforeFork)
BY RemoteNumbers DEF TxsOf, BeforeFork

LEMMA GetTransactionStep ==
    ASSUME RemoteIsAChain, ForkInv, NEW tx, GetTransaction(tx)
    PROVE  ForkInv' /\ Completed(data') = Completed(data) /\ length' = length
<1>1. data' = data /\ length' = length /\ transactions' = transactions \union {tx}
  BY DEF GetTransaction
<1>2. tx \in TxsOf(BeforeFork)
  BY RemoteTxs DEF GetTransaction
<1>3. tx \in TxsOf(Completed(data).blocksByNumber)
  BY <1>2, CompletedParts DEF TxsOf
<1>4. KnowsTransactions(data', transactions')
  BY <1>1, <1>3 DEF ForkInv, KnowsTransactions
<1> QED
  BY <1>1, <1>4 DEF ForkInv

LEMMA GetTransactionReceiptStep ==
    ASSUME RemoteIsAChain, ForkInv, NEW tx, GetTransactionReceipt(tx)
    PROVE  ForkInv' /\ Completed(data') = Completed(data) /\ length' = length
<1>1. /\ data' = [data EXCEPT !.transactionReceipts = @ \union {tx}]
      /\ length' = length /\ transactions' = transactions \union {tx}
  BY DEF GetTransactionReceipt
<1>2. tx \in TxsOf(BeforeFork)
  BY RemoteTxs DEF GetTransactionReceipt
<1>3. tx \in TxsOf(Completed(data).blocksByNumber) /\ tx \in Txs
  BY <1>2, CompletedParts, RemoteFacts DEF TxsOf, Block
<1>4. /\ data' \in BlockchainData
      /\ data'.blocksByNumber = data.blocksByNumber /\ data'.blocksByHash = data.blocksByHash
      /\ data'.blocksByTransactions = data.blocksByTransactions
      /\ data'.transactionReceipts = data.transactionReceipts \union {tx}
      /\ data'.totalDifficulty = data.totalDifficulty
      /\ data'.blockReservations = data.blockReservations
  BY <1>1, <1>3 DEF ForkInv, BlockchainData
<1>5. Completed(data') = Completed(data)
  BY <1>2, <1>4, CompletedEqual
<1>6. KnowsTransactions(data', transactions')
  BY <1>1, <1>3, <1>4, <1>5 DEF ForkInv, KnowsTransactions
<1>7. StandsOnFork(data', length')
  BY <1>1, <1>4 DEF ForkInv, StandsOnFork
<1> QED
  BY <1>1, <1>4, <1>5, <1>6, <1>7 DEF ForkInv

-----------------------------------------------------------------------------
(* What is mined, reserved, made and taken back: completed, the maps change    *)
(* as those of a chain without a fork.                                        *)

LEMMA SameData ==
    ASSUME NEW d \in BlockchainData, NEW e \in BlockchainData,
           e.blocksByNumber = d.blocksByNumber, e.blocksByHash = d.blocksByHash,
           e.blocksByTransactions = d.blocksByTransactions,
           e.transactionReceipts = d.transactionReceipts,
           e.totalDifficulty = d.totalDifficulty, e.blockReservations = d.blockReservations
    PROVE  e = d
BY DEF BlockchainData

\* A local block is added as to a chain without a fork.
LEMMA WithLocalBlock ==
    ASSUME RemoteIsAChain, NEW d \in BlockchainData, NEW block \in Block, NEW td \in Nat,
           block.number > ForkBlockNumber, \A tx \in block.txs : tx \notin TxsOf(BeforeFork)
    PROVE  Completed(WithBlock(d, block, td)) = WithBlock(Completed(d), block, td)
<1> DEFINE e == WithBlock(d, block, td)
           D == Completed(d)
           E == WithBlock(D, block, td)
           entry == [block |-> block, td |-> td]
           entries == {[tx |-> tx, block |-> block] : tx \in block.txs}
<1>1. D \in BlockchainData /\ E \in BlockchainData
  BY CompletedTyped, WithBlockData
<1>2. /\ e \in BlockchainData
      /\ e.blocksByNumber = {b \in d.blocksByNumber : b.number # block.number} \union {block}
      /\ e.blocksByHash = d.blocksByHash \union {block}
      /\ e.blockReservations = d.blockReservations
      /\ e.totalDifficulty = {f \in d.totalDifficulty : f.block # block} \union {entry}
      /\ e.blocksByTransactions = {x \in d.blocksByTransactions : x.tx \notin block.txs} \union entries
      /\ e.transactionReceipts = d.transactionReceipts
  BY WithBlockData, WithBlockMaps
<1>3. /\ E.blocksByNumber = {b \in D.blocksByNumber : b.number # block.number} \union {block}
      /\ E.blocksByHash = D.blocksByHash \union {block}
      /\ E.blockReservations = D.blockReservations
      /\ E.totalDifficulty = {f \in D.totalDifficulty : f.block # block} \union {entry}
      /\ E.blocksByTransactions = {x \in D.blocksByTransactions : x.tx \notin block.txs} \union entries
      /\ E.transactionReceipts = D.transactionReceipts
  <2> HIDE DEF D
  <2> QED
    BY <1>1, WithBlockData, WithBlockMaps
<1> HIDE DEF e, D, E, entry, entries
<1>4. /\ D.blocksByNumber = d.blocksByNumber \union BeforeFork
      /\ D.blocksByHash = d.blocksByHash \union BeforeFork
      /\ D.blocksByTransactions = d.blocksByTransactions \union TransactionsOf(BeforeFork)
      /\ D.transactionReceipts = d.transactionReceipts \union TxsOf(BeforeFork)
      /\ D.totalDifficulty = d.totalDifficulty \union RemoteTotals
      /\ D.blockReservations = d.blockReservations
  BY CompletedParts DEF D
<1>5. \A b \in BeforeFork : b.number # block.number /\ b # block
  BY RemoteFacts
<1>6. \A f \in RemoteTotals : f.block # block
  BY <1>5, TotalFacts
<1>7. \A x \in TransactionsOf(BeforeFork) : x.tx \notin block.txs
  BY DEF TransactionsOf, TxsOf
<1>8. /\ Completed(e).blocksByNumber = e.blocksByNumber \union BeforeFork
      /\ Completed(e).blocksByHash = e.blocksByHash \union BeforeFork
      /\ Completed(e).blocksByTransactions = e.blocksByTransactions \union TransactionsOf(BeforeFork)
      /\ Completed(e).transactionReceipts = e.transactionReceipts \union TxsOf(BeforeFork)
      /\ Completed(e).totalDifficulty = e.totalDifficulty \union RemoteTotals
      /\ Completed(e).blockReservations = e.blockReservations
  BY CompletedParts
<1>9. Completed(e) \in BlockchainData
  BY <1>2, CompletedTyped
<1>10. Completed(e).blocksByNumber = E.blocksByNumber
  BY <1>2, <1>3, <1>4, <1>5, <1>8
<1>11. Completed(e).blocksByHash = E.blocksByHash
  BY <1>2, <1>3, <1>4, <1>8
<1>12. Completed(e).blocksByTransactions = E.blocksByTransactions
  BY <1>2, <1>3, <1>4, <1>7, <1>8
<1>13. Completed(e).totalDifficulty = E.totalDifficulty
  BY <1>2, <1>3, <1>4, <1>6, <1>8
<1>14. /\ Completed(e).transactionReceipts = E.transactionReceipts
       /\ Completed(e).blockReservations = E.blockReservations
  BY <1>2, <1>3, <1>4, <1>8
<1>15. Completed(e) = E
  BY <1>1, <1>9, <1>10, <1>11, <1>12, <1>13, <1>14, SameData
<1> QED
  BY <1>15 DEF e, D, E

LEMMA WithReservations ==
    ASSUME NEW d \in BlockchainData, NEW R
    PROVE  /\ Completed([d EXCEPT !.blockReservations = R]) = [Completed(d) EXCEPT !.blockReservations = R]
           /\ R \subseteq Reservation => [d EXCEPT !.blockReservations = R] \in BlockchainData
<1> DEFINE e == [d EXCEPT !.blockReservations = R]
<1>1. /\ e.blocksByNumber = d.blocksByNumber /\ e.blocksByHash = d.blocksByHash
      /\ e.blocksByTransactions = d.blocksByTransactions
      /\ e.transactionReceipts = d.transactionReceipts
      /\ e.totalDifficulty = d.totalDifficulty /\ e.blockReservations = R
  BY DEF BlockchainData
<1>2. R \subseteq Reservation => e \in BlockchainData
  BY DEF BlockchainData
<1> HIDE DEF e
<1>3. Completed(e) = [Completed(d) EXCEPT !.blockReservations = R]
  <2> DEFINE N == d.blocksByNumber \union BeforeFork
             H == d.blocksByHash \union BeforeFork
             X == d.blocksByTransactions \union TransactionsOf(BeforeFork)
             C == d.transactionReceipts \union TxsOf(BeforeFork)
             T == d.totalDifficulty \union RemoteTotals
             with(Rs) == [blocksByNumber |-> N, blocksByHash |-> H, blocksByTransactions |-> X,
                         transactionReceipts |-> C, totalDifficulty |-> T, blockReservations |-> Rs]
  <2>1. Completed(e) = with(R) /\ Completed(d) = with(d.blockReservations)
    BY <1>1 DEF Completed
  <2> HIDE DEF N, H, X, C, T
  <2>2. [with(d.blockReservations) EXCEPT !.blockReservations = R] = with(R)
    OBVIOUS
  <2> QED
    BY <2>1, <2>2
<1> QED
  BY <1>2, <1>3 DEF e

\* What is known of the maps where the invariant holds.
LEMMA Known ==
    ASSUME RemoteIsAChain, ForkInv
    PROVE  /\ data \in BlockchainData /\ data.blockReservations \subseteq Reservation
           /\ data.blocksByNumber \subseteq Block /\ length \in Nat /\ length > ForkBlockNumber
           /\ Sound(Completed(data), length) /\ Mapped(Completed(data))
           /\ Shape(Completed(data).blocksByNumber, data.blockReservations, length)
           /\ data.blocksByNumber \subseteq Completed(data).blocksByNumber
           /\ BeforeFork \subseteq Completed(data).blocksByNumber
           /\ \A r \in data.blockReservations : r.first > ForkBlockNumber
<1>1. /\ data \in BlockchainData /\ Sound(Completed(data), length) /\ Mapped(Completed(data))
      /\ length > ForkBlockNumber
  BY DEF ForkInv, StandsOnFork
<1>2. Shape(Completed(data).blocksByNumber, data.blockReservations, length)
  BY <1>1, CompletedParts DEF Sound
<1>3. data.blockReservations \subseteq Reservation /\ data.blocksByNumber \subseteq Block /\ length \in Nat
  BY <1>1, <1>2 DEF BlockchainData, Shape, TypedSets
<1>4. /\ data.blocksByNumber \subseteq Completed(data).blocksByNumber
      /\ BeforeFork \subseteq Completed(data).blocksByNumber
  BY CompletedParts
<1>5. ASSUME NEW r \in data.blockReservations PROVE r.first > ForkBlockNumber
  <2>1. r.first \in Nat /\ r.last \in Nat /\ r.first <= r.last /\ ForkBlockNumber \in Nat
    BY <1>2, <1>3, RemoteFacts DEF Reservation, Shape, Tiled
  <2>2. ASSUME r.first <= ForkBlockNumber PROVE FALSE
    <3>1. RemoteBlocks[r.first] \in BeforeFork /\ RemoteBlocks[r.first].number = r.first
      BY <2>1, <2>2, RemoteFacts
    <3>2. Reserves(r, r.first)
      BY <2>1 DEF Reserves
    <3> QED
      BY <1>2, <1>4, <3>1, <3>2 DEF Shape, Tiled
  <2> QED
    BY <2>1, <2>2
<1> QED
  BY <1>1, <1>2, <1>3, <1>4, <1>5

LEMMA ReservedTyped ==
    ASSUME NEW before \in Block, NEW r \in Reservation, NEW n \in Nat, Reserves(r, n)
    PROVE  ReservedBlock(before, r, n) \in Block
<1>1. /\ before.timestamp \in Nat /\ r.interval \in Nat /\ r.previousBlockState \in States
      /\ r.first \in Nat /\ r.first <= n
  BY DEF Block, Reservation, Reserves
<1>2. \A i, j \in Nat : i * j \in Nat
  OBVIOUS
<1> DEFINE k == n - r.first + 1
           p == r.interval * k
<1>3. k \in Nat
  BY <1>1
<1>4. p \in Nat
  <2> HIDE DEF k
  <2> QED
    BY <1>1, <1>2, <1>3
<1>5. ReservedTimestamp(before, r, n) = before.timestamp + p
  BY DEF ReservedTimestamp
<1> HIDE DEF p
<1>6. ReservedTimestamp(before, r, n) \in Nat
  BY <1>1, <1>4, <1>5
<1> QED
  BY <1>1, <1>6 DEF ReservedBlock, Block

LEMMA SplitTyped ==
    ASSUME NEW r \in Reservation, NEW n \in Nat, Reserves(r, n)
    PROVE  SplitAt(r, n) \subseteq Reservation
<1>1. r.first \in Nat /\ r.first <= n
  BY DEF Reservation, Reserves
<1>2. n # r.first => n - 1 \in Nat
  BY <1>1
<1>3. n # r.first => [r EXCEPT !.last = n - 1] \in Reservation
  BY <1>2 DEF Reservation
<1>4. [r EXCEPT !.first = n + 1] \in Reservation
  BY DEF Reservation
<1> QED
  BY <1>3, <1>4 DEF SplitAt

LEMMA GetCompleted ==
    ASSUME RemoteIsAChain, ForkInv, NEW n \in Nat, GetBlock(n)
    PROVE  /\ data' \in BlockchainData /\ length' = length
           /\ Getting(Completed(data), Completed(data'), n)
           /\ \A b \in data'.blocksByNumber : b \in data.blocksByNumber \/ b.txs = {}
           /\ data.blocksByNumber \subseteq data'.blocksByNumber
           /\ \A b \in data'.blocksByNumber : \E e \in data'.totalDifficulty : e.block = b
<1>0. PICK r \in data.blockReservations :
        /\ Reserves(r, n)
        /\ \E before \in Numbered(data, r.first - 1) : data' = Fulfilled(data, before, r, n)
  BY DEF GetBlock
<1>1. PICK before \in Numbered(data, r.first - 1) :
        Reserves(r, n) /\ data' = Fulfilled(data, before, r, n)
  BY <1>0
<1> DEFINE R == (data.blockReservations \ {r}) \union SplitAt(r, n)
           split == [data EXCEPT !.blockReservations = R]
           block == ReservedBlock(before, r, n)
           td == r.previousBlockTotalDifficulty
<1>2. /\ data \in BlockchainData /\ r \in Reservation /\ before \in Block
      /\ before \in data.blocksByNumber /\ before.number = r.first - 1
  BY Known DEF Numbered
<1>3. block \in Block /\ block.number = n /\ block.txs = {} /\ td \in Nat
  BY <1>1, <1>2, ReservedTyped DEF ReservedBlock, Reservation
<1>4. R \subseteq Reservation
  BY <1>1, <1>2, Known, SplitTyped
<1>5. n > ForkBlockNumber
  <2>1. r.first > ForkBlockNumber /\ r.first <= n /\ r.first \in Nat /\ ForkBlockNumber \in Nat
    BY <1>1, <1>2, Known, RemoteFacts DEF Reserves, Reservation
  <2> QED
    BY <2>1
<1>6. data' = WithBlock(split, block, td)
  BY <1>1 DEF Fulfilled
<1>7. /\ split \in BlockchainData /\ Completed(split) = [Completed(data) EXCEPT !.blockReservations = R]
      /\ split.blocksByNumber = data.blocksByNumber /\ split.totalDifficulty = data.totalDifficulty
  <2> HIDE DEF R
  <2> QED
    BY <1>2, <1>4, WithReservations DEF BlockchainData
<1> HIDE DEF split, block, td
<1>8. Completed(data') = WithBlock(Completed(split), block, td)
  BY <1>3, <1>5, <1>6, <1>7, WithLocalBlock
<1>9. Completed(data') = Fulfilled(Completed(data), before, r, n)
  <2>1. Completed(data).blockReservations = data.blockReservations
    BY CompletedParts
  <2> QED
    BY <1>7, <1>8, <2>1 DEF Fulfilled, block, td
<1>10. /\ data' \in BlockchainData
       /\ data'.blocksByNumber = {b \in data.blocksByNumber : b.number # n} \union {block}
       /\ data'.totalDifficulty = {e \in data.totalDifficulty : e.block # block} \union {[block |-> block, td |-> td]}
  BY <1>3, <1>6, <1>7, WithBlockData, WithBlockMaps
<1>11. \A b \in data.blocksByNumber : b.number # n
  BY <1>1, Known DEF Shape, Tiled
<1>12. Getting(Completed(data), Completed(data'), n)
  <2>1. before \in Numbered(Completed(data), r.first - 1)
    BY <1>2, CompletedParts DEF Numbered
  <2>2. r \in Completed(data).blockReservations
    BY CompletedParts
  <2> QED
    BY <1>1, <1>9, <2>1, <2>2 DEF Getting
<1>13. ASSUME NEW b \in data'.blocksByNumber PROVE \E e \in data'.totalDifficulty : e.block = b
  <2>0. [block |-> block, td |-> td].block = block
    OBVIOUS
  <2>1. CASE b = block
    BY <1>10, <2>0, <2>1
  <2>2. CASE b # block
    BY <1>10, <2>2 DEF ForkInv, StandsOnFork
  <2> QED
    BY <2>1, <2>2
<1> QED
  BY <1>3, <1>10, <1>11, <1>12, <1>13 DEF GetBlock

LEMMA GetForkBlockStep ==
    ASSUME RemoteIsAChain, ForkInv, NEW n \in Nat, GetBlock(n), transactions' = transactions
    PROVE  ForkInv' /\ Getting(Completed(data), Completed(data'), n) /\ length' = length
<1> DEFINE D == Completed(data)
           E == Completed(data')
<1>1. /\ data' \in BlockchainData /\ length' = length /\ Getting(D, E, n)
      /\ \A b \in data'.blocksByNumber : b \in data.blocksByNumber \/ b.txs = {}
      /\ data.blocksByNumber \subseteq data'.blocksByNumber
      /\ \A b \in data'.blocksByNumber : \E e \in data'.totalDifficulty : e.block = b
  BY GetCompleted
<1>2. Sound(D, length) /\ Mapped(D)
  BY Known
<1>3. D.blocksByNumber \subseteq E.blocksByNumber
  BY <1>1, CompletedParts
<1> HIDE DEF D, E
<1>4. Sound(E, length) /\ Mapped(E)
  BY <1>1, <1>2, GetBlockStep, MapsStepGet
<1>5. StandsOnFork(data', length')
  BY <1>1 DEF ForkInv, StandsOnFork
<1>6. TxsOf(D.blocksByNumber) \subseteq TxsOf(E.blocksByNumber)
  BY <1>3 DEF TxsOf
<1>7. KnowsTransactions(data', transactions')
  BY <1>1, <1>6 DEF ForkInv, KnowsTransactions, D, E
<1>8. ForkInv'
  BY <1>1, <1>4, <1>5, <1>7, ForkInvAfter DEF E
<1> QED
  BY <1>1, <1>8 DEF D, E

LEMMA AddCompleted ==
    ASSUME RemoteIsAChain, ForkInv, NEW interval \in Intervals, NEW after \in States,
           NEW txs \in SUBSET Txs, ForkAddBlock(interval, after, txs)
    PROVE  \E block \in Block :
            /\ block.number = length /\ block.txs = txs
            /\ data' \in BlockchainData /\ length' = length + 1 /\ transactions' = transactions \union txs
            /\ Adding(Completed(data), Completed(data'), length, interval, after, txs)
            /\ data'.blocksByNumber = data.blocksByNumber \union {block}
            /\ RemoteBlocks[ForkBlockNumber] \in data.blocksByNumber
            /\ \A b \in data'.blocksByNumber : \E e \in data'.totalDifficulty : e.block = b
<1>0. PICK parent \in Numbered(data, length - 1), e \in data.totalDifficulty :
        /\ e.block = parent
        /\ data' = [WithBlock(data,
                        [number |-> length, timestamp |-> parent.timestamp + interval,
                         state |-> after, txs |-> txs, difficulty |-> Difficulty],
                        e.td + Difficulty)
                    EXCEPT !.transactionReceipts = @ \union txs]
  BY DEF ForkAddBlock, AddBlock
<1> DEFINE block == [number |-> length, timestamp |-> parent.timestamp + interval,
                     state |-> after, txs |-> txs, difficulty |-> Difficulty]
           td == e.td + Difficulty
           added == WithBlock(data, block, td)
           D == Completed(data)
<1>1. /\ data \in BlockchainData /\ length \in Nat /\ length > ForkBlockNumber
      /\ parent \in Block /\ parent \in data.blocksByNumber /\ parent.number = length - 1
  BY Known DEF Numbered
<1>2. td \in Nat /\ parent.timestamp + interval \in Nat
  BY <1>1, IntervalsAssumption DEF Block, BlockchainData
<1>3. block \in Block /\ block.number = length /\ block.txs = txs
  BY <1>1, <1>2, IntervalsAssumption DEF Block
<1>4. \A tx \in txs : tx \notin TxsOf(BeforeFork)
  BY RemoteTxs DEF ForkAddBlock
<1>5. data' = [added EXCEPT !.transactionReceipts = @ \union txs]
  BY <1>0
<1> HIDE DEF block, td
<1>6. Completed(added) = WithBlock(D, block, td)
  BY <1>1, <1>2, <1>3, <1>4, WithLocalBlock
<1>7. /\ added \in BlockchainData
      /\ added.blocksByNumber = {b \in data.blocksByNumber : b.number # length} \union {block}
      /\ added.totalDifficulty = {f \in data.totalDifficulty : f.block # block} \union {[block |-> block, td |-> td]}
  <2>1. /\ added \in BlockchainData
        /\ added.blocksByNumber = {b \in data.blocksByNumber : b.number # block.number} \union {block}
        /\ added.totalDifficulty = {f \in data.totalDifficulty : f.block # block} \union {[block |-> block, td |-> td]}
    <3>1. added.totalDifficulty = {f \in data.totalDifficulty : f.block # block} \union {[block |-> block, td |-> td]}
      BY <1>1, <1>2, <1>3, WithBlockMaps
    <3>2. /\ added \in BlockchainData
          /\ added.blocksByNumber = {b \in data.blocksByNumber : b.number # block.number} \union {block}
      BY <1>1, <1>2, <1>3, WithBlockData
    <3> QED
      BY <3>1, <3>2
  <2> HIDE DEF added
  <2> QED
    BY <1>3, <2>1
<1> HIDE DEF added
<1>8. /\ data' \in BlockchainData /\ data'.blocksByNumber = added.blocksByNumber
      /\ data'.blocksByHash = added.blocksByHash
      /\ data'.blocksByTransactions = added.blocksByTransactions
      /\ data'.transactionReceipts = added.transactionReceipts \union txs
      /\ data'.totalDifficulty = added.totalDifficulty
      /\ data'.blockReservations = added.blockReservations
  BY <1>5, <1>7 DEF BlockchainData
<1>9. \A b \in data.blocksByNumber : b.number # length
  BY <1>1, Known DEF Shape, Tiled, Block
<1>10. data'.blocksByNumber = data.blocksByNumber \union {block}
  BY <1>7, <1>8, <1>9
<1>11. Completed(data') = [Completed(added) EXCEPT !.transactionReceipts = @ \union txs]
  <2> DEFINE A == Completed(added)
             E == [A EXCEPT !.transactionReceipts = @ \union txs]
  <2>1. A \in BlockchainData
    BY <1>7, CompletedTyped
  <2> HIDE DEF A
  <2>2. /\ E \in BlockchainData /\ E.blocksByNumber = A.blocksByNumber
        /\ E.blocksByHash = A.blocksByHash
        /\ E.blocksByTransactions = A.blocksByTransactions
        /\ E.transactionReceipts = A.transactionReceipts \union txs
        /\ E.totalDifficulty = A.totalDifficulty
        /\ E.blockReservations = A.blockReservations
    BY <2>1 DEF BlockchainData
  <2> HIDE DEF E
  <2>3. Completed(data') \in BlockchainData
    BY <1>8, CompletedTyped
  <2>4. /\ Completed(data').blocksByNumber = E.blocksByNumber
        /\ Completed(data').blocksByHash = E.blocksByHash
        /\ Completed(data').blocksByTransactions = E.blocksByTransactions
        /\ Completed(data').totalDifficulty = E.totalDifficulty
        /\ Completed(data').blockReservations = E.blockReservations
    <3>1. /\ A.blocksByNumber = added.blocksByNumber \union BeforeFork
          /\ A.blocksByHash = added.blocksByHash \union BeforeFork
          /\ A.blocksByTransactions = added.blocksByTransactions \union TransactionsOf(BeforeFork)
          /\ A.totalDifficulty = added.totalDifficulty \union RemoteTotals
          /\ A.blockReservations = added.blockReservations
      BY CompletedParts DEF A
    <3>2. /\ Completed(data').blocksByNumber = data'.blocksByNumber \union BeforeFork
          /\ Completed(data').blocksByHash = data'.blocksByHash \union BeforeFork
          /\ Completed(data').blocksByTransactions = data'.blocksByTransactions \union TransactionsOf(BeforeFork)
          /\ Completed(data').totalDifficulty = data'.totalDifficulty \union RemoteTotals
          /\ Completed(data').blockReservations = data'.blockReservations
      BY CompletedParts
    <3> QED
      BY <1>8, <2>2, <3>1, <3>2
  <2>5. Completed(data').transactionReceipts = E.transactionReceipts
    <3>1. Completed(data').transactionReceipts = (added.transactionReceipts \union txs) \union TxsOf(BeforeFork)
      BY <1>8, CompletedParts
    <3>2. A.transactionReceipts = added.transactionReceipts \union TxsOf(BeforeFork)
      BY CompletedParts DEF A
    <3> QED
      BY <2>2, <3>1, <3>2
  <2>6. Completed(data') = E
    BY <2>2, <2>3, <2>4, <2>5, SameData
  <2> QED
    BY <2>6 DEF E, A
<1>12. Adding(D, Completed(data'), length, interval, after, txs)
  <2>1. \A x \in D.blocksByTransactions : x.tx \notin txs
    <3>1. \A x \in data.blocksByTransactions : x.tx \notin txs
      BY DEF ForkAddBlock, AddBlock
    <3>2. \A x \in TransactionsOf(BeforeFork) : x.tx \in TxsOf(BeforeFork)
      BY DEF TransactionsOf, TxsOf
    <3> QED
      BY <1>4, <3>1, <3>2, CompletedParts
  <2>2. parent \in Numbered(D, length - 1) /\ e \in D.totalDifficulty
    BY <1>1, CompletedParts DEF Numbered
  <2>3. Completed(data') = [WithBlock(D,
                    [number |-> length, timestamp |-> parent.timestamp + interval,
                     state |-> after, txs |-> txs, difficulty |-> Difficulty],
                    e.td + Difficulty)
                 EXCEPT !.transactionReceipts = @ \union txs]
    BY <1>6, <1>11 DEF block, td
  <2> HIDE DEF D
  <2> QED
    BY <1>0, <2>1, <2>2, <2>3 DEF Adding
<1>13. RemoteBlocks[ForkBlockNumber] \in data.blocksByNumber
  <2>1. CASE length = ForkBlockNumber + 1
    <3>1. /\ RemoteBlocks[ForkBlockNumber] \in BeforeFork
          /\ RemoteBlocks[ForkBlockNumber].number = ForkBlockNumber
      BY RemoteFacts
    <3>2. parent = RemoteBlocks[ForkBlockNumber]
      <4>1. parent.number = ForkBlockNumber
        BY <1>1, <2>1, RemoteFacts
      <4> QED
        BY <1>1, <3>1, <4>1, Known DEF Shape, Tiled
    <3> QED
      BY <1>1, <3>2
  <2>2. CASE length # ForkBlockNumber + 1
    BY <1>1, <2>2, RemoteFacts DEF ForkInv, StandsOnFork
  <2> QED
    BY <2>1, <2>2
<1>14. ASSUME NEW b \in data'.blocksByNumber PROVE \E f \in data'.totalDifficulty : f.block = b
  <2>0. [block |-> block, td |-> td].block = block
    OBVIOUS
  <2>1. CASE b = block
    BY <1>7, <1>8, <2>0, <2>1
  <2>2. CASE b # block
    BY <1>7, <1>8, <1>10, <2>2 DEF ForkInv, StandsOnFork
  <2> QED
    BY <2>1, <2>2
<1>15. length' = length + 1 /\ transactions' = transactions \union txs
  BY DEF ForkAddBlock, AddBlock
<1> QED
  BY <1>3, <1>8, <1>10, <1>12, <1>13, <1>14, <1>15

LEMMA ForkAddBlockStep ==
    ASSUME RemoteIsAChain, ForkInv, NEW interval \in Intervals, NEW after \in States,
           NEW txs \in SUBSET Txs, ForkAddBlock(interval, after, txs)
    PROVE  /\ ForkInv' /\ length' = length + 1
           /\ Adding(Completed(data), Completed(data'), length, interval, after, txs)
<1> DEFINE D == Completed(data)
           E == Completed(data')
<1>1. PICK block \in Block :
        /\ block.number = length /\ block.txs = txs
        /\ data' \in BlockchainData /\ length' = length + 1 /\ transactions' = transactions \union txs
        /\ Adding(D, E, length, interval, after, txs)
        /\ data'.blocksByNumber = data.blocksByNumber \union {block}
        /\ RemoteBlocks[ForkBlockNumber] \in data.blocksByNumber
        /\ \A b \in data'.blocksByNumber : \E e \in data'.totalDifficulty : e.block = b
  BY AddCompleted
<1>2. Sound(D, length) /\ Mapped(D) /\ length \in Nat /\ length > ForkBlockNumber
  BY Known
<1>3. E.blocksByNumber = D.blocksByNumber \union {block}
  BY <1>1, CompletedParts
<1> HIDE DEF D, E
<1>4. Sound(E, length + 1) /\ Mapped(E)
  BY <1>1, <1>2, AddBlockStep, MapsStepAdd
<1>5. StandsOnFork(data', length')
  BY <1>1, <1>2, RemoteFacts DEF StandsOnFork
<1>6. TxsOf(E.blocksByNumber) = TxsOf(D.blocksByNumber) \union txs
  BY <1>1, <1>3 DEF TxsOf
<1>7. KnowsTransactions(data', transactions')
  BY <1>1, <1>6 DEF ForkInv, KnowsTransactions, D, E
<1>8. ForkInv'
  BY <1>1, <1>4, <1>5, <1>7, ForkInvAfter DEF E
<1> QED
  BY <1>1, <1>8 DEF D, E

LEMMA ReserveForkBlocksStep ==
    ASSUME RemoteIsAChain, ForkInv, NEW count \in Counts, NEW interval \in Intervals,
           ForkReserveBlocks(count, interval)
    PROVE  /\ ForkInv' /\ length' = length + count
           /\ Reserving(Completed(data), Completed(data'), length, count, interval)
<1> DEFINE D == Completed(data)
           E == Completed(data')
<1>0. PICK latest \in Numbered(data, length - 1), e \in data.totalDifficulty :
        /\ e.block = latest
        /\ data' = [data EXCEPT !.blockReservations = @ \union
            {[first |-> length, last |-> length + count - 1, interval |-> interval,
              previousBlockState |-> latest.state, previousBlockTotalDifficulty |-> e.td]}]
  BY DEF ForkReserveBlocks, ReserveBlocks
<1> DEFINE new == [first |-> length, last |-> length + count - 1, interval |-> interval,
                   previousBlockState |-> latest.state, previousBlockTotalDifficulty |-> e.td]
           R == data.blockReservations \union {new}
<1>1. /\ data \in BlockchainData /\ length \in Nat /\ length > ForkBlockNumber
      /\ Sound(D, length) /\ Mapped(D)
      /\ latest \in Block /\ latest \in data.blocksByNumber /\ latest.number = length - 1
  BY Known DEF Numbered
<1>2. new \in Reservation
  BY <1>1, CountsAssumption, IntervalsAssumption DEF Reservation, Block, BlockchainData
<1>3. data' = [data EXCEPT !.blockReservations = R]
  BY <1>0
<1>4. R \subseteq Reservation
  BY <1>2, Known
<1> HIDE DEF R
<1>5. data' \in BlockchainData /\ E = [D EXCEPT !.blockReservations = R]
  BY <1>1, <1>3, <1>4, WithReservations
<1>6. Reserving(D, E, length, count, interval)
  <2>1. latest \in Numbered(D, length - 1) /\ e \in D.totalDifficulty
    BY <1>1, CompletedParts DEF Numbered
  <2>2. D.blockReservations = data.blockReservations
    BY CompletedParts
  <2> HIDE DEF D, E
  <2> QED
    BY <1>0, <1>5, <2>1, <2>2 DEF Reserving, R
<1> HIDE DEF D, E
<1>7. Sound(E, length + count) /\ Mapped(E)
  BY <1>1, <1>6, ReserveBlocksStep, MapsStepReserve
<1>8. length' = length + count /\ transactions' = transactions
  BY DEF ForkReserveBlocks, ReserveBlocks
<1>9. /\ data'.blocksByNumber = data.blocksByNumber
      /\ data'.totalDifficulty = data.totalDifficulty
  BY <1>1, <1>3 DEF BlockchainData
<1>10. RemoteBlocks[ForkBlockNumber] \in data.blocksByNumber
  <2>1. CASE length = ForkBlockNumber + 1
    <3>1. /\ RemoteBlocks[ForkBlockNumber] \in BeforeFork
          /\ RemoteBlocks[ForkBlockNumber].number = ForkBlockNumber
      BY RemoteFacts
    <3>2. latest = RemoteBlocks[ForkBlockNumber]
      <4>1. latest.number = ForkBlockNumber
        BY <1>1, <2>1, RemoteFacts
      <4> QED
        BY <1>1, <3>1, <4>1, Known DEF Shape, Tiled
    <3> QED
      BY <1>1, <3>2
  <2>2. CASE length # ForkBlockNumber + 1
    BY <1>1, <2>2, RemoteFacts DEF ForkInv, StandsOnFork
  <2> QED
    BY <2>1, <2>2
<1>11. StandsOnFork(data', length')
  BY <1>1, <1>8, <1>9, <1>10, RemoteFacts, CountsAssumption DEF ForkInv, StandsOnFork
<1>12. KnowsTransactions(data', transactions')
  <2>1. E.blocksByNumber = D.blocksByNumber
    BY <1>9, CompletedParts DEF D, E
  <2> QED
    BY <1>8, <1>9, <2>1 DEF ForkInv, KnowsTransactions, D, E
<1>13. ForkInv'
  BY <1>5, <1>7, <1>8, <1>11, <1>12, ForkInvAfter DEF E
<1> QED
  BY <1>6, <1>8, <1>13 DEF D, E

LEMMA DeleteCompleted ==
    ASSUME RemoteIsAChain, ForkInv, NEW block \in data.blocksByHash, ForkDeleteLaterBlocks(block)
    PROVE  LET gone == {b \in data.blocksByNumber :
                            b.number > block.number /\ ~ IsReservedBlock(data, b.number)}
           IN  /\ data' \in BlockchainData
               /\ Deleting(Completed(data), Completed(data'), block)
               /\ data'.blocksByNumber = data.blocksByNumber \ gone
               /\ data'.totalDifficulty = {e \in data.totalDifficulty : e.block \notin gone}
               /\ transactions' = transactions \ TxsOf(gone)
               /\ Completed(data').blocksByNumber = Completed(data).blocksByNumber \ gone
               /\ \A b \in Completed(data).blocksByNumber \ gone : \A tx \in b.txs : tx \notin TxsOf(gone)
<1> DEFINE gone == {b \in data.blocksByNumber :
                        b.number > block.number /\ ~ IsReservedBlock(data, b.number)}
           R == {r \in data.blockReservations : r.last <= block.number}
           D == Completed(data)
           left == [WithoutBlocks(D, gone) EXCEPT !.blockReservations = R]
<1>1. /\ block.number >= ForkBlockNumber
      /\ data' = [WithoutBlocks(data, gone) EXCEPT !.blockReservations = {r \in @ : r.last <= block.number}]
      /\ transactions' = transactions \ TxsOf({b \in data.blocksByNumber : b.number > block.number})
  BY DEF ForkDeleteLaterBlocks, DeleteLaterBlocks
<1>2. gone = {b \in data.blocksByNumber : b.number > block.number}
  BY Known DEF IsReservedBlock, Shape, Tiled
<1>3. /\ data \in BlockchainData /\ D \in BlockchainData /\ Mapped(D) /\ gone \subseteq D.blocksByNumber
      /\ block \in Block
  BY Known DEF Sound, BlockchainData
<1>4. \A b \in BeforeFork : b \notin gone
  BY <1>1, <1>3, RemoteFacts DEF Block
<1>5. \A b \in D.blocksByNumber \ gone : \A tx \in b.txs : tx \notin TxsOf(gone)
  <2> HIDE DEF gone, D
  <2> QED
    BY <1>3 DEF Mapped, Indexed, TxsOf
<1>6. \A tx \in TxsOf(BeforeFork) : tx \notin TxsOf(gone)
  BY <1>4, <1>5, Known DEF TxsOf
<1>7. \A x \in TransactionsOf(BeforeFork) : x.tx \notin TxsOf(gone)
  BY <1>6 DEF TransactionsOf, TxsOf
<1>8. \A e \in RemoteTotals : e.block \notin gone
  BY <1>4, TotalFacts
<1> HIDE DEF gone
<1>9. /\ data' \in BlockchainData
      /\ data'.blocksByNumber = data.blocksByNumber \ gone
      /\ data'.blocksByHash = data.blocksByHash \ gone
      /\ data'.totalDifficulty = {e \in data.totalDifficulty : e.block \notin gone}
      /\ data'.blocksByTransactions = {e \in data.blocksByTransactions : e.tx \notin TxsOf(gone)}
      /\ data'.transactionReceipts = data.transactionReceipts \ TxsOf(gone)
      /\ data'.blockReservations = R
  BY <1>1, <1>3 DEF WithoutBlocks, BlockchainData
<1>10. /\ left \in BlockchainData
       /\ left.blocksByNumber = D.blocksByNumber \ gone
       /\ left.blocksByHash = D.blocksByHash \ gone
       /\ left.totalDifficulty = {e \in D.totalDifficulty : e.block \notin gone}
       /\ left.blocksByTransactions = {e \in D.blocksByTransactions : e.tx \notin TxsOf(gone)}
       /\ left.transactionReceipts = D.transactionReceipts \ TxsOf(gone)
       /\ left.blockReservations = R
  <2>1. R \subseteq Reservation
    BY Known
  <2> HIDE DEF D, R
  <2> QED
    BY <1>3, <2>1 DEF WithoutBlocks, BlockchainData
<1> HIDE DEF left, R
<1>11. Completed(data') \in BlockchainData
  BY <1>9, CompletedTyped
<1>12. Completed(data').blocksByNumber = left.blocksByNumber
  BY <1>4, <1>9, <1>10, CompletedParts
<1>13. Completed(data').blocksByHash = left.blocksByHash
  BY <1>4, <1>9, <1>10, CompletedParts
<1>14. Completed(data').totalDifficulty = left.totalDifficulty
  BY <1>8, <1>9, <1>10, CompletedParts
<1>15. Completed(data').blocksByTransactions = left.blocksByTransactions
  BY <1>7, <1>9, <1>10, CompletedParts
<1>16. Completed(data').transactionReceipts = left.transactionReceipts
  BY <1>6, <1>9, <1>10, CompletedParts
<1>17. Completed(data').blockReservations = left.blockReservations
  BY <1>9, <1>10, CompletedParts
<1>18. Completed(data') = left
  BY <1>10, <1>11, <1>12, <1>13, <1>14, <1>15, <1>16, <1>17, SameData
<1>19. Deleting(D, Completed(data'), block)
  <2>1. gone = {b \in D.blocksByNumber : b.number > block.number /\ ~ IsReservedBlock(D, b.number)}
    <3>1. \A n : IsReservedBlock(D, n) <=> IsReservedBlock(data, n)
      BY CompletedParts DEF IsReservedBlock
    <3>2. \A b \in BeforeFork : ~ (b.number > block.number)
      BY <1>1, <1>3, RemoteFacts DEF Block
    <3> QED
      BY <3>1, <3>2, CompletedParts DEF gone
  <2>2. D.blockReservations = data.blockReservations
    BY CompletedParts
  <2>3. [WithoutBlocks(D, gone) EXCEPT !.blockReservations = {r \in @ : r.last <= block.number}] = left
    BY <2>2 DEF WithoutBlocks, left, R
  <2> HIDE DEF D
  <2> QED
    BY <1>18, <2>1, <2>3 DEF Deleting
<1> QED
  BY <1>1, <1>2, <1>5, <1>9, <1>10, <1>12, <1>19 DEF gone

LEMMA DeleteForkBlocksStep ==
    ASSUME RemoteIsAChain, ForkInv, NEW block \in data.blocksByHash, ForkDeleteLaterBlocks(block)
    PROVE  /\ ForkInv' /\ length' = block.number + 1 /\ block \in Completed(data).blocksByHash
           /\ Deleting(Completed(data), Completed(data'), block)
<1> DEFINE gone == {b \in data.blocksByNumber :
                        b.number > block.number /\ ~ IsReservedBlock(data, b.number)}
           D == Completed(data)
           E == Completed(data')
<1>1. /\ data' \in BlockchainData
      /\ Deleting(D, E, block)
      /\ data'.blocksByNumber = data.blocksByNumber \ gone
      /\ data'.totalDifficulty = {e \in data.totalDifficulty : e.block \notin gone}
      /\ transactions' = transactions \ TxsOf(gone)
      /\ E.blocksByNumber = D.blocksByNumber \ gone
      /\ \A b \in D.blocksByNumber \ gone : \A tx \in b.txs : tx \notin TxsOf(gone)
  BY DeleteCompleted
<1>2. block.number >= ForkBlockNumber /\ length' = block.number + 1
  BY DEF ForkDeleteLaterBlocks, DeleteLaterBlocks
<1>3. /\ data \in BlockchainData /\ Sound(D, length) /\ Mapped(D) /\ block \in D.blocksByHash
      /\ data.blocksByNumber \subseteq D.blocksByNumber
  BY Known, CompletedParts
<1>4. block \in Block
  BY <1>3 DEF BlockchainData
<1>5. RemoteBlocks[ForkBlockNumber] \notin gone
  BY <1>2, <1>4, RemoteFacts DEF Block
<1>6. block.number + 1 > ForkBlockNumber + 1 => RemoteBlocks[ForkBlockNumber] \in data.blocksByNumber
  <2>1. block \in D.blocksByNumber /\ block.number \in Nat /\ block.number < length
    BY <1>3, <1>4 DEF Sound, Shape, Tiled, Block
  <2>2. length \in Nat /\ ForkBlockNumber \in Nat
    BY Known, RemoteFacts
  <2> QED
    BY <2>1, <2>2 DEF ForkInv, StandsOnFork
<1> HIDE DEF D, E, gone
<1>7. Sound(E, block.number + 1) /\ Mapped(E)
  BY <1>1, <1>3, DeleteLaterBlocksStep, MapsStepDelete
<1>8. StandsOnFork(data', length')
  <2>1. length' > ForkBlockNumber
    BY <1>2, <1>4, RemoteFacts DEF Block
  <2>2. length' > ForkBlockNumber + 1 => RemoteBlocks[ForkBlockNumber] \in data'.blocksByNumber
    BY <1>1, <1>2, <1>5, <1>6
  <2>3. \A b \in data'.blocksByNumber : \E e \in data'.totalDifficulty : e.block = b
    BY <1>1 DEF ForkInv, StandsOnFork
  <2> QED
    BY <2>1, <2>2, <2>3 DEF StandsOnFork
<1>9. TxsOf(D.blocksByNumber) \ TxsOf(gone) \subseteq TxsOf(E.blocksByNumber)
  BY <1>1 DEF TxsOf
<1>10. KnowsTransactions(data', transactions')
  <2>1. /\ \A b \in data.blocksByNumber : b.txs \subseteq transactions
        /\ transactions \subseteq TxsOf(D.blocksByNumber)
    BY DEF ForkInv, KnowsTransactions, D
  <2>2. \A b \in data'.blocksByNumber : b.txs \subseteq transactions'
    BY <1>1, <1>3, <2>1
  <2>3. transactions' \subseteq TxsOf(E.blocksByNumber)
    BY <1>1, <1>9, <2>1
  <2> QED
    BY <2>2, <2>3 DEF KnowsTransactions, E
<1>11. ForkInv'
  BY <1>1, <1>2, <1>7, <1>8, <1>10, ForkInvAfter DEF E
<1> QED
  BY <1>1, <1>2, <1>3, <1>11 DEF D, E

-----------------------------------------------------------------------------
(* What each step does.                                                       *)

\* What is read from the remote node, and nothing else, happens.
Fetching ==
    \/ \E n \in 0 .. ForkBlockNumber : ProcessRemoteBlock(n)
    \/ \E tx \in Txs : GetTransaction(tx) \/ GetTransactionReceipt(tx)

LEMMA ForkSteps ==
    ASSUME RemoteIsAChain, ForkInv, ForkChainNext
    PROVE  \/ Fetching
           \/ \E n \in Nat : GetBlock(n) /\ transactions' = transactions
           \/ \E interval \in Intervals, after \in States, txs \in SUBSET Txs :
                ForkAddBlock(interval, after, txs)
           \/ \E count \in Counts, interval \in Intervals : ForkReserveBlocks(count, interval)
           \/ \E block \in data.blocksByHash : ForkDeleteLaterBlocks(block)
<1>1. \A n \in DOMAIN RemoteBlocks : n \in Nat
  BY DEF RemoteIsAChain, Block
<1>2. ForkBlockNumber \in Nat
  BY RemoteFacts
<1>3. ASSUME NEW n \in Nat, ProcessRemoteBlock(n) PROVE Fetching
  <2>1. n \in 0 .. ForkBlockNumber
    BY <1>2, <1>3 DEF ProcessRemoteBlock, IsBeforeFork
  <2> QED
    BY <1>3, <2>1 DEF Fetching
<1>4. ASSUME NEW n \in 0 .. MaxLength - 1, GetBlockByNumber(n)
      PROVE  Fetching \/ (GetBlock(n) /\ transactions' = transactions)
  <2>1. n \in Nat
    BY MaxLengthAssumption
  <2>2. CASE ProcessRemoteBlock(n)
    BY <1>3, <2>1, <2>2
  <2>3. CASE ~ ProcessRemoteBlock(n)
    BY <1>4, <2>3 DEF GetBlockByNumber
  <2> QED
    BY <2>2, <2>3
<1>5. ASSUME NEW n \in DOMAIN RemoteBlocks, GetBlockByHash(n) PROVE Fetching
  BY <1>1, <1>3, <1>5 DEF GetBlockByHash
<1>6. ASSUME NEW tx \in Txs, GetTransaction(tx) \/ GetBlockByTransactionHash(tx) \/ GetTransactionReceipt(tx)
      PROVE  Fetching
  <2>1. CASE GetBlockByTransactionHash(tx)
    <3>1. PICK n \in RemoteNumber(tx) : ProcessRemoteBlock(n)
      BY <2>1 DEF GetBlockByTransactionHash
    <3> QED
      BY <3>1, RemoteNumbers DEF Fetching
  <2>2. CASE ~ GetBlockByTransactionHash(tx)
    BY <1>6, <2>2 DEF Fetching
  <2> QED
    BY <2>1, <2>2
<1>7. 0 .. MaxLength - 1 \subseteq Nat
  BY MaxLengthAssumption
<1> QED
  BY <1>4, <1>5, <1>6, <1>7 DEF ForkChainNext

LEMMA FetchingStep ==
    ASSUME RemoteIsAChain, ForkInv, Fetching
    PROVE  ForkInv' /\ Completed(data') = Completed(data) /\ length' = length
BY FetchStep, GetTransactionStep, GetTransactionReceiptStep DEF Fetching

LEMMA ForkInvStep ==
    ASSUME RemoteIsAChain, ForkInv, [ForkChainNext]_forkChainVars
    PROVE  ForkInv'
<1>1. CASE ForkChainNext
  BY <1>1, ForkSteps, FetchingStep, GetForkBlockStep, ForkAddBlockStep, ReserveForkBlocksStep, DeleteForkBlocksStep
<1>2. CASE UNCHANGED forkChainVars
  BY <1>2 DEF forkChainVars, ForkInv
<1> QED
  BY <1>1, <1>2

-----------------------------------------------------------------------------
(* What readers see.                                                          *)

LEMMA NumberedOnce ==
    ASSUME RemoteIsAChain, ForkInv, NEW b \in data.blocksByNumber
    PROVE  Numbered(data, b.number) = {b}
<1>1. \A c \in data.blocksByNumber : c.number = b.number => c = b
  BY Known DEF Shape, Tiled
<1> QED
  BY <1>1 DEF Numbered

\* The block before a reservation has been fetched, or mined here.
LEMMA BeforeIsKept ==
    ASSUME RemoteIsAChain, ForkInv, NEW r \in data.blockReservations
    PROVE  \E before \in data.blocksByNumber : before.number = r.first - 1
<1>1. /\ r.first \in Nat /\ r.last \in Nat /\ r.first > ForkBlockNumber /\ ForkBlockNumber \in Nat
      /\ r.first <= r.last /\ r.last < length /\ length \in Nat
  BY Known, RemoteFacts DEF Reservation, Shape, Tiled
<1>2. PICK before \in Completed(data).blocksByNumber : before.number = r.first - 1
  BY Known, CompletedParts DEF Shape, Follow
<1>3. CASE before \in data.blocksByNumber
  BY <1>2, <1>3
<1>4. CASE before \notin data.blocksByNumber
  <2>1. before \in BeforeFork
    BY <1>2, <1>4, CompletedParts
  <2>2. before.number \in 0 .. ForkBlockNumber /\ before = RemoteBlocks[before.number]
    BY <2>1, RemoteFacts
  <2>3. before.number = ForkBlockNumber
    BY <1>1, <1>2, <2>2
  <2>4. RemoteBlocks[ForkBlockNumber] \in data.blocksByNumber
    BY <1>1 DEF ForkInv, StandsOnFork
  <2> QED
    BY <1>2, <2>2, <2>3, <2>4
<1> QED
  BY <1>3, <1>4

\* What a reader gets by number: a block of the completed maps, or one that can be made.
LEMMA ReadByNumber ==
    ASSUME RemoteIsAChain, ForkInv, NEW n \in 0 .. length - 1
    PROVE  /\ ~ IsReservedBlock(data, n) =>
                /\ BlockNumbered(n) \in Completed(data).blocksByNumber
                /\ BlockNumbered(n).number = n
           /\ IsReservedBlock(data, n) =>
                \E r \in data.blockReservations, before \in data.blocksByNumber :
                    /\ Reserves(r, n) /\ before.number = r.first - 1
                    /\ BlockNumbered(n) = ReservedBlock(before, r, n)
<1>1. /\ Shape(Completed(data).blocksByNumber, data.blockReservations, length)
      /\ data.blocksByNumber \subseteq Completed(data).blocksByNumber
  BY Known
<1>2. CASE IsReservedBlock(data, n)
  <2>1. PICK r \in data.blockReservations : Reserves(r, n)
    BY <1>2 DEF IsReservedBlock
  <2>2. \A s \in data.blockReservations : Reserves(s, n) => s = r
    <3> TAKE s \in data.blockReservations
    <3> HAVE Reserves(s, n)
    <3>1. s.first \in Nat /\ s.last \in Nat /\ r.first \in Nat /\ r.last \in Nat /\ n \in Nat
      BY <1>1, Known DEF Shape, TypedSets, Reservation
    <3>2. s.first <= r.last /\ r.first <= s.last
      BY <2>1, <3>1 DEF Reserves
    <3> QED
      BY <1>1, <3>2 DEF Shape, Tiled
  <2> DEFINE chosen == CHOOSE s \in data.blockReservations : Reserves(s, n)
  <2>3. chosen = r
    BY <2>1, <2>2
  <2>4. PICK before \in data.blocksByNumber : before.number = r.first - 1
    BY BeforeIsKept
  <2>5. Numbered(data, r.first - 1) = {before}
    BY <2>4, NumberedOnce
  <2>6. (CHOOSE b \in {before} : TRUE) = before
    OBVIOUS
  <2>7. Numbered(data, n) = {}
    BY <1>1, <2>1 DEF Numbered, Shape, Tiled
  <2>8. BlockNumbered(n) =
            ReservedBlock(CHOOSE b \in Numbered(data, chosen.first - 1) : TRUE, chosen, n)
    BY <1>2, <2>7 DEF BlockNumbered
  <2>9. BlockNumbered(n) = ReservedBlock(before, r, n)
    BY <2>3, <2>5, <2>6, <2>8
  <2> QED
    BY <1>2, <2>1, <2>4, <2>9
<1>3. CASE ~ IsReservedBlock(data, n)
  <2>1. PICK b \in Completed(data).blocksByNumber : b.number = n
    BY <1>1, <1>3 DEF Shape, Tiled, IsReservedBlock
  <2>2. CASE b \in data.blocksByNumber
    <3>1. Numbered(data, n) = {b}
      BY <2>1, <2>2, NumberedOnce
    <3>2. (CHOOSE c \in {b} : TRUE) = b
      OBVIOUS
    <3>3. BlockNumbered(n) = CHOOSE c \in Numbered(data, n) : TRUE
      BY <3>1 DEF BlockNumbered
    <3>4. BlockNumbered(n) = b
      BY <3>1, <3>2, <3>3
    <3> QED
      BY <1>3, <2>1, <3>4
  <2>3. CASE b \notin data.blocksByNumber
    <3>1. b \in BeforeFork /\ b = RemoteBlocks[n]
      BY <2>1, <2>3, CompletedParts, RemoteFacts
    <3>2. \A c \in data.blocksByNumber : c.number # n
      BY <1>1, <2>1, <2>3 DEF Shape, Tiled
    <3>3. Numbered(data, n) = {}
      BY <3>2 DEF Numbered
    <3>4. BlockNumbered(n) = RemoteBlocks[n]
      BY <1>3, <3>3 DEF BlockNumbered
    <3> QED
      BY <1>3, <2>1, <3>1, <3>4
  <2> QED
    BY <2>2, <2>3
<1> QED
  BY <1>2, <1>3

\* What readers see is what they would see on the completed maps.
LEMMA ForkIsSeen ==
    ASSUME RemoteIsAChain, ForkInv
    PROVE  ForkVisibleChain = SeenOf(Completed(data), length)
<1> DEFINE B == Completed(data).blocksByNumber
           R == data.blockReservations
<1>1. Shape(B, R, length) /\ length \in Nat /\ data.blocksByNumber \subseteq B
  BY Known
<1> HIDE DEF B
<1>2. ASSUME NEW n \in 0 .. length - 1 PROVE Visible(BlockNumbered(n)) = At(B, R, n)
  <2>1. CASE IsReservedBlock(data, n)
    <3>1. PICK r \in R, before \in data.blocksByNumber :
            /\ Reserves(r, n) /\ before.number = r.first - 1
            /\ BlockNumbered(n) = ReservedBlock(before, r, n)
      BY <2>1, ReadByNumber
    <3>2. before \in B /\ n \in Nat
      BY <1>1
    <3> QED
      BY <1>1, <3>1, <3>2, AtReserved
  <2>2. CASE ~ IsReservedBlock(data, n)
    <3>1. BlockNumbered(n) \in B /\ BlockNumbered(n).number = n
      BY <2>2, ReadByNumber DEF B
    <3>2. At(B, R, BlockNumbered(n).number) = Visible(BlockNumbered(n))
      BY <1>1, <3>1, AtStored DEF Shape
    <3> QED
      BY <3>1, <3>2
  <2> QED
    BY <2>1, <2>2
<1>3. \A i \in 1 .. length : i - 1 \in 0 .. length - 1
  BY <1>1
<1>4. \A i \in 1 .. length : Visible(BlockNumbered(i - 1)) = At(B, R, i - 1)
  BY <1>2, <1>3
<1>5. SeenOf(Completed(data), length) = [i \in 1 .. length |-> At(B, R, i - 1)]
  BY CompletedParts DEF SeenOf, Seen, B
<1> QED
  BY <1>4, <1>5 DEF ForkVisibleChain

LEMMA ForkSeenInit == RemoteIsAChain /\ ForkChainInit => StartsAtTheFork
<1> SUFFICES ASSUME RemoteIsAChain, ForkChainInit PROVE StartsAtTheFork
  OBVIOUS
<1>1. data = NoData /\ length = ForkBlockNumber + 1
  BY DEF ForkChainInit
<1>2. data.blocksByNumber = {} /\ data.blockReservations = {}
  BY <1>1 DEF NoData
<1>3. \A n : BlockNumbered(n) = RemoteBlocks[n]
  BY <1>2 DEF BlockNumbered, Numbered, IsReservedBlock
<1> QED
  BY <1>1, <1>3 DEF StartsAtTheFork, ForkVisibleChain

LEMMA ForkIsSeenLater ==
    RemoteIsAChain => (ForkInv' => (ForkVisibleChain = SeenOf(Completed(data), length))')
<1> SUFFICES ASSUME RemoteIsAChain
             PROVE  ForkInv' => (ForkVisibleChain = SeenOf(Completed(data), length))'
  OBVIOUS
<1>1. ForkInv => ForkVisibleChain = SeenOf(Completed(data), length)
  BY ForkIsSeen
<1> QED
  BY <1>1, PTL

LEMMA ForkSeenStep ==
    ASSUME RemoteIsAChain, ForkInv, ForkInv', [ForkChainNext]_forkChainVars
    PROVE  [ChainStep]_ForkVisibleChain
<1> DEFINE D == Completed(data)
           E == Completed(data')
           c == ForkVisibleChain
           e == ForkVisibleChain'
<1>1. c = SeenOf(D, length) /\ e = SeenOf(E, length')
  <2>1. e = SeenOf(Completed(data), length)'
    BY ForkIsSeenLater
  <2> QED
    BY <2>1, ForkIsSeen
<1>2. Sound(D, length) /\ Sound(E, length') /\ length' > ForkBlockNumber
  BY DEF ForkInv, StandsOnFork
<1> HIDE DEF D, E, c, e
<1>3. ASSUME Fetching PROVE e = c
  BY <1>1, <1>3, FetchingStep DEF D, E
<1>4. ASSUME NEW n \in Nat, GetBlock(n), transactions' = transactions PROVE e = c
  BY <1>1, <1>2, <1>4, GetForkBlockStep, SeenGet DEF D, E
<1>5. ASSUME NEW interval \in Intervals, NEW after \in States, NEW txs \in SUBSET Txs,
             ForkAddBlock(interval, after, txs)
      PROVE  ForkPromised!Next
  <2>1. Adding(D, E, length, interval, after, txs) /\ length' = length + 1
    BY <1>5, ForkAddBlockStep DEF D, E
  <2>2. Appending(c, e, interval, after, txs)
    BY <1>1, <1>2, <2>1, SeenAdd
  <2>3. e = Append(c, ForkPromised!BlockAfter(c[Len(c)], interval, after, txs))
    BY <2>2 DEF Appending, LatestOf, Promised!BlockAfter, ForkPromised!BlockAfter
  <2> QED
    BY <2>3 DEF ForkPromised!Next, ForkPromised!AddBlock, ForkPromised!Latest, c, e
<1>6. ASSUME NEW count \in Counts, NEW interval \in Intervals, ForkReserveBlocks(count, interval)
      PROVE  ForkPromised!Next
  <2>1. Reserving(D, E, length, count, interval) /\ length' = length + count
    BY <1>6, ReserveForkBlocksStep DEF D, E
  <2>2. AppendingEmpty(c, e, count, interval)
    BY <1>1, <1>2, <2>1, SeenReserve
  <2>3. e = c \o [i \in 1 .. count |-> ForkPromised!BlockAfter(c[Len(c)], i * interval, c[Len(c)].state, {})]
    BY <2>2 DEF AppendingEmpty, LatestOf, Promised!BlockAfter, ForkPromised!BlockAfter
  <2> QED
    BY <2>3 DEF ForkPromised!Next, ForkPromised!AddEmptyBlocks, ForkPromised!Latest, c, e
<1>7. ASSUME NEW block \in data.blocksByHash, ForkDeleteLaterBlocks(block)
      PROVE  ForkPromised!Next
  <2> DEFINE n == block.number + 1
  <2>1. Deleting(D, E, block) /\ length' = n /\ block \in D.blocksByHash
    BY <1>7, DeleteForkBlocksStep DEF D, E
  <2>2. Sound(E, n)
    BY <1>2, <2>1
  <2>3. n \in 1 .. Len(SeenOf(D, length)) /\ SeenOf(E, n) = SubSeq(SeenOf(D, length), 1, n)
    BY <1>2, <2>1, <2>2, SeenDelete
  <2> HIDE DEF n
  <2>4. n \in 1 .. Len(c) /\ e = SubSeq(c, 1, n)
    BY <1>1, <2>1, <2>3
  <2> QED
    BY <2>4 DEF ForkPromised!Next, ForkPromised!DeleteLaterBlocks, c, e
<1>8. CASE UNCHANGED forkChainVars
  <2>1. data' = data /\ length' = length
    BY <1>8 DEF forkChainVars
  <2>2. e = c
    BY <1>1, <2>1 DEF D, E
  <2> QED
    BY <2>2 DEF c, e
<1>9. CASE ForkChainNext
  <2>1. e = c \/ ForkPromised!Next
    BY <1>3, <1>4, <1>5, <1>6, <1>7, <1>9, ForkSteps
  <2> QED
    BY <1>2, <2>1 DEF ChainStep, c, e
<1> QED
  BY <1>8, <1>9

-----------------------------------------------------------------------------
(* What is looked up.                                                         *)

LEMMA TotalsAreTheSame ==
    ASSUME RemoteIsAChain, ForkInv, NEW n \in Nat, n >= ForkBlockNumber, n + 1 < length,
           NEW td, DifficultyAt(Completed(data), n) = {td}
    PROVE  TotalDifficultyAt(n) = {td}
<1> DEFINE D == Completed(data)
<1>1. TotalDifficultyAt(n) = DifficultyAt(data, n)
  BY DEF TotalDifficultyAt, DifficultyAt
<1>2. DifficultyAt(data, n) \subseteq DifficultyAt(D, n)
  BY CompletedParts DEF DifficultyAt
<1>3. DifficultyAt(data, n) # {}
  <2>1. CASE IsReservedBlock(data, n)
    <3>1. PICK r \in data.blockReservations : Reserves(r, n)
      BY <2>1 DEF IsReservedBlock
    <3>2. r.previousBlockTotalDifficulty \in DifficultyAt(data, n)
      BY <3>1 DEF DifficultyAt
    <3> QED
      BY <3>2
  <2>2. CASE ~ IsReservedBlock(data, n)
    <3>0. length \in Nat /\ ForkBlockNumber \in Nat /\ Shape(D.blocksByNumber, data.blockReservations, length)
      BY Known, RemoteFacts
    <3>1. PICK b \in D.blocksByNumber : b.number = n
      BY <2>2, <3>0 DEF Shape, Tiled, IsReservedBlock
    <3>2. length > ForkBlockNumber + 1
      BY <3>0
    <3>3. b \in data.blocksByNumber
      <4>1. CASE b \in BeforeFork
        <5>1. b.number \in 0 .. ForkBlockNumber /\ b = RemoteBlocks[b.number]
          BY <4>1, RemoteFacts
        <5>2. b = RemoteBlocks[ForkBlockNumber]
          BY <3>0, <3>1, <5>1
        <5> QED
          BY <3>2, <5>2 DEF ForkInv, StandsOnFork
      <4>2. CASE b \notin BeforeFork
        BY <4>2, CompletedParts
      <4> QED
        BY <4>1, <4>2
    <3>4. PICK e \in data.totalDifficulty : e.block = b
      BY <3>3 DEF ForkInv, StandsOnFork
    <3>5. e.td \in DifficultyAt(data, n)
      BY <3>1, <3>4 DEF DifficultyAt
    <3> QED
      BY <3>5
  <2> QED
    BY <2>1, <2>2
<1> QED
  BY <1>1, <1>2, <1>3

LEMMA ForkDifficulties == RemoteIsAChain /\ ForkInv => ForkDifficultiesAddUp
<1> SUFFICES ASSUME RemoteIsAChain, ForkInv PROVE ForkDifficultiesAddUp
  OBVIOUS
<1> DEFINE D == Completed(data)
<1>1. /\ Sound(D, length) /\ Mapped(D) /\ length \in Nat /\ ForkBlockNumber \in Nat
      /\ data.totalDifficulty \subseteq D.totalDifficulty
      /\ D.blockReservations = data.blockReservations
      /\ Shape(D.blocksByNumber, data.blockReservations, length)
  BY Known, RemoteFacts, CompletedParts
<1>2. /\ \A e \in D.totalDifficulty : e.block.number # 0 =>
            DifficultyAt(D, e.block.number - 1) = {e.td - e.block.difficulty}
      /\ \A r \in D.blockReservations : DifficultyAt(D, r.first - 1) = {r.previousBlockTotalDifficulty}
  BY <1>1, DifficultiesOfChain
<1>3. \A e \in D.totalDifficulty : e.block \in D.blocksByNumber
  BY <1>1 DEF Mapped, Valued
<1>4. \A b \in D.blocksByNumber : b.number \in Nat /\ b.number < length
  BY <1>1 DEF Shape, Tiled, TypedSets, Block
<1>5. ASSUME NEW e \in data.totalDifficulty, IsBeforeFork(e.block.number)
      PROVE  e.td = RemoteTotalDifficulty[e.block.number]
  <2> DEFINE n == e.block.number
  <2>1. e \in D.totalDifficulty /\ e.block \in D.blocksByNumber /\ n \in 0 .. ForkBlockNumber
    BY <1>1, <1>3, <1>4, <1>5 DEF IsBeforeFork
  <2>2. /\ \A b \in D.blocksByNumber : b.number = n => b = RemoteBlocks[n]
        /\ \A f \in D.totalDifficulty : f.block = RemoteBlocks[n] =>
             f = [block |-> RemoteBlocks[n], td |-> RemoteTotalDifficulty[n]]
    <3> HIDE DEF n
    <3>1. data \in BlockchainData
      BY Known
    <3> QED
      BY <1>1, <2>1, <3>1, SameAsRemote
  <2>3. e.block = RemoteBlocks[n]
    BY <2>1, <2>2
  <2>4. e = [block |-> RemoteBlocks[n], td |-> RemoteTotalDifficulty[n]]
    BY <2>1, <2>2, <2>3
  <2>5. [block |-> RemoteBlocks[n], td |-> RemoteTotalDifficulty[n]].td = RemoteTotalDifficulty[n]
    OBVIOUS
  <2> HIDE DEF n
  <2>6. e.td = RemoteTotalDifficulty[n]
    BY <2>4, <2>5
  <2> QED
    BY <2>6 DEF n
<1>6. ASSUME NEW e \in data.totalDifficulty, ~ IsBeforeFork(e.block.number)
      PROVE  TotalDifficultyAt(e.block.number - 1) = {e.td - e.block.difficulty}
  <2>1. /\ e \in D.totalDifficulty /\ e.block.number \in Nat /\ e.block.number < length
        /\ e.block.number > ForkBlockNumber
    BY <1>1, <1>3, <1>4, <1>6 DEF IsBeforeFork
  <2> DEFINE n == e.block.number - 1
  <2>2. n \in Nat /\ n >= ForkBlockNumber /\ n + 1 < length
    BY <1>1, <2>1
  <2>3. DifficultyAt(D, n) = {e.td - e.block.difficulty}
    BY <1>1, <1>2, <2>1
  <2> HIDE DEF n, D
  <2>4. TotalDifficultyAt(n) = {e.td - e.block.difficulty}
    BY <2>2, <2>3, TotalsAreTheSame DEF D
  <2> QED
    BY <2>4 DEF n
<1>7. ASSUME NEW r \in data.blockReservations
      PROVE  TotalDifficultyAt(r.first - 1) = {r.previousBlockTotalDifficulty}
  <2>1. r.first \in Nat /\ r.first > ForkBlockNumber /\ r.last \in Nat /\ r.last < length /\ r.first <= r.last
    BY <1>1, Known DEF Reservation, Shape, Tiled
  <2> DEFINE n == r.first - 1
  <2>2. n \in Nat /\ n >= ForkBlockNumber /\ n + 1 < length
    BY <1>1, <2>1
  <2>3. DifficultyAt(D, n) = {r.previousBlockTotalDifficulty}
    BY <1>1, <1>2
  <2> HIDE DEF n, D
  <2>4. TotalDifficultyAt(n) = {r.previousBlockTotalDifficulty}
    BY <2>2, <2>3, TotalsAreTheSame DEF D
  <2> QED
    BY <2>4 DEF n
<1> QED
  BY <1>5, <1>6, <1>7 DEF ForkDifficultiesAddUp

\* The blocks of the chain are those of the completed maps, and reserved ones without
\* transactions.
LEMMA BlocksAre ==
    ASSUME RemoteIsAChain, ForkInv
    PROVE  LET blocks == {BlocksOfChain[i] : i \in 1 .. length}
           IN  /\ Completed(data).blocksByNumber \subseteq blocks
               /\ \A b \in blocks : b \in Completed(data).blocksByNumber \/ b.txs = {}
<1> DEFINE B == Completed(data).blocksByNumber
           blocks == {BlocksOfChain[i] : i \in 1 .. length}
<1>1. length \in Nat /\ Shape(B, data.blockReservations, length)
  BY Known
<1>2. \A i \in 1 .. length : BlocksOfChain[i] = BlockNumbered(i - 1) /\ i - 1 \in 0 .. length - 1
  BY <1>1 DEF BlocksOfChain
<1>3. ASSUME NEW b \in B PROVE b \in blocks
  <2>1. b.number \in 0 .. length - 1 /\ b.number + 1 \in 1 .. length /\ (b.number + 1) - 1 = b.number
    BY <1>1 DEF Shape, Tiled, TypedSets, Block
  <2>2. ~ IsReservedBlock(data, b.number)
    BY <1>1 DEF Shape, Tiled, IsReservedBlock
  <2>3. BlockNumbered(b.number) = b
    BY <1>1, <2>1, <2>2, ReadByNumber DEF Shape, Tiled
  <2>4. BlocksOfChain[b.number + 1] = b
    BY <1>2, <2>1, <2>3
  <2> QED
    BY <2>1, <2>4
<1>4. ASSUME NEW b \in blocks PROVE b \in B \/ b.txs = {}
  <2>1. PICK i \in 1 .. length : b = BlockNumbered(i - 1)
    BY <1>2
  <2>2. i - 1 \in 0 .. length - 1
    BY <1>2
  <2> QED
    BY <2>1, <2>2, ReadByNumber DEF ReservedBlock
<1> QED
  BY <1>3, <1>4

LEMMA LookupsByHash ==
    ASSUME RemoteIsAChain, ForkInv
    PROVE  /\ \A n \in 0 .. length - 1 : IsReservedBlock(data, n) \/ IsFound(BlockNumbered(n))
           /\ \A b : IsFound(b) => b \in Completed(data).blocksByNumber
<1>1. Completed(data).blocksByHash = Completed(data).blocksByNumber
  BY Known DEF Sound
<1>2. \A n \in DOMAIN RemoteBlocks : n \in Nat
  BY DEF RemoteIsAChain, Block
<1>3. ASSUME NEW b PROVE IsFound(b) <=> b \in data.blocksByHash \/ b \in BeforeFork
  <2>1. ASSUME NEW n \in DOMAIN RemoteBlocks, b = RemoteBlocks[n], IsBeforeFork(n)
        PROVE  b \in BeforeFork
    <3>1. n \in 0 .. ForkBlockNumber
      BY <1>2, <2>1, RemoteFacts DEF IsBeforeFork
    <3> QED
      BY <2>1, <3>1 DEF BeforeFork
  <2>2. ASSUME NEW n \in 0 .. ForkBlockNumber PROVE n \in DOMAIN RemoteBlocks /\ IsBeforeFork(n)
    BY RemoteFacts DEF RemoteIsAChain, IsBeforeFork
  <2>3. b \in BeforeFork => \E n \in 0 .. ForkBlockNumber : b = RemoteBlocks[n]
    BY DEF BeforeFork
  <2> QED
    BY <2>1, <2>2, <2>3 DEF IsFound
<1>4. \A b : IsFound(b) <=> b \in Completed(data).blocksByNumber
  BY <1>1, <1>3, CompletedParts
<1> QED
  BY <1>4, ReadByNumber

LEMMA LookupsByTransaction ==
    ASSUME RemoteIsAChain, ForkInv, NEW tx \in Txs
    PROVE  LET holding == {b \in Completed(data).blocksByNumber : tx \in b.txs}
           IN  /\ BlockOf(tx) = holding
               /\ HasTransaction(tx) <=> holding # {}
               /\ HasReceipt(tx) <=> holding # {}
<1> DEFINE D == Completed(data)
           B == D.blocksByNumber
           holding == {b \in B : tx \in b.txs}
           local == {e \in data.blocksByTransactions : e.tx = tx}
           remote == {RemoteBlocks[n] : n \in RemoteNumber(tx)}
<1>1. /\ Mapped(D) /\ BeforeFork \subseteq B
      /\ D.blocksByTransactions = data.blocksByTransactions \union TransactionsOf(BeforeFork)
      /\ D.transactionReceipts = data.transactionReceipts \union TxsOf(BeforeFork)
      /\ B = data.blocksByNumber \union BeforeFork
  BY Known, CompletedParts
<1>2. remote = {b \in BeforeFork : tx \in b.txs}
  BY RemoteNumbers DEF BeforeFork
<1>3. \A e \in local : e.block \in holding
  BY <1>1 DEF Mapped, Indexed
<1>4. \A b, c \in holding : b = c
  <2> HIDE DEF B
  <2>1. \A b, c \in B : b.txs \cap c.txs # {} => b = c
    BY <1>1 DEF Mapped, Indexed, B
  <2> QED
    BY <2>1
<1>5. BlockOf(tx) = holding
  <2>1. BlockOf(tx) = IF local # {} THEN {e.block : e \in local} ELSE remote
    BY DEF BlockOf
  <2>2. CASE local # {}
    BY <1>3, <1>4, <2>1, <2>2
  <2>3. CASE local = {}
    <3>1. ASSUME NEW b \in holding PROVE b \in BeforeFork
      <4>1. [tx |-> tx, block |-> b] \in D.blocksByTransactions
        BY <1>1 DEF Mapped, Indexed
      <4>2. [tx |-> tx, block |-> b] \notin data.blocksByTransactions
        BY <2>3
      <4>3. [tx |-> tx, block |-> b] \in TransactionsOf(BeforeFork)
        BY <1>1, <4>1, <4>2
      <4>4. \A x \in TransactionsOf(BeforeFork) : x.block \in BeforeFork
        BY DEF TransactionsOf
      <4> QED
        BY <4>3, <4>4
    <3>2. remote = holding
      BY <1>1, <1>2, <3>1
    <3> QED
      BY <2>1, <2>3, <3>2
  <2> QED
    BY <2>2, <2>3
<1>6. holding # {} <=> tx \in TxsOf(B)
  BY DEF TxsOf
<1>7. RemoteNumber(tx) # {} <=> tx \in TxsOf(BeforeFork)
  BY RemoteTxs
<1>8. TxsOf(B) = TxsOf(data.blocksByNumber) \union TxsOf(BeforeFork)
  BY <1>1 DEF TxsOf
<1>9. /\ TxsOf(data.blocksByNumber) \subseteq transactions
      /\ transactions \subseteq TxsOf(B)
  BY DEF ForkInv, KnowsTransactions, TxsOf
<1>10. HasTransaction(tx) <=> tx \in TxsOf(B)
  BY <1>7, <1>8, <1>9 DEF HasTransaction
<1>11. D.transactionReceipts = TxsOf(B)
  BY <1>1 DEF Mapped, Indexed
<1>12. HasReceipt(tx) <=> tx \in TxsOf(B)
  BY <1>1, <1>7, <1>11 DEF HasReceipt
<1> QED
  BY <1>5, <1>6, <1>10, <1>12

\* The logs of one block, here and at the remote node.
LEMMA LogsOfBlock ==
    ASSUME RemoteIsAChain, ForkInv, NEW n \in 0 .. length - 1
    PROVE  /\ n <= ForkBlockNumber => RemoteBlocks[n].txs = BlockNumbered(n).txs
           /\ n > ForkBlockNumber =>
                TxsOf(Numbered(data, n)) \cap data.transactionReceipts = BlockNumbered(n).txs
           /\ BlockNumbered(n).txs \subseteq Txs
<1> DEFINE D == Completed(data)
           B == D.blocksByNumber
<1>1. /\ Shape(B, data.blockReservations, length) /\ Mapped(D) /\ length \in Nat
      /\ BeforeFork \subseteq B /\ data.blocksByNumber \subseteq B /\ ForkBlockNumber \in Nat
      /\ B = data.blocksByNumber \union BeforeFork
      /\ D.transactionReceipts = data.transactionReceipts \union TxsOf(BeforeFork)
  BY Known, RemoteFacts, CompletedParts
<1> HIDE DEF D
<1>2. CASE IsReservedBlock(data, n)
  <2>1. BlockNumbered(n).txs = {}
    BY <1>2, ReadByNumber DEF ReservedBlock
  <2>2. \A b \in B : b.number # n
    BY <1>1, <1>2 DEF Shape, Tiled, IsReservedBlock
  <2>3. n > ForkBlockNumber
    <3>1. n \in 0 .. ForkBlockNumber => RemoteBlocks[n] \in B /\ RemoteBlocks[n].number = n
      BY <1>1, RemoteFacts
    <3> QED
      BY <1>1, <2>2, <3>1
  <2>4. Numbered(data, n) = {}
    BY <1>1, <2>2 DEF Numbered
  <2>5. TxsOf(Numbered(data, n)) = {}
    BY <2>4 DEF TxsOf
  <2> QED
    BY <1>1, <2>1, <2>3, <2>5
<1>3. CASE ~ IsReservedBlock(data, n)
  <2> DEFINE b == BlockNumbered(n)
  <2>1. b \in B /\ b.number = n
    BY <1>3, ReadByNumber DEF D
  <2> HIDE DEF b
  <2>2. b.txs \subseteq Txs
    BY <1>1, <2>1 DEF Shape, TypedSets, Block
  <2>3. n <= ForkBlockNumber => RemoteBlocks[n] = b
    <3>1. n \in 0 .. ForkBlockNumber => RemoteBlocks[n] \in B /\ RemoteBlocks[n].number = n
      BY <1>1, RemoteFacts
    <3> QED
      BY <1>1, <2>1, <3>1 DEF Shape, Tiled
  <2>4. ASSUME n > ForkBlockNumber
        PROVE  TxsOf(Numbered(data, n)) \cap data.transactionReceipts = b.txs
    <3>1. b \notin BeforeFork
      BY <1>1, <2>1, <2>4, RemoteFacts
    <3>2. b \in data.blocksByNumber
      BY <1>1, <2>1, <3>1
    <3>3. Numbered(data, n) = {b}
      BY <2>1, <3>2, NumberedOnce
    <3>4. TxsOf(Numbered(data, n)) = b.txs
      BY <3>3 DEF TxsOf
    <3>5. b.txs \subseteq D.transactionReceipts
      BY <1>1, <2>1 DEF Mapped, Indexed, TxsOf
    <3>6. \A tx \in b.txs : tx \notin TxsOf(BeforeFork)
      <4> SUFFICES ASSUME NEW tx \in b.txs, tx \in TxsOf(BeforeFork) PROVE FALSE
        OBVIOUS
      <4>1. PICK c \in BeforeFork : tx \in c.txs
        BY DEF TxsOf
      <4>2. \A x, y \in B : x.txs \cap y.txs # {} => x = y
        BY <1>1 DEF Mapped, Indexed
      <4> QED
        BY <1>1, <2>1, <3>1, <4>1, <4>2
    <3> QED
      BY <1>1, <3>4, <3>5, <3>6
  <2> QED
    BY <2>2, <2>3, <2>4 DEF b
<1> QED
  BY <1>2, <1>3

LEMMA LogsOfRange ==
    ASSUME RemoteIsAChain, ForkInv, NEW from \in 0 .. length - 1, NEW to \in from .. length - 1
    PROVE  GetLogs(from, to) = [i \in 1 .. to - from + 1 |-> BlocksOfChain[from + i].txs]
<1>1. length \in Nat /\ ForkBlockNumber \in Nat /\ from \in Nat /\ to \in Nat /\ from <= to /\ to < length
  BY Known, RemoteFacts
<1>2. \A i \in 1 .. to - from + 1 : BlocksOfChain[from + i] = BlockNumbered(from + i - 1)
  BY <1>1 DEF BlocksOfChain
<1>3. ASSUME NEW m \in Int, NEW n \in 0 .. length - 1, m > ForkBlockNumber, m <= n + 1, NEW i \in 1 .. n - m + 1
      PROVE  /\ LocalLogs(m, n)[i] = BlockNumbered(m + i - 1).txs
             /\ LocalLogs(m, n)[i] \in SUBSET Txs
  <2>1. m + i - 1 \in 0 .. length - 1 /\ m + i - 1 > ForkBlockNumber
    BY <1>1, <1>3
  <2> QED
    BY <2>1, LogsOfBlock DEF LocalLogs
<1>4. ASSUME NEW m \in 0 .. length - 1, NEW n \in 0 .. length - 1, n <= ForkBlockNumber, NEW i \in 1 .. n - m + 1
      PROVE  /\ RemoteLogs(m, n)[i] = BlockNumbered(m + i - 1).txs
             /\ RemoteLogs(m, n)[i] \in SUBSET Txs
  <2>1. m + i - 1 \in 0 .. length - 1 /\ m + i - 1 <= ForkBlockNumber
    BY <1>1, <1>4
  <2> QED
    BY <2>1, LogsOfBlock DEF RemoteLogs
<1>5. CASE from > ForkBlockNumber
  <2>1. GetLogs(from, to) = LocalLogs(from, to)
    BY <1>5 DEF GetLogs
  <2>2. \A i \in 1 .. to - from + 1 : LocalLogs(from, to)[i] = BlocksOfChain[from + i].txs
    BY <1>1, <1>2, <1>3, <1>5
  <2>3. LocalLogs(from, to) = [i \in 1 .. to - from + 1 |-> LocalLogs(from, to)[i]]
    BY DEF LocalLogs
  <2> QED
    BY <2>1, <2>2, <2>3
<1>6. CASE to <= ForkBlockNumber
  <2>1. GetLogs(from, to) = RemoteLogs(from, to)
    BY <1>1, <1>6 DEF GetLogs
  <2>2. ASSUME NEW i \in 1 .. to - from + 1 PROVE RemoteLogs(from, to)[i] = BlocksOfChain[from + i].txs
    <3>1. to \in 0 .. length - 1
      BY <1>1
    <3>2. RemoteLogs(from, to)[i] = BlockNumbered(from + i - 1).txs
      BY <1>4, <1>6, <3>1
    <3> QED
      BY <1>2, <3>2
  <2>3. RemoteLogs(from, to) = [i \in 1 .. to - from + 1 |-> RemoteLogs(from, to)[i]]
    BY DEF RemoteLogs
  <2> QED
    BY <2>1, <2>2, <2>3
<1>7. CASE from <= ForkBlockNumber /\ to > ForkBlockNumber
  <2> DEFINE one == RemoteLogs(from, ForkBlockNumber)
             two == LocalLogs(ForkBlockNumber + 1, to)
             j == ForkBlockNumber - from + 1
             k == to - ForkBlockNumber
  <2>1. GetLogs(from, to) = one \o two
    BY <1>1, <1>7 DEF GetLogs
  <2>2. j \in Nat /\ k \in Nat /\ j + k = to - from + 1 /\ to - (ForkBlockNumber + 1) + 1 = k
    BY <1>1, <1>7
  <2>3. one = [i \in 1 .. j |-> one[i]] /\ \A i \in 1 .. j :
            one[i] = BlockNumbered(from + i - 1).txs /\ one[i] \in SUBSET Txs
    <3>1. one = [i \in 1 .. j |-> one[i]]
      BY DEF RemoteLogs
    <3>2. ASSUME NEW i \in 1 .. j PROVE one[i] = BlockNumbered(from + i - 1).txs /\ one[i] \in SUBSET Txs
      <4>1. ForkBlockNumber \in 0 .. length - 1 /\ ForkBlockNumber <= ForkBlockNumber
        BY <1>1, <1>7
      <4> QED
        BY <1>4, <4>1
    <3> QED
      BY <3>1, <3>2
  <2>4. two = [i \in 1 .. k |-> two[i]] /\ \A i \in 1 .. k :
            two[i] = BlockNumbered(ForkBlockNumber + i).txs /\ two[i] \in SUBSET Txs
    <3>1. two = [i \in 1 .. k |-> two[i]]
      BY <2>2 DEF LocalLogs
    <3>2. ASSUME NEW i \in 1 .. k PROVE two[i] = BlockNumbered(ForkBlockNumber + i).txs /\ two[i] \in SUBSET Txs
      <4>1. /\ ForkBlockNumber + 1 \in Int /\ to \in 0 .. length - 1 /\ ForkBlockNumber + 1 > ForkBlockNumber
            /\ ForkBlockNumber + 1 <= to + 1 /\ i \in 1 .. to - (ForkBlockNumber + 1) + 1
            /\ (ForkBlockNumber + 1) + i - 1 = ForkBlockNumber + i
        BY <1>1, <1>7, <2>2
      <4> QED
        BY <1>3, <4>1
    <3> QED
      BY <3>1, <3>2
  <2> HIDE DEF one, two, j, k
  <2>5. one \in [1 .. j -> SUBSET Txs] /\ two \in [1 .. k -> SUBSET Txs]
    BY <2>3, <2>4
  <2>6. one \o two = [i \in 1 .. j + k |-> IF i <= j THEN one[i] ELSE two[i - j]]
    <3> DEFINE TxSets == SUBSET Txs
               both == one \o two
    <3>1. one \in [1 .. j -> TxSets] /\ two \in [1 .. k -> TxSets]
      BY <2>5
    <3> HIDE DEF TxSets
    <3>2. one \in Seq(TxSets) /\ two \in Seq(TxSets) /\ Len(one) = j /\ Len(two) = k
      BY <2>2, <3>1
    <3>3. /\ both \in Seq(TxSets) /\ Len(both) = j + k
          /\ \A i \in 1 .. j + k : both[i] = IF i <= j THEN one[i] ELSE two[i - j]
      BY <3>2, ConcatProperties
    <3> HIDE DEF both
    <3>4. both = [i \in 1 .. j + k |-> both[i]]
      BY <3>3
    <3>5. both = [i \in 1 .. j + k |-> IF i <= j THEN one[i] ELSE two[i - j]]
      BY <3>3, <3>4
    <3> QED
      BY <3>5 DEF both
  <2>7. ASSUME NEW i \in 1 .. j + k
        PROVE  (IF i <= j THEN one[i] ELSE two[i - j]) = BlocksOfChain[from + i].txs
    <3>1. BlocksOfChain[from + i] = BlockNumbered(from + i - 1)
      BY <1>2, <2>2
    <3>2. CASE i <= j
      BY <2>2, <2>3, <3>1, <3>2
    <3>3. CASE ~ (i <= j)
      <4>1. i - j \in 1 .. k /\ ForkBlockNumber + (i - j) = from + i - 1
        BY <1>1, <2>2, <3>3 DEF j
      <4> QED
        BY <2>4, <3>1, <3>3, <4>1
    <3> QED
      BY <3>2, <3>3
  <2> QED
    BY <2>1, <2>2, <2>6, <2>7
<1> QED
  BY <1>1, <1>5, <1>6, <1>7

LEMMA AnswersAre == RemoteIsAChain /\ ForkInv => AnswersAreOfTheChain
<1> SUFFICES ASSUME RemoteIsAChain, ForkInv PROVE AnswersAreOfTheChain
  OBVIOUS
<1> DEFINE D == Completed(data)
           blocks == {BlocksOfChain[i] : i \in 1 .. length}
           holding(tx) == {b \in blocks : tx \in b.txs}
<1>1. /\ D.blocksByNumber \subseteq blocks
      /\ \A b \in blocks : b \in D.blocksByNumber \/ b.txs = {}
  BY BlocksAre
<1>2. \A n \in 0 .. length - 1 : IsReservedBlock(data, n) \/ IsFound(BlockNumbered(n))
  BY LookupsByHash
<1>3. \A b \in data.blocksByHash \union {RemoteBlocks[n] : n \in DOMAIN RemoteBlocks} :
        IsFound(b) => b \in blocks
  BY <1>1, LookupsByHash
<1>4. ASSUME NEW tx \in Txs
      PROVE  /\ BlockOf(tx) = holding(tx)
             /\ HasTransaction(tx) <=> holding(tx) # {}
             /\ HasReceipt(tx) <=> holding(tx) # {}
  <2>1. holding(tx) = {b \in D.blocksByNumber : tx \in b.txs}
    BY <1>1
  <2> HIDE DEF holding
  <2> QED
    BY <2>1, LookupsByTransaction
<1>5. \A e \in data.totalDifficulty : e.block \in blocks
  <2>1. \A e \in D.totalDifficulty : e.block \in D.blocksByNumber
    BY Known DEF Mapped, Valued
  <2> QED
    BY <1>1, <2>1, CompletedParts
<1>6. \A from \in 0 .. length - 1 : \A to \in from .. length - 1 :
        GetLogs(from, to) = [i \in 1 .. to - from + 1 |-> BlocksOfChain[from + i].txs]
  BY LogsOfRange
<1> QED
  BY <1>2, <1>3, <1>4, <1>5, <1>6, ForkDifficulties DEF AnswersAreOfTheChain

-----------------------------------------------------------------------------
(* Theorems.                                                                  *)

LEMMA ForkInvariance == RemoteIsAChain => (ForkChainSpec => []ForkInv)
<1> SUFFICES ASSUME RemoteIsAChain PROVE ForkChainSpec => []ForkInv
  OBVIOUS
<1>1. ForkChainInit => ForkInv
  BY ForkInvInit
<1>2. ForkInv /\ [ForkChainNext]_forkChainVars => ForkInv'
  BY ForkInvStep
<1> QED
  BY <1>1, <1>2, PTL DEF ForkChainSpec

\* The maps of a fork of any remote chain are well typed, and the fork block is never cut off.
THEOREM ForkTypeCorrect == RemoteIsAChain => (ForkChainSpec => []ForkChainTypeOK)
<1> SUFFICES ASSUME RemoteIsAChain PROVE ForkChainSpec => []ForkChainTypeOK
  OBVIOUS
<1>1. ForkInv => ForkChainTypeOK
  <2> SUFFICES ASSUME ForkInv PROVE ForkChainTypeOK
    OBVIOUS
  <2>1. data \in BlockchainData /\ length \in Nat /\ length > ForkBlockNumber
    BY Known
  <2>2. Completed(data).blocksByNumber \subseteq Block
    BY Known DEF Shape, TypedSets
  <2>3. transactions \subseteq Txs
    BY <2>2 DEF ForkInv, KnowsTransactions, TxsOf, Block
  <2> QED
    BY <2>1, <2>3 DEF ForkChainTypeOK
<1> QED
  BY <1>1, ForkInvariance, PTL

\* On every remote chain, whatever is read, mined, reserved and taken back, a fork reads as one
\* chain.
THEOREM ForkReadsAsOneChain == RemoteIsAChain => (ForkChainSpec => ImplementsForkedChain)
<1> SUFFICES ASSUME RemoteIsAChain PROVE ForkChainSpec => ImplementsForkedChain
  OBVIOUS
<1>1. ForkChainInit => StartsAtTheFork
  BY ForkSeenInit
<1>2. ForkInv /\ ForkInv' /\ [ForkChainNext]_forkChainVars => [ChainStep]_ForkVisibleChain
  BY ForkSeenStep
<1>3. ForkChainSpec => []ForkInv
  BY ForkInvariance
<1> QED
  BY <1>1, <1>2, <1>3, PTL DEF ForkChainSpec, ImplementsForkedChain

\* Every lookup of a fork, by number, hash or transaction, and every range of logs, answers
\* for that one chain.
THEOREM ForkAnswersForTheChain == RemoteIsAChain => (ForkChainSpec => []AnswersAreOfTheChain)
<1> SUFFICES ASSUME RemoteIsAChain PROVE ForkChainSpec => []AnswersAreOfTheChain
  OBVIOUS
<1>1. ForkInv => AnswersAreOfTheChain
  BY AnswersAre
<1> QED
  BY <1>1, ForkInvariance, PTL

-----------------------------------------------------------------------------
(* The state.                                                              *)

\* The hypotheses, which the instance that TLC checks satisfies.
Given == RemoteIsConsistent /\ ValuesAreValues

-----------------------------------------------------------------------------
(* The inductive invariant.  Roots made up here are 1, 2, ...; a root of the  *)
(* remote chain stands for no changes, at a block before the fork; and the    *)
(* root that was seen last, and those of the checkpoints, are of the block    *)
(* that is looked at.                                                         *)

Overlay ==
    [fields : Fields \union {Undefined}, code : Codes \union {Undefined},
     storage : [Keys -> Values \union {Undefined, Null}], storageCleared : BOOLEAN]

Overlays == [Addresses -> Overlay]

KnownRoots == DOMAIN stateRootToState

Typed ==
    /\ state \in Overlays
    /\ stateRootToState \in [KnownRoots -> Overlays]
    /\ contextOf \in [KnownRoots -> 0..ForkBlock]
    /\ contextBlockNumber \in 0..ForkBlock
    /\ contextChanged \in BOOLEAN
    /\ stateCheckpoints \in Seq(KnownRoots)

MadeUpHere == \E n \in Nat : {root \in KnownRoots : root > 0} = 1..n

RootsAreNumbers == KnownRoots \subseteq Int \ {0}

RemoteRootsKnown ==
    \A root \in KnownRoots : root < 0 =>
        /\ contextOf[root] < ForkBlock
        /\ RemoteRoots[contextOf[root]] = root
        /\ stateRootToState[root] = NoOverlay

InContext ==
    /\ stateRoot \in KnownRoots /\ contextOf[stateRoot] = contextBlockNumber
    /\ \A i \in 1..Len(stateCheckpoints) : contextOf[stateCheckpoints[i]] = contextBlockNumber

GoesOn ==
    /\ saved # Nothing => saved \in KnownRoots /\ contextOf[saved] = ForkBlock
    /\ saved = Nothing => contextBlockNumber = ForkBlock
    /\ ~ contextChanged => contextBlockNumber = ForkBlock

StateInv == Typed /\ MadeUpHere /\ RootsAreNumbers /\ RemoteRootsKnown /\ InContext /\ GoesOn

LEMMA NoOverlayType == NoOverlay \in Overlays
BY DEF NoOverlay, Overlays, Overlay

LEMMA NextRootIsNew == MadeUpHere => NextRoot \in Nat \ {0} /\ NextRoot \notin KnownRoots
<1> SUFFICES ASSUME NEW n \in Nat, {root \in KnownRoots : root > 0} = 1..n
             PROVE  NextRoot \in Nat \ {0} /\ NextRoot \notin KnownRoots
  BY DEF MadeUpHere
<1>1. Cardinality(1..n) = n
  BY FS_Interval
<1>2. NextRoot = n + 1
  BY <1>1 DEF NextRoot, KnownRoots
<1> QED
  BY <1>2

LEMMA MadeUpNext ==
    ASSUME MadeUpHere, NEW S2, S2 = KnownRoots \union {NextRoot}
    PROVE  \E n \in Nat : {root \in S2 : root > 0} = 1..n
<1>1. PICK n \in Nat : {root \in KnownRoots : root > 0} = 1..n
  BY DEF MadeUpHere
<1>2. Cardinality(1..n) = n
  BY FS_Interval
<1>3. NextRoot = n + 1
  BY <1>1, <1>2 DEF NextRoot, KnownRoots
<1>4. {root \in S2 : root > 0} = 1..(n + 1)
  BY <1>1, <1>3
<1> QED
  BY <1>4

LEMMA StateInvInit == Given /\ ForkInit => StateInv
<1> SUFFICES ASSUME Given, ForkInit PROVE StateInv
  OBVIOUS
<1>1. PICK genesisAccounts \in SUBSET Addresses, f \in Fields \ {Zero} :
        state = [a \in Addresses |->
            IF a \in genesisAccounts THEN [NoOverlay[a] EXCEPT !.fields = f, !.code = NoCode] ELSE NoOverlay[a]]
  BY DEF ForkInit
<1>2. state \in Overlays
  <2>1. \A a \in Addresses : NoOverlay[a] \in Overlay
    BY NoOverlayType DEF Overlays
  <2>2. \A a \in Addresses : [NoOverlay[a] EXCEPT !.fields = f, !.code = NoCode] \in Overlay
    BY <2>1 DEF Overlay, Given, ValuesAreValues
  <2> QED
    BY <1>1, <2>1, <2>2 DEF Overlays
<1>3. /\ stateRoot = 1 /\ stateCheckpoints = <<>>
      /\ stateRootToState = [root \in {1} |-> state] /\ contextOf = [root \in {1} |-> ForkBlock]
      /\ contextBlockNumber = ForkBlock /\ contextChanged = FALSE /\ saved = Nothing
  BY DEF ForkInit, InitialRoot
<1>4. KnownRoots = {1} /\ ForkBlock \in Nat
  BY <1>3 DEF KnownRoots, Given, RemoteIsConsistent
<1>5. Typed
  <2>1. stateCheckpoints \in Seq(KnownRoots) /\ ForkBlock \in 0..ForkBlock
    BY <1>3, <1>4, EmptySeq
  <2> QED
    BY <1>2, <1>3, <1>4, <2>1 DEF Typed
<1>6. MadeUpHere
  <2>1. {root \in KnownRoots : root > 0} = 1..1
    BY <1>4
  <2> QED
    BY <2>1 DEF MadeUpHere
<1>7. RootsAreNumbers /\ RemoteRootsKnown /\ GoesOn
  BY <1>3, <1>4 DEF RootsAreNumbers, RemoteRootsKnown, GoesOn, Nothing
<1>8. InContext
  <2>1. Len(stateCheckpoints) = 0
    BY <1>3
  <2> QED
    BY <1>3, <1>4, <2>1 DEF InContext
<1> QED
  BY <1>5, <1>6, <1>7, <1>8 DEF StateInv

-----------------------------------------------------------------------------
(* A root is given out: the one that was seen last if it stands for what is   *)
(* there now, or a new one.  The maps are the same but for that.              *)

WithGiven == WithRoot(stateRootToState, GivenRoot, state)

ContextWithGiven == WithRoot(contextOf, GivenRoot, contextBlockNumber)

KnownWithGiven == KnownRoots \union {GivenRoot}

LEMMA RootIsGiven ==
    ASSUME StateInv
    PROVE  /\ WithGiven \in [KnownWithGiven -> Overlays]
           /\ ContextWithGiven \in [KnownWithGiven -> 0..ForkBlock]
           /\ \A root \in KnownRoots :
                /\ WithGiven[root] = stateRootToState[root]
                /\ ContextWithGiven[root] = contextOf[root]
           /\ WithGiven[GivenRoot] = state /\ ContextWithGiven[GivenRoot] = contextBlockNumber
           /\ KnownWithGiven \subseteq Int \ {0}
           /\ \E n \in Nat : {root \in KnownWithGiven : root > 0} = 1..n
           /\ GivenRoot \notin KnownRoots => GivenRoot > 0
<1>1. NextRoot \in Nat \ {0} /\ NextRoot \notin KnownRoots
  BY NextRootIsNew DEF StateInv
<1>2. CASE stateRootToState[stateRoot] = state
  <2>1. GivenRoot = stateRoot /\ stateRoot \in KnownRoots /\ KnownWithGiven = KnownRoots
    BY <1>2 DEF GivenRoot, StateInv, InContext, KnownWithGiven
  <2>2. WithGiven = stateRootToState /\ ContextWithGiven = contextOf
    BY <1>2, <2>1 DEF WithGiven, ContextWithGiven, WithRoot, StateInv, Typed, InContext, KnownRoots
  <2> QED
    BY <1>2, <2>1, <2>2 DEF StateInv, Typed, InContext, RootsAreNumbers, MadeUpHere
<1>3. CASE stateRootToState[stateRoot] # state
  <2>1. GivenRoot = NextRoot /\ KnownWithGiven = KnownRoots \union {NextRoot}
    BY <1>3 DEF GivenRoot, KnownWithGiven
  <2>2. DOMAIN contextOf = KnownRoots
    BY DEF StateInv, Typed
  <2>3. /\ WithGiven = [r \in KnownWithGiven |-> IF r = NextRoot THEN state ELSE stateRootToState[r]]
        /\ ContextWithGiven = [r \in KnownWithGiven |-> IF r = NextRoot THEN contextBlockNumber ELSE contextOf[r]]
    BY <2>1, <2>2 DEF WithGiven, ContextWithGiven, WithRoot, KnownRoots
  <2>4. \E n \in Nat : {root \in KnownWithGiven : root > 0} = 1..n
    BY <2>1, MadeUpNext DEF StateInv
  <2> QED
    BY <1>1, <2>1, <2>3, <2>4 DEF StateInv, Typed, RootsAreNumbers
<1> QED
  BY <1>2, <1>3

\* A step that gives out a root, and no other.
LEMMA GivingKeepsRoots ==
    ASSUME StateInv, stateRootToState' = WithGiven, contextOf' = ContextWithGiven
    PROVE  /\ KnownRoots' = KnownWithGiven
           /\ MadeUpHere' /\ RootsAreNumbers' /\ RemoteRootsKnown'
<1>1. KnownRoots' = KnownWithGiven
  BY RootIsGiven DEF KnownRoots
<1>2. MadeUpHere' /\ RootsAreNumbers'
  BY <1>1, RootIsGiven DEF MadeUpHere, RootsAreNumbers
<1>3. RemoteRootsKnown'
  BY <1>1, RootIsGiven DEF RemoteRootsKnown, KnownWithGiven, StateInv, RootsAreNumbers
<1> QED
  BY <1>1, <1>2, <1>3

LEMMA CheckpointsPop ==
    ASSUME StateInv, stateCheckpoints # <<>>, PopCheckpoint
    PROVE  /\ stateCheckpoints' \in Seq(KnownRoots)
           /\ Len(stateCheckpoints') = Len(stateCheckpoints) - 1
           /\ \A i \in 1..Len(stateCheckpoints') :
                i \in 1..Len(stateCheckpoints) /\ stateCheckpoints'[i] = stateCheckpoints[i]
           /\ Len(stateCheckpoints) \in 1..Len(stateCheckpoints)
           /\ LatestCheckpoint \in KnownRoots /\ contextOf[LatestCheckpoint] = contextBlockNumber
<1>1. stateCheckpoints \in Seq(KnownRoots) /\ Len(stateCheckpoints) \in Nat \ {0}
  BY EmptySeq DEF StateInv, Typed
<1>2. /\ stateCheckpoints' \in Seq(KnownRoots)
      /\ Len(stateCheckpoints') = Len(stateCheckpoints) - 1
      /\ \A i \in 1..Len(stateCheckpoints') : i \in 1..Len(stateCheckpoints) /\ stateCheckpoints'[i] = stateCheckpoints[i]
  <2> DEFINE n == Len(stateCheckpoints) - 1
  <2>1. n \in Nat /\ (\A i \in 1..n : stateCheckpoints[i] \in KnownRoots) /\ stateCheckpoints' = SubSeq(stateCheckpoints, 1, n)
    BY <1>1 DEF PopCheckpoint
  <2>2. /\ SubSeq(stateCheckpoints, 1, n) \in Seq(KnownRoots)
        /\ Len(SubSeq(stateCheckpoints, 1, n)) = IF 1 <= n THEN n - 1 + 1 ELSE 0
        /\ \A i \in 1..n - 1 + 1 : SubSeq(stateCheckpoints, 1, n)[i] = stateCheckpoints[1 + i - 1]
    BY <2>1, SubSeqProperties
  <2>3. Len(SubSeq(stateCheckpoints, 1, n)) = n
    <3> HIDE DEF n
    <3>1. (IF 1 <= n THEN n - 1 + 1 ELSE 0) = n
      BY <2>1
    <3> QED
      BY <2>2, <3>1
  <2> QED
    BY <1>1, <2>1, <2>2, <2>3
<1>3. LatestCheckpoint \in KnownRoots /\ contextOf[LatestCheckpoint] = contextBlockNumber
  BY <1>1 DEF LatestCheckpoint, StateInv, InContext
<1> QED
  BY <1>1, <1>2, <1>3

\* The node looks at a block before the fork: its root is of the remote chain.
LEMMA BlockIsSet ==
    ASSUME Given, StateInv, NEW b \in 0..ForkBlock - 1, SetBlockContext(b)
    PROVE  /\ stateRoot' = RemoteRoots[b] /\ state' = NoOverlay /\ contextBlockNumber' = b /\ contextChanged' = TRUE
           /\ stateCheckpoints = <<>> /\ stateCheckpoints' = <<>> /\ saved = Nothing /\ saved' = GivenRoot
           /\ RemoteRoots[b] \in Int /\ RemoteRoots[b] < 0 /\ b \in 0..ForkBlock /\ b < ForkBlock
           /\ contextBlockNumber = ForkBlock
           /\ GivenRoot > 0 /\ GivenRoot \in Int
           /\ stateRootToState' =
                [r \in KnownWithGiven \union {RemoteRoots[b]} |-> IF r = RemoteRoots[b] THEN NoOverlay ELSE WithGiven[r]]
           /\ contextOf' =
                [r \in KnownWithGiven \union {RemoteRoots[b]} |-> IF r = RemoteRoots[b] THEN b ELSE ContextWithGiven[r]]
<1>0. ForkBlock \in Nat
  BY DEF Given, RemoteIsConsistent
<1>1. /\ stateRoot' = RemoteRoots[b] /\ state' = NoOverlay /\ contextBlockNumber' = b /\ contextChanged' = TRUE
      /\ stateCheckpoints = <<>> /\ stateCheckpoints' = <<>> /\ saved = Nothing /\ saved' = GivenRoot
      /\ stateRootToState' = WithRoot(WithGiven, RemoteRoots[b], NoOverlay)
      /\ contextOf' = WithRoot(ContextWithGiven, RemoteRoots[b], b)
  BY DEF SetBlockContext, WithGiven, ContextWithGiven
<1>2. RemoteRoots[b] \in Int /\ RemoteRoots[b] < 0 /\ b \in 0..ForkBlock /\ b < ForkBlock
  BY <1>0 DEF Given, RemoteIsConsistent
<1>3. contextBlockNumber = ForkBlock
  BY <1>1 DEF StateInv, GoesOn
<1>4. GivenRoot > 0 /\ GivenRoot \in Int
  <2>1. stateRoot > 0
    BY <1>0, <1>3 DEF StateInv, InContext, RootsAreNumbers, RemoteRootsKnown
  <2> QED
    BY <2>1, NextRootIsNew DEF GivenRoot, StateInv, RootsAreNumbers, InContext
<1>5. /\ stateRootToState' =
           [r \in KnownWithGiven \union {RemoteRoots[b]} |-> IF r = RemoteRoots[b] THEN NoOverlay ELSE WithGiven[r]]
      /\ contextOf' =
           [r \in KnownWithGiven \union {RemoteRoots[b]} |-> IF r = RemoteRoots[b] THEN b ELSE ContextWithGiven[r]]
  BY <1>1, RootIsGiven DEF WithRoot
<1> QED
  BY <1>1, <1>2, <1>3, <1>4, <1>5

LEMMA StateInvStep == Given /\ StateInv /\ [ForkNext]_forkVars => StateInv'
<1> SUFFICES ASSUME Given, StateInv, [ForkNext]_forkVars PROVE StateInv'
  OBVIOUS
<1>a. state \in Overlays /\ ForkBlock \in Nat
  BY DEF StateInv, Typed, Given, RemoteIsConsistent
<1>1. CASE UNCHANGED forkVars
  BY <1>1 DEF forkVars, StateInv, Typed, MadeUpHere, RootsAreNumbers, RemoteRootsKnown, InContext, GoesOn, KnownRoots
<1>2. ASSUME NEW a \in Addresses,
             \/ \E f \in Fields, hasCode \in BOOLEAN : PutAccount(a, f, hasCode)
             \/ \E c \in Codes : PutContractCode(a, c)
             \/ \E k \in Keys, v \in Values : PutContractStorage(a, k, v)
             \/ ClearContractStorage(a) \/ DeleteAccount(a)
      PROVE  StateInv'
  <2>1. \E local \in Overlay : Changes(a, local)
    <3>1. state[a] \in Overlay
      BY <1>a DEF Overlays
    <3>2. CASE \E f \in Fields, hasCode \in BOOLEAN : PutAccount(a, f, hasCode)
      <4>1. PICK f \in Fields, hasCode \in BOOLEAN : PutAccount(a, f, hasCode)
        BY <3>2
      <4>2. [state[a] EXCEPT !.fields = f, !.code = IF hasCode THEN @ ELSE NoCode] \in Overlay
        BY <3>1 DEF Overlay, Given, ValuesAreValues
      <4> QED
        BY <4>1, <4>2 DEF PutAccount
    <3>3. CASE \E c \in Codes : PutContractCode(a, c)
      <4>1. PICK c \in Codes : PutContractCode(a, c)
        BY <3>3
      <4>2. [state[a] EXCEPT !.code = c] \in Overlay
        BY <3>1 DEF Overlay
      <4> QED
        BY <4>1, <4>2 DEF PutContractCode
    <3>4. CASE \E k \in Keys, v \in Values : PutContractStorage(a, k, v)
      <4>1. PICK k \in Keys, v \in Values : PutContractStorage(a, k, v)
        BY <3>4
      <4>2. [state[a] EXCEPT !.storage[k] = IF v = Zero THEN Null ELSE v] \in Overlay
        BY <3>1 DEF Overlay
      <4> QED
        BY <4>1, <4>2 DEF PutContractStorage
    <3>5. CASE ClearContractStorage(a)
      <4>1. [state[a] EXCEPT !.storageCleared = TRUE, !.storage = [k \in Keys |-> Undefined]] \in Overlay
        BY <3>1 DEF Overlay
      <4> QED
        BY <3>5, <4>1 DEF ClearContractStorage
    <3>6. CASE DeleteAccount(a)
      <4>1. [fields |-> Zero, code |-> NoCode, storage |-> [k \in Keys |-> Undefined], storageCleared |-> TRUE] \in Overlay
        BY DEF Overlay, Given, ValuesAreValues
      <4> QED
        BY <3>6, <4>1 DEF DeleteAccount
    <3> QED
      BY <1>2, <3>2, <3>3, <3>4, <3>5, <3>6
  <2>2. state' \in Overlays /\ UNCHANGED <<roots, stateCheckpoints, context>>
    BY <1>a, <2>1 DEF Changes, Overlays
  <2> QED
    BY <2>2 DEF roots, context, StateInv, Typed, MadeUpHere, RootsAreNumbers, RemoteRootsKnown, InContext, GoesOn, KnownRoots
<1>3. CASE GetStateRoot \/ Checkpoint
  <2>1. /\ stateRoot' = GivenRoot /\ stateRootToState' = WithGiven /\ contextOf' = ContextWithGiven
        /\ UNCHANGED <<state, context>>
        /\ stateCheckpoints' \in {stateCheckpoints, Append(stateCheckpoints, GivenRoot)}
    BY <1>3 DEF GetStateRoot, Checkpoint, GetStateRootStep, WithGiven, ContextWithGiven
  <2>2. KnownRoots' = KnownWithGiven /\ MadeUpHere' /\ RootsAreNumbers' /\ RemoteRootsKnown'
    BY <2>1, GivingKeepsRoots
  <2>3. stateCheckpoints \in Seq(KnownRoots) /\ KnownRoots \subseteq KnownWithGiven /\ GivenRoot \in KnownWithGiven
    BY DEF StateInv, Typed, KnownWithGiven
  <2>4. stateCheckpoints \in Seq(KnownWithGiven)
    BY <2>3
  <2>5. /\ stateCheckpoints' \in Seq(KnownWithGiven)
        /\ \A i \in 1..Len(stateCheckpoints') : ContextWithGiven[stateCheckpoints'[i]] = contextBlockNumber
    <3>1. \A i \in 1..Len(stateCheckpoints) : stateCheckpoints[i] \in KnownRoots
      BY <2>3
    <3>2. CASE stateCheckpoints' = stateCheckpoints
      BY <2>4, <3>1, <3>2, RootIsGiven DEF StateInv, InContext
    <3>3. CASE stateCheckpoints' = Append(stateCheckpoints, GivenRoot)
      BY <2>3, <2>4, <3>1, <3>3, RootIsGiven DEF StateInv, InContext
    <3> QED
      BY <2>1, <3>2, <3>3
  <2>6. Typed'
    BY <2>1, <2>2, <2>5, RootIsGiven DEF StateInv, Typed, context
  <2>7. InContext'
    BY <2>1, <2>2, <2>3, <2>5, RootIsGiven DEF InContext, context
  <2>8. GoesOn'
    BY <2>1, <2>2, <2>3, RootIsGiven DEF StateInv, GoesOn, context
  <2> QED
    BY <2>2, <2>6, <2>7, <2>8 DEF StateInv
<1>4. CASE Commit
  <2>1. UNCHANGED <<state, roots, context>> /\ stateCheckpoints # <<>> /\ PopCheckpoint
    BY <1>4 DEF Commit
  <2>2. Typed'
    BY <2>1, CheckpointsPop DEF roots, context, StateInv, Typed, KnownRoots
  <2>3. InContext'
    BY <2>1, CheckpointsPop DEF roots, context, StateInv, Typed, InContext, KnownRoots
  <2> QED
    BY <2>1, <2>2, <2>3 DEF roots, context, StateInv, MadeUpHere, RootsAreNumbers, RemoteRootsKnown, GoesOn, KnownRoots
<1>5. CASE Revert
  <2>1. /\ UNCHANGED <<stateRootToState, contextOf, context>> /\ stateCheckpoints # <<>> /\ PopCheckpoint
        /\ stateRoot' = LatestCheckpoint /\ state' = stateRootToState[LatestCheckpoint]
    BY <1>5 DEF Revert, GoToRoot
  <2>2. Typed' /\ InContext'
    BY <2>1, CheckpointsPop DEF context, StateInv, Typed, InContext, KnownRoots
  <2> QED
    BY <2>1, <2>2 DEF context, StateInv, MadeUpHere, RootsAreNumbers, RemoteRootsKnown, GoesOn, KnownRoots
<1>6. ASSUME NEW root \in KnownRoots, SetStateRoot(root)
      PROVE  StateInv'
  <2>1. /\ UNCHANGED <<stateRootToState, contextOf, stateCheckpoints, context>>
        /\ stateRoot' = root /\ state' = stateRootToState[root] /\ contextOf[root] = contextBlockNumber
    BY <1>6 DEF SetStateRoot, GoToRoot
  <2> QED
    BY <2>1 DEF context, StateInv, Typed, InContext, MadeUpHere, RootsAreNumbers, RemoteRootsKnown, GoesOn, KnownRoots
<1>7. ASSUME NEW root \in KnownRoots, SetBlockContextToRoot(root)
      PROVE  StateInv'
  <2>1. /\ stateRootToState' = WithGiven /\ contextOf' = ContextWithGiven
        /\ stateRoot' = root /\ state' = stateRootToState[root] /\ contextOf[root] = ForkBlock
        /\ stateCheckpoints = <<>> /\ stateCheckpoints' = <<>> /\ UNCHANGED <<contextBlockNumber, contextChanged>>
        /\ saved = Nothing /\ saved' = GivenRoot
    BY <1>7 DEF SetBlockContextToRoot, GoToRoot, WithGiven, ContextWithGiven
  <2>2. KnownRoots' = KnownWithGiven /\ MadeUpHere' /\ RootsAreNumbers' /\ RemoteRootsKnown'
    BY <2>1, GivingKeepsRoots
  <2>3. root \in KnownWithGiven /\ GivenRoot \in KnownWithGiven /\ contextBlockNumber = ForkBlock
    BY <2>1 DEF KnownWithGiven, StateInv, GoesOn
  <2>4. Typed'
    <3>1. state' \in Overlays /\ stateCheckpoints' \in Seq(KnownWithGiven)
      BY <2>1 DEF StateInv, Typed
    <3> QED
      BY <2>1, <2>2, <3>1, RootIsGiven DEF StateInv, Typed
  <2>5. InContext' /\ GoesOn'
    <3>1. Len(stateCheckpoints') = 0
      BY <2>1
    <3> QED
      BY <2>1, <2>2, <2>3, <3>1, RootIsGiven DEF InContext, GoesOn
  <2> QED
    BY <2>2, <2>4, <2>5 DEF StateInv
<1>8. ASSUME NEW b \in 0..ForkBlock - 1, SetBlockContext(b)
      PROVE  StateInv'
  <2> DEFINE root == RemoteRoots[b]
             D2 == KnownWithGiven \union {root}
             R == stateRootToState'
             X == contextOf'
  <2>1. /\ stateRoot' = root /\ state' = NoOverlay /\ contextBlockNumber' = b /\ contextChanged' = TRUE
        /\ stateCheckpoints' = <<>> /\ saved' = GivenRoot
    BY <1>8, BlockIsSet
  <2>2. root \in Int /\ root < 0 /\ b \in 0..ForkBlock /\ b < ForkBlock
    BY <1>8, BlockIsSet
  <2>3. contextBlockNumber = ForkBlock
    BY <1>8, BlockIsSet
  <2>4. GivenRoot > 0 /\ GivenRoot \in Int
    BY <1>8, BlockIsSet
  <2>5. /\ R = [r \in D2 |-> IF r = root THEN NoOverlay ELSE WithGiven[r]]
        /\ X = [r \in D2 |-> IF r = root THEN b ELSE ContextWithGiven[r]]
    BY <1>8, BlockIsSet
  <2>6. KnownRoots' = D2
    BY <2>1, <2>5 DEF KnownRoots
  <2>7. R \in [D2 -> Overlays] /\ X \in [D2 -> 0..ForkBlock]
    BY <2>2, <2>5, RootIsGiven, NoOverlayType
  <2>8. Typed'
    <3>1. stateCheckpoints' \in Seq(KnownRoots')
      BY <2>1, EmptySeq
    <3> HIDE DEF D2, root
    <3> QED
      BY <2>1, <2>2, <2>6, <2>7, <3>1, NoOverlayType DEF Typed
  <2>9. MadeUpHere' /\ RootsAreNumbers'
    <3>1. {r \in D2 : r > 0} = {r \in KnownWithGiven : r > 0}
      BY <2>2
    <3> QED
      BY <2>2, <2>6, <3>1, RootIsGiven DEF MadeUpHere, RootsAreNumbers
  <2>10. RemoteRootsKnown'
    <3>1. ASSUME NEW r \in D2, r < 0
          PROVE  X[r] < ForkBlock /\ RemoteRoots[X[r]] = r /\ R[r] = NoOverlay
      <4>1. CASE r = root
        BY <2>2, <2>5, <4>1
      <4>2. CASE r # root
        BY <2>4, <2>5, <3>1, <4>2, RootIsGiven DEF KnownWithGiven, StateInv, RemoteRootsKnown
      <4> QED
        BY <4>1, <4>2
    <3> HIDE DEF D2, root
    <3> QED
      BY <2>1, <2>6, <3>1 DEF RemoteRootsKnown
  <2>11. InContext'
    <3>1. Len(stateCheckpoints') = 0 /\ X[root] = b /\ root \in D2
      BY <2>1, <2>5
    <3> HIDE DEF D2, root
    <3> QED
      BY <2>1, <2>6, <3>1 DEF InContext
  <2>12. GoesOn'
    <3>1. GivenRoot \in D2 /\ X[GivenRoot] = ForkBlock /\ GivenRoot # Nothing
      BY <2>2, <2>3, <2>4, <2>5, RootIsGiven DEF KnownWithGiven, Nothing
    <3> HIDE DEF D2, root
    <3> QED
      BY <2>1, <2>6, <3>1 DEF GoesOn
  <2> QED
    BY <2>8, <2>9, <2>10, <2>11, <2>12 DEF StateInv
<1>9. CASE RestoreForkBlockContext
  <2>1. /\ UNCHANGED <<stateRootToState, contextOf, stateCheckpoints>> /\ stateCheckpoints = <<>>
        /\ saved # Nothing /\ saved' = Nothing /\ contextChanged' = FALSE
        /\ stateRoot' = saved /\ state' = stateRootToState[saved]
        /\ contextBlockNumber' = IF contextChanged THEN ForkBlock ELSE contextBlockNumber
    BY <1>9 DEF RestoreForkBlockContext, GoToRoot
  <2>2. KnownRoots' = KnownRoots /\ saved \in KnownRoots /\ contextOf[saved] = ForkBlock /\ contextBlockNumber' = ForkBlock
    BY <2>1 DEF StateInv, GoesOn, KnownRoots
  <2>3. InContext'
    <3>1. Len(stateCheckpoints') = 0
      BY <2>1
    <3> QED
      BY <2>1, <2>2, <3>1 DEF InContext
  <2>4. Typed'
    BY <1>a, <2>1, <2>2 DEF StateInv, Typed
  <2>5. MadeUpHere' /\ RootsAreNumbers' /\ RemoteRootsKnown' /\ GoesOn'
    BY <2>1, <2>2 DEF StateInv, MadeUpHere, RootsAreNumbers, RemoteRootsKnown, GoesOn
  <2> QED
    BY <2>3, <2>4, <2>5 DEF StateInv
<1> QED
  BY <1>1, <1>2, <1>3, <1>4, <1>5, <1>6, <1>7, <1>8, <1>9 DEF ForkNext, KnownRoots

-----------------------------------------------------------------------------
(* What is read.                                                           *)

Accounts == AccountsOf(state, contextBlockNumber)

StateOf == [root \in KnownRoots |-> AccountsOf(stateRootToState[root], contextOf[root])]

Checkpoints ==
    [i \in DOMAIN stateCheckpoints |-> AccountsOf(stateRootToState[stateCheckpoints[i]], contextOf[stateCheckpoints[i]])]

LEMMA ReadsRemote ==
    ASSUME Given, NEW b \in 0..ForkBlock
    PROVE  AccountsOf(NoOverlay, b) = Remote[b]
<1>1. \A a \in Addresses : AccountOf(NoOverlay[a], Remote[b][a]) = Remote[b][a]
  <2> SUFFICES ASSUME NEW a \in Addresses PROVE AccountOf(NoOverlay[a], Remote[b][a]) = Remote[b][a]
    OBVIOUS
  <2>1. Remote[b][a] \in S!Account /\ Remote[b] \in [Addresses -> S!Account]
    BY DEF Given, RemoteIsConsistent
  <2>2. \A k \in Keys : Slot(NoOverlay[a], Remote[b][a], k) = Remote[b][a].storage[k]
    BY DEF Slot, NoOverlay, Undefined, Null
  <2>3. [k \in Keys |-> Slot(NoOverlay[a], Remote[b][a], k)] = Remote[b][a].storage
    BY <2>1, <2>2 DEF S!Account
  <2> QED
    BY <2>1, <2>3 DEF AccountOf, NoOverlay, S!Account
<1>2. Remote[b] \in [Addresses -> S!Account]
  BY DEF Given, RemoteIsConsistent
<1> QED
  BY <1>1, <1>2 DEF AccountsOf

LEMMA ReadsChange ==
    ASSUME StateInv, NEW a \in Addresses, NEW local, Changes(a, local)
    PROVE  /\ Accounts' = [Accounts EXCEPT ![a] = AccountOf(local, Remote[contextBlockNumber][a])]
           /\ Accounts[a] = AccountOf(state[a], Remote[contextBlockNumber][a])
           /\ Accounts \in [Addresses -> {AccountOf(state[b], Remote[contextBlockNumber][b]) : b \in Addresses}]
           /\ UNCHANGED <<StateOf, Checkpoints, saved>>
<1>1. state \in Overlays /\ state' = [state EXCEPT ![a] = local] /\ UNCHANGED <<roots, stateCheckpoints, context>>
  BY DEF Changes, StateInv, Typed
<1>2. UNCHANGED <<StateOf, Checkpoints, saved>>
  BY <1>1 DEF StateOf, Checkpoints, roots, context, KnownRoots
<1>3. Accounts' = [Accounts EXCEPT ![a] = AccountOf(local, Remote[contextBlockNumber][a])]
  BY <1>1 DEF Accounts, AccountsOf, context, Overlays
<1> QED
  BY <1>1, <1>2, <1>3 DEF Accounts, AccountsOf

\* A change of an account as it is kept is the same change of the account as it is read.
LEMMA SameAccount ==
    ASSUME NEW q, NEW r,
           DOMAIN q = {"fields", "code", "storage"}, q = [x \in DOMAIN q |-> q[x]],
           DOMAIN r = {"fields", "code", "storage"}, r = [x \in DOMAIN r |-> r[x]],
           q.fields = r.fields, q.code = r.code, q.storage = r.storage
    PROVE  q = r
OBVIOUS

LEMMA AccountIsRecord ==
    ASSUME NEW local, NEW remote
    PROVE  /\ DOMAIN AccountOf(local, remote) = {"fields", "code", "storage"}
           /\ AccountOf(local, remote) = [x \in DOMAIN AccountOf(local, remote) |-> AccountOf(local, remote)[x]]
BY DEF AccountOf

LEMMA PutIsRead ==
    ASSUME NEW local, NEW remote, NEW f, f # Undefined, NEW c,
           NEW put, put.fields = f, put.code = c,
           put.storage = local.storage, put.storageCleared = local.storageCleared,
           NEW r, r.fields = f, r.code = (IF c = Undefined THEN remote.code ELSE c),
           r.storage = AccountOf(local, remote).storage,
           DOMAIN r = {"fields", "code", "storage"}, r = [x \in DOMAIN r |-> r[x]]
    PROVE  AccountOf(put, remote) = r
<1>1. \A k \in Keys : Slot(put, remote, k) = Slot(local, remote, k)
  BY DEF Slot
<1>2. /\ AccountOf(put, remote).fields = f
      /\ AccountOf(put, remote).code = r.code
      /\ AccountOf(put, remote).storage = AccountOf(local, remote).storage
  BY <1>1 DEF AccountOf
<1> QED
  BY <1>2, AccountIsRecord, SameAccount

LEMMA CodeIsRead ==
    ASSUME Given, NEW local \in Overlay, NEW remote, NEW c \in Codes
    PROVE  AccountOf([local EXCEPT !.code = c], remote) = [AccountOf(local, remote) EXCEPT !.code = c]
<1> DEFINE put == [local EXCEPT !.code = c]
           r == [AccountOf(local, remote) EXCEPT !.code = c]
<1>1. /\ put.fields = local.fields /\ put.code = c
      /\ put.storage = local.storage /\ put.storageCleared = local.storageCleared
  BY DEF Overlay
<1>2. \A k \in Keys : Slot(put, remote, k) = Slot(local, remote, k)
  BY <1>1 DEF Slot
<1> HIDE DEF put
<1>3. /\ AccountOf(put, remote).fields = AccountOf(local, remote).fields
      /\ AccountOf(put, remote).code = c
      /\ AccountOf(put, remote).storage = AccountOf(local, remote).storage
  BY <1>1, <1>2 DEF AccountOf, Given, ValuesAreValues
<1>4. /\ r.fields = AccountOf(local, remote).fields /\ r.code = c
      /\ r.storage = AccountOf(local, remote).storage
      /\ DOMAIN r = {"fields", "code", "storage"} /\ r = [x \in DOMAIN r |-> r[x]]
  BY AccountIsRecord
<1> HIDE DEF r
<1>5. AccountOf(put, remote) = r
  BY <1>3, <1>4, AccountIsRecord, SameAccount
<1> QED
  BY <1>5 DEF put, r

LEMMA SlotIsRead ==
    ASSUME Given, NEW local \in Overlay, NEW remote, NEW j \in Keys, NEW v \in Values
    PROVE  AccountOf([local EXCEPT !.storage[j] = IF v = Zero THEN Null ELSE v], remote)
           = [AccountOf(local, remote) EXCEPT !.storage[j] = v]
<1> DEFINE put == [local EXCEPT !.storage[j] = IF v = Zero THEN Null ELSE v]
           r == [AccountOf(local, remote) EXCEPT !.storage[j] = v]
<1>1. /\ put.fields = local.fields /\ put.code = local.code
      /\ put.storage[j] = (IF v = Zero THEN Null ELSE v) /\ put.storageCleared = local.storageCleared
      /\ \A k \in Keys \ {j} : put.storage[k] = local.storage[k]
  BY DEF Overlay
<1>2. /\ Slot(put, remote, j) = v
      /\ \A k \in Keys \ {j} : Slot(put, remote, k) = Slot(local, remote, k)
  BY <1>1 DEF Slot, Given, ValuesAreValues, Undefined, Null, Zero
<1> HIDE DEF put
<1>3. /\ AccountOf(put, remote).fields = AccountOf(local, remote).fields
      /\ AccountOf(put, remote).code = AccountOf(local, remote).code
      /\ AccountOf(put, remote).storage = [AccountOf(local, remote).storage EXCEPT ![j] = v]
  BY <1>1, <1>2 DEF AccountOf
<1>4. /\ r.fields = AccountOf(local, remote).fields /\ r.code = AccountOf(local, remote).code
      /\ r.storage = [AccountOf(local, remote).storage EXCEPT ![j] = v]
      /\ DOMAIN r = {"fields", "code", "storage"} /\ r = [x \in DOMAIN r |-> r[x]]
  BY AccountIsRecord
<1> HIDE DEF r
<1>5. AccountOf(put, remote) = r
  BY <1>3, <1>4, AccountIsRecord, SameAccount
<1> QED
  BY <1>5 DEF put, r

LEMMA ClearIsRead ==
    ASSUME NEW local \in Overlay, NEW remote
    PROVE  AccountOf([local EXCEPT !.storageCleared = TRUE, !.storage = [k \in Keys |-> Undefined]], remote)
           = [AccountOf(local, remote) EXCEPT !.storage = S!Empty.storage]
<1> DEFINE put == [local EXCEPT !.storageCleared = TRUE, !.storage = [k \in Keys |-> Undefined]]
           r == [AccountOf(local, remote) EXCEPT !.storage = S!Empty.storage]
<1>1. /\ put.fields = local.fields /\ put.code = local.code
      /\ put.storage = [k \in Keys |-> Undefined] /\ put.storageCleared = TRUE
  BY DEF Overlay
<1>2. \A k \in Keys : Slot(put, remote, k) = Zero
  BY <1>1 DEF Slot, Undefined, Null
<1> HIDE DEF put
<1>3. /\ AccountOf(put, remote).fields = AccountOf(local, remote).fields
      /\ AccountOf(put, remote).code = AccountOf(local, remote).code
      /\ AccountOf(put, remote).storage = [k \in Keys |-> Zero]
  BY <1>1, <1>2 DEF AccountOf
<1>4. /\ r.fields = AccountOf(local, remote).fields /\ r.code = AccountOf(local, remote).code
      /\ r.storage = [k \in Keys |-> Zero]
      /\ DOMAIN r = {"fields", "code", "storage"} /\ r = [x \in DOMAIN r |-> r[x]]
  BY AccountIsRecord DEF S!Empty, S!Zero, Zero
<1> HIDE DEF r
<1>5. AccountOf(put, remote) = r
  BY <1>3, <1>4, AccountIsRecord, SameAccount
<1> QED
  BY <1>5 DEF put, r

LEMMA DeleteIsRead ==
    ASSUME NEW remote
    PROVE  AccountOf([fields |-> Zero, code |-> NoCode, storage |-> [k \in Keys |-> Undefined], storageCleared |-> TRUE], remote)
           = S!Empty
BY DEF AccountOf, Slot, S!Empty, Zero, S!Zero, NoCode, S!NoCode, Undefined, Null

LEMMA AccountsAreChanged ==
    ASSUME Given, StateInv, NEW a \in Addresses
    PROVE  /\ \A f \in Fields, hasCode \in BOOLEAN : PutAccount(a, f, hasCode) => S!PutAccount(a, f, hasCode)
           /\ \A c \in Codes : PutContractCode(a, c) => S!PutContractCode(a, c)
           /\ \A k \in Keys, v \in Values : PutContractStorage(a, k, v) => S!PutContractStorage(a, k, v)
           /\ ClearContractStorage(a) => S!ClearContractStorage(a)
           /\ DeleteAccount(a) => S!DeleteAccount(a)
<1> DEFINE account == AccountOf(state[a], Remote[contextBlockNumber][a])
<1>0. state[a] \in Overlay
  BY DEF StateInv, Typed, Overlays
<1>a. ASSUME NEW local, Changes(a, local)
      PROVE  /\ Accounts' = [Accounts EXCEPT ![a] = AccountOf(local, Remote[contextBlockNumber][a])]
             /\ Accounts[a] = account
             /\ Accounts = [b \in Addresses |-> Accounts[b]]
             /\ UNCHANGED <<StateOf, Checkpoints, saved>>
  BY <1>a, ReadsChange
<1> HIDE DEF account
<1>1. ASSUME NEW f \in Fields, NEW hasCode \in BOOLEAN, PutAccount(a, f, hasCode)
      PROVE  S!PutAccount(a, f, hasCode)
  <2> DEFINE c == IF hasCode THEN state[a].code ELSE NoCode
             d == IF hasCode THEN Accounts[a].code ELSE NoCode
  <2>1. Changes(a, [state[a] EXCEPT !.fields = f, !.code = c])
    BY <1>1 DEF PutAccount
  <2>2. /\ Accounts' = [Accounts EXCEPT ![a] = AccountOf([state[a] EXCEPT !.fields = f, !.code = c], Remote[contextBlockNumber][a])]
        /\ Accounts[a] = account
    BY <1>a, <2>1
  <2>a. d = IF c = Undefined THEN Remote[contextBlockNumber][a].code ELSE c
    <3>1. CASE hasCode
      BY <2>2, <3>1 DEF account, AccountOf
    <3>2. CASE ~ hasCode
      BY <3>2 DEF NoCode, Undefined
    <3> QED
      BY <3>1, <3>2
  <2> HIDE DEF c, d
  <2> DEFINE put == [state[a] EXCEPT !.fields = f, !.code = c]
             r == [account EXCEPT !.fields = f, !.code = d]
  <2>b. /\ put.fields = f /\ put.code = c
        /\ put.storage = state[a].storage /\ put.storageCleared = state[a].storageCleared
    BY <1>0 DEF Overlay
  <2>c. /\ r.fields = f /\ r.code = d /\ r.storage = account.storage
        /\ DOMAIN r = {"fields", "code", "storage"} /\ r = [x \in DOMAIN r |-> r[x]]
    BY AccountIsRecord DEF account
  <2> HIDE DEF put, r
  <2>d. AccountOf(put, Remote[contextBlockNumber][a]) = r
    <3>1. f # Undefined
      BY DEF Given, ValuesAreValues
    <3> QED
      BY <2>a, <2>b, <2>c, <3>1, PutIsRead DEF account
  <2>3. Accounts' = [Accounts EXCEPT ![a] = [Accounts[a] EXCEPT !.fields = f, !.code = d]]
    BY <2>2, <2>d DEF put, r
  <2>4. Accounts' = [Accounts EXCEPT ![a].fields = f, ![a].code = d]
    BY <1>a, <2>1, <2>3
  <2> QED
    BY <1>a, <2>1, <2>4 DEF d, S!PutAccount, Accounts, StateOf, Checkpoints, KnownRoots, S!NoCode, NoCode
<1>2. ASSUME NEW c \in Codes, PutContractCode(a, c)
      PROVE  S!PutContractCode(a, c)
  <2>1. Changes(a, [state[a] EXCEPT !.code = c])
    BY <1>2 DEF PutContractCode
  <2>2. Accounts' = [Accounts EXCEPT ![a] = [Accounts[a] EXCEPT !.code = c]]
    <3>1. AccountOf([state[a] EXCEPT !.code = c], Remote[contextBlockNumber][a]) = [account EXCEPT !.code = c]
      BY <1>0, CodeIsRead DEF account
    <3>2. /\ Accounts' = [Accounts EXCEPT ![a] = AccountOf([state[a] EXCEPT !.code = c], Remote[contextBlockNumber][a])]
          /\ Accounts[a] = account
      BY <1>a, <2>1
    <3> QED
      BY <3>1, <3>2
  <2>3. Accounts' = [Accounts EXCEPT ![a].code = c]
    BY <1>a, <2>1, <2>2
  <2> QED
    BY <1>a, <2>1, <2>3 DEF S!PutContractCode, Accounts, StateOf, Checkpoints, KnownRoots
<1>3. ASSUME NEW k \in Keys, NEW v \in Values, PutContractStorage(a, k, v)
      PROVE  S!PutContractStorage(a, k, v)
  <2>1. Changes(a, [state[a] EXCEPT !.storage[k] = IF v = Zero THEN Null ELSE v])
    BY <1>3 DEF PutContractStorage
  <2>2. Accounts' = [Accounts EXCEPT ![a] = [Accounts[a] EXCEPT !.storage[k] = v]]
    <3>1. AccountOf([state[a] EXCEPT !.storage[k] = IF v = Zero THEN Null ELSE v], Remote[contextBlockNumber][a]) = [account EXCEPT !.storage[k] = v]
      BY <1>0, SlotIsRead DEF account
    <3>2. /\ Accounts' = [Accounts EXCEPT ![a] = AccountOf([state[a] EXCEPT !.storage[k] = IF v = Zero THEN Null ELSE v], Remote[contextBlockNumber][a])]
          /\ Accounts[a] = account
      BY <1>a, <2>1
    <3> QED
      BY <3>1, <3>2
  <2>3. Accounts' = [Accounts EXCEPT ![a].storage[k] = v]
    BY <1>a, <2>1, <2>2
  <2> QED
    BY <1>a, <2>1, <2>3 DEF S!PutContractStorage, Accounts, StateOf, Checkpoints, KnownRoots
<1>4. ASSUME ClearContractStorage(a)
      PROVE  S!ClearContractStorage(a)
  <2>1. Changes(a, [state[a] EXCEPT !.storageCleared = TRUE, !.storage = [k \in Keys |-> Undefined]])
    BY <1>4 DEF ClearContractStorage
  <2>2. Accounts' = [Accounts EXCEPT ![a] = [Accounts[a] EXCEPT !.storage = S!Empty.storage]]
    <3>1. AccountOf([state[a] EXCEPT !.storageCleared = TRUE, !.storage = [k \in Keys |-> Undefined]], Remote[contextBlockNumber][a]) = [account EXCEPT !.storage = S!Empty.storage]
      BY <1>0, ClearIsRead DEF account
    <3>2. /\ Accounts' = [Accounts EXCEPT ![a] = AccountOf([state[a] EXCEPT !.storageCleared = TRUE, !.storage = [k \in Keys |-> Undefined]], Remote[contextBlockNumber][a])]
          /\ Accounts[a] = account
      BY <1>a, <2>1
    <3> QED
      BY <3>1, <3>2
  <2>3. Accounts' = [Accounts EXCEPT ![a].storage = S!Empty.storage]
    BY <1>a, <2>1, <2>2
  <2> QED
    BY <1>a, <2>1, <2>3 DEF S!ClearContractStorage, Accounts, StateOf, Checkpoints, KnownRoots
<1>5. ASSUME DeleteAccount(a)
      PROVE  S!DeleteAccount(a)
  <2>1. Changes(a, [fields |-> Zero, code |-> NoCode, storage |-> [k \in Keys |-> Undefined], storageCleared |-> TRUE])
    BY <1>5 DEF DeleteAccount
  <2>2. Accounts' = [Accounts EXCEPT ![a] = S!Empty]
    BY <1>a, <2>1, DeleteIsRead
  <2> QED
    BY <1>a, <2>1, <2>2 DEF S!DeleteAccount, Accounts, StateOf, Checkpoints, KnownRoots
<1> QED
  BY <1>1, <1>2, <1>3, <1>4, <1>5

LEMMA RootIsTaken ==
    ASSUME StateInv, stateRootToState' = WithGiven, contextOf' = ContextWithGiven
    PROVE  /\ KnownRoots \subseteq KnownRoots' /\ GivenRoot \in KnownRoots'
           /\ \A root \in KnownRoots : StateOf'[root] = StateOf[root]
           /\ \A root \in KnownRoots' \ KnownRoots : StateOf'[root] = Accounts
           /\ StateOf'[GivenRoot] = Accounts
<1>1. KnownRoots' = KnownWithGiven
  BY GivingKeepsRoots
<1>2. \A root \in KnownRoots' : StateOf'[root] = AccountsOf(WithGiven[root], ContextWithGiven[root])
  BY DEF StateOf
<1>3. StateOf'[GivenRoot] = Accounts
  BY <1>1, <1>2, RootIsGiven DEF KnownWithGiven, Accounts
<1>4. \A root \in KnownRoots : StateOf'[root] = StateOf[root]
  BY <1>1, <1>2, RootIsGiven DEF KnownWithGiven, StateOf
<1> QED
  BY <1>1, <1>3, <1>4 DEF KnownWithGiven

LEMMA GivesOutRoot ==
    ASSUME StateInv, stateRootToState' = WithGiven, contextOf' = ContextWithGiven
    PROVE  S!GivesOut({Accounts})
<1>1. DOMAIN StateOf = KnownRoots /\ DOMAIN StateOf' = KnownRoots'
  BY DEF StateOf
<1>2. /\ \A root \in DOMAIN StateOf : root \in DOMAIN StateOf' /\ StateOf'[root] = StateOf[root]
      /\ \A root \in DOMAIN StateOf' \ DOMAIN StateOf : StateOf'[root] \in {Accounts}
  BY <1>1, RootIsTaken
<1> QED
  BY <1>2 DEF S!GivesOut, StateOf, KnownRoots

\* What the members of a sequence stand for: without the last, and with one more.
LEMMA MappedSequence ==
    ASSUME NEW D, NEW V, NEW h \in [D -> V], NEW s \in Seq(D), NEW c, c = [i \in DOMAIN s |-> h[s[i]]]
    PROVE  /\ c \in Seq(V) /\ Len(c) = Len(s) /\ Len(s) \in Nat
           /\ c = <<>> <=> s = <<>>
           /\ \A i \in 1..Len(s) : s[i] \in D /\ c[i] = h[s[i]]
<1>1. DOMAIN s = 1..Len(s) /\ Len(s) \in Nat /\ \A i \in 1..Len(s) : s[i] \in D
  BY LenProperties, ElementOfSeq
<1>2. c \in [1..Len(s) -> V] /\ \A i \in 1..Len(s) : c[i] = h[s[i]]
  BY <1>1
<1>3. c \in Seq(V) /\ Len(c) = Len(s)
  BY <1>1, <1>2
<1>4. c = <<>> <=> s = <<>>
  BY <1>1, <1>3, EmptySeq
<1> QED
  BY <1>1, <1>2, <1>3, <1>4

LEMMA Front ==
    ASSUME NEW D, NEW s, NEW n \in Nat, \A i \in 1..n : s[i] \in D
    PROVE  /\ SubSeq(s, 1, n) \in Seq(D) /\ Len(SubSeq(s, 1, n)) = n
           /\ \A i \in 1..n : SubSeq(s, 1, n)[i] = s[i]
<1>1. (IF 1 <= n THEN n - 1 + 1 ELSE 0) = n /\ n - 1 + 1 = n /\ 1 \in Int /\ n \in Int /\ (\A i \in 1..n : 1 + i - 1 = i)
  OBVIOUS
<1>2. /\ SubSeq(s, 1, n) \in Seq(D)
      /\ Len(SubSeq(s, 1, n)) = IF 1 <= n THEN n - 1 + 1 ELSE 0
      /\ \A i \in 1..n - 1 + 1 : SubSeq(s, 1, n)[i] = s[1 + i - 1]
  BY <1>1, SubSeqProperties
<1> QED
  BY <1>1, <1>2

LEMMA MappedFront ==
    ASSUME NEW D, NEW V, NEW h \in [D -> V], NEW s \in Seq(D), s # <<>>,
           NEW c, c = [i \in DOMAIN s |-> h[s[i]]],
           NEW t, t = SubSeq(s, 1, Len(s) - 1)
    PROVE  [i \in DOMAIN t |-> h[t[i]]] = SubSeq(c, 1, Len(c) - 1)
<1>1. /\ c \in Seq(V) /\ Len(c) = Len(s) /\ Len(s) \in Nat \ {0}
      /\ \A i \in 1..Len(s) : s[i] \in D /\ c[i] = h[s[i]]
  BY MappedSequence, EmptySeq
<1> DEFINE n == Len(s) - 1
<1>2. n \in Nat /\ n = Len(s) - 1
  BY <1>1
<1> HIDE DEF n
<1>3. \A i \in 1..n : s[i] \in D /\ c[i] \in V /\ c[i] = h[s[i]]
  BY <1>1, <1>2, ElementOfSeq
<1>4. /\ SubSeq(s, 1, n) \in Seq(D) /\ SubSeq(c, 1, n) \in Seq(V)
      /\ Len(SubSeq(s, 1, n)) = n /\ Len(SubSeq(c, 1, n)) = n
      /\ \A i \in 1..n : SubSeq(s, 1, n)[i] = s[i] /\ SubSeq(c, 1, n)[i] = c[i]
  BY <1>2, <1>3, Front
<1>5. t = SubSeq(s, 1, n) /\ SubSeq(c, 1, Len(c) - 1) = SubSeq(c, 1, n)
  BY <1>1, <1>2
<1> DEFINE u == [i \in DOMAIN t |-> h[t[i]]]
<1>6. /\ u \in Seq(V) /\ Len(u) = n
      /\ \A i \in 1..n : t[i] \in D /\ u[i] = h[t[i]]
  BY <1>4, <1>5, MappedSequence
<1>7. \A i \in 1..n : u[i] = SubSeq(c, 1, n)[i]
  BY <1>3, <1>4, <1>5, <1>6
<1> HIDE DEF u
<1>8. u = SubSeq(c, 1, n)
  BY <1>4, <1>6, <1>7, SeqEqual
<1> QED
  BY <1>5, <1>8 DEF u

LEMMA MappedAppend ==
    ASSUME NEW D, NEW V, NEW h \in [D -> V], NEW s \in Seq(D), NEW k \in D,
           NEW c, c = [i \in DOMAIN s |-> h[s[i]]],
           NEW t, t = Append(s, k)
    PROVE  [i \in DOMAIN t |-> h[t[i]]] = Append(c, h[k])
<1>1. /\ c \in Seq(V) /\ Len(c) = Len(s) /\ Len(s) \in Nat
      /\ \A i \in 1..Len(s) : s[i] \in D /\ c[i] = h[s[i]]
  BY MappedSequence
<1>2. /\ t \in Seq(D) /\ Len(t) = Len(s) + 1 /\ t[Len(s) + 1] = k
      /\ \A i \in 1..Len(s) : t[i] = s[i]
  BY <1>1
<1>3. /\ Append(c, h[k]) \in Seq(V) /\ Len(Append(c, h[k])) = Len(s) + 1
      /\ Append(c, h[k])[Len(s) + 1] = h[k]
      /\ \A i \in 1..Len(s) : Append(c, h[k])[i] = c[i]
  BY <1>1
<1> DEFINE u == [i \in DOMAIN t |-> h[t[i]]]
           w == Append(c, h[k])
<1>4. /\ u \in Seq(V) /\ Len(u) = Len(s) + 1
      /\ \A i \in 1..Len(s) + 1 : u[i] = h[t[i]]
  BY <1>2, MappedSequence
<1> HIDE DEF u, w
<1>5. \A i \in 1..Len(s) + 1 : u[i] = w[i]
  BY <1>1, <1>2, <1>3, <1>4 DEF w
<1>6. u = w
  BY <1>3, <1>4, <1>5, SeqEqual DEF w
<1> QED
  BY <1>6 DEF u, w

LEMMA CheckpointsAreMapped ==
    ASSUME NEW D, NEW s \in Seq(D), NEW map, NEW ctx
    PROVE  [i \in DOMAIN s |-> AccountsOf(map[s[i]], ctx[s[i]])]
           = [i \in DOMAIN s |-> [root \in D |-> AccountsOf(map[root], ctx[root])][s[i]]]
<1>1. \A i \in DOMAIN s : s[i] \in D
  BY LenProperties, ElementOfSeq
<1> QED
  BY <1>1

Reads == [KnownRoots -> {StateOf[root] : root \in KnownRoots}]

LEMMA CheckpointsRead ==
    ASSUME StateInv
    PROVE  /\ StateOf \in Reads /\ stateCheckpoints \in Seq(KnownRoots)
           /\ Checkpoints = [i \in DOMAIN stateCheckpoints |-> StateOf[stateCheckpoints[i]]]
           /\ Checkpoints = <<>> <=> stateCheckpoints = <<>>
<1>1. StateOf \in Reads /\ stateCheckpoints \in Seq(KnownRoots)
  BY DEF StateOf, Reads, StateInv, Typed
<1>2. Checkpoints = [i \in DOMAIN stateCheckpoints |-> StateOf[stateCheckpoints[i]]]
  BY <1>1, CheckpointsAreMapped DEF Checkpoints, StateOf
<1> QED
  BY <1>1, <1>2, MappedSequence DEF Reads

\* The accounts, the meaning of the roots, and the checkpoints, as StateManager names them.
LEMMA RootsAreTaken ==
    ASSUME StateInv
    PROVE  (GetStateRoot => S!GetStateRoot) /\ (Checkpoint => S!Checkpoint)
<1> SUFFICES ASSUME GetStateRoot \/ Checkpoint
             PROVE  (GetStateRoot => S!GetStateRoot) /\ (Checkpoint => S!Checkpoint)
  OBVIOUS
<1>1. stateRootToState' = WithGiven /\ contextOf' = ContextWithGiven /\ UNCHANGED <<state, contextBlockNumber, saved>>
  BY DEF GetStateRoot, Checkpoint, GetStateRootStep, WithGiven, ContextWithGiven, context
<1>2. S!GivesOut({Accounts}) /\ UNCHANGED <<Accounts, saved>>
  BY <1>1, GivesOutRoot DEF Accounts
<1>3. /\ stateCheckpoints \in Seq(KnownRoots) /\ stateCheckpoints \in Seq(KnownRoots')
      /\ KnownRoots \subseteq KnownRoots' /\ GivenRoot \in KnownRoots'
      /\ \A i \in DOMAIN stateCheckpoints : stateCheckpoints[i] \in KnownRoots
  <2>1. KnownRoots \subseteq KnownRoots' /\ GivenRoot \in KnownRoots' /\ stateCheckpoints \in Seq(KnownRoots)
    BY <1>1, RootIsTaken, CheckpointsRead
  <2> QED
    BY <2>1, LenProperties, ElementOfSeq, SeqMonotonic
<1> DEFINE h == [root \in KnownRoots' |-> StateOf'[root]]
           V == {StateOf'[root] : root \in KnownRoots'}
<1>4. h \in [KnownRoots' -> V] /\ h = StateOf' /\ h[GivenRoot] = Accounts
  BY <1>1, <1>3, RootIsTaken DEF StateOf
<1>5. Checkpoints = [i \in DOMAIN stateCheckpoints |-> h[stateCheckpoints[i]]]
  BY <1>1, <1>3, <1>4, RootIsTaken, CheckpointsRead
<1> HIDE DEF h, V
<1>6. ASSUME stateCheckpoints' \in Seq(KnownRoots')
      PROVE  Checkpoints' = [i \in DOMAIN stateCheckpoints' |-> h[stateCheckpoints'[i]]]
  BY <1>4, <1>6, CheckpointsAreMapped DEF Checkpoints, StateOf
<1>7. ASSUME GetStateRoot PROVE S!GetStateRoot
  <2>1. Checkpoints' = Checkpoints
    BY <1>3, <1>5, <1>6, <1>7 DEF GetStateRoot
  <2> QED
    BY <1>2, <2>1 DEF S!GetStateRoot, Accounts, Checkpoints
<1>8. ASSUME Checkpoint PROVE S!Checkpoint
  <2>1. stateCheckpoints' = Append(stateCheckpoints, GivenRoot) /\ stateCheckpoints' \in Seq(KnownRoots')
    BY <1>3, <1>8 DEF Checkpoint
  <2>2. Checkpoints' = Append(Checkpoints, Accounts)
    BY <1>3, <1>4, <1>5, <1>6, <2>1, MappedAppend
  <2> QED
    BY <1>2, <2>2 DEF S!Checkpoint, Accounts, Checkpoints
<1> QED
  BY <1>7, <1>8

LEMMA CheckpointsEnd ==
    ASSUME StateInv
    PROVE  (Commit => S!Commit) /\ (Revert => S!Revert)
<1> SUFFICES ASSUME Commit \/ Revert
             PROVE  (Commit => S!Commit) /\ (Revert => S!Revert)
  OBVIOUS
<1>1. /\ UNCHANGED <<stateRootToState, contextOf, saved, contextBlockNumber>>
      /\ stateCheckpoints # <<>> /\ PopCheckpoint
  BY DEF Commit, Revert, roots, context
<1>2. UNCHANGED <<StateOf, KnownRoots, saved>>
  BY <1>1 DEF StateOf, KnownRoots
<1>3. /\ StateOf \in [KnownRoots -> {StateOf[root] : root \in KnownRoots}] /\ stateCheckpoints \in Seq(KnownRoots)
      /\ Checkpoints = [i \in DOMAIN stateCheckpoints |-> StateOf[stateCheckpoints[i]]]
      /\ Checkpoints # <<>>
  BY <1>1, CheckpointsRead DEF Reads
<1>4. stateCheckpoints' = SubSeq(stateCheckpoints, 1, Len(stateCheckpoints) - 1) /\ stateCheckpoints' \in Seq(KnownRoots)
  BY <1>1, CheckpointsPop DEF PopCheckpoint
<1>5. Checkpoints' = [i \in DOMAIN stateCheckpoints' |-> StateOf[stateCheckpoints'[i]]]
  BY <1>1, <1>4, CheckpointsAreMapped DEF Checkpoints, StateOf
<1>6. Checkpoints' = SubSeq(Checkpoints, 1, Len(Checkpoints) - 1)
  BY <1>1, <1>3, <1>4, <1>5, MappedFront
<1>7. ASSUME Commit PROVE S!Commit
  <2>1. Accounts' = Accounts
    BY <1>1, <1>7 DEF Commit, Accounts
  <2> QED
    BY <1>2, <1>3, <1>6, <2>1 DEF S!Commit, Accounts, StateOf, Checkpoints, KnownRoots
<1>8. ASSUME Revert PROVE S!Revert
  <2>1. Accounts' = AccountsOf(stateRootToState[LatestCheckpoint], contextBlockNumber)
    BY <1>1, <1>8 DEF Revert, GoToRoot, Accounts
  <2>2. LatestCheckpoint \in KnownRoots /\ contextOf[LatestCheckpoint] = contextBlockNumber /\ Len(stateCheckpoints) \in 1..Len(stateCheckpoints)
    BY <1>1, CheckpointsPop
  <2>3. Len(Checkpoints) = Len(stateCheckpoints) /\ Checkpoints[Len(stateCheckpoints)] = StateOf[LatestCheckpoint]
    BY <1>3, <2>2, MappedSequence DEF LatestCheckpoint
  <2>4. Accounts' = Checkpoints[Len(Checkpoints)]
    BY <2>1, <2>2, <2>3 DEF StateOf
  <2> QED
    BY <1>2, <1>3, <1>6, <2>4 DEF S!Revert, Accounts, StateOf, Checkpoints, KnownRoots
<1> QED
  BY <1>7, <1>8

LEMMA RootsAreLookedAt ==
    ASSUME StateInv, NEW root \in KnownRoots
    PROVE  (SetStateRoot(root) => S!SetStateRoot(root)) /\ (SetBlockContextToRoot(root) => S!LookAtRoot(root))
<1>1. ASSUME SetStateRoot(root) PROVE S!SetStateRoot(root)
  <2>1. Accounts' = StateOf[root]
    BY <1>1 DEF SetStateRoot, GoToRoot, Accounts, StateOf, context
  <2>2. UNCHANGED <<StateOf, Checkpoints, saved>>
    BY <1>1 DEF SetStateRoot, StateOf, Checkpoints, context, KnownRoots
  <2> QED
    BY <2>1, <2>2 DEF S!SetStateRoot, Accounts, StateOf, Checkpoints, KnownRoots
<1>2. ASSUME SetBlockContextToRoot(root) PROVE S!LookAtRoot(root)
  <2>1. /\ stateRootToState' = WithGiven /\ contextOf' = ContextWithGiven
        /\ state' = stateRootToState[root] /\ contextOf[root] = ForkBlock
        /\ stateCheckpoints = <<>> /\ stateCheckpoints' = <<>> /\ UNCHANGED contextBlockNumber
        /\ saved = Nothing /\ saved' = GivenRoot
    BY <1>2 DEF SetBlockContextToRoot, GoToRoot, WithGiven, ContextWithGiven
  <2>2. Accounts' = StateOf[root]
    BY <2>1 DEF Accounts, StateOf, StateInv, GoesOn
  <2>3. Checkpoints = <<>> /\ Checkpoints' = Checkpoints
    BY <2>1, CheckpointsRead DEF Checkpoints
  <2>4. /\ \A r \in DOMAIN StateOf : r \in DOMAIN StateOf' /\ StateOf'[r] = StateOf[r]
        /\ \A r \in DOMAIN StateOf' \ DOMAIN StateOf : StateOf'[r] \in {Accounts, StateOf[root]}
        /\ saved' \in DOMAIN StateOf' /\ StateOf'[saved'] = Accounts
    <3>1. DOMAIN StateOf = KnownRoots /\ DOMAIN StateOf' = KnownRoots'
      BY DEF StateOf
    <3> QED
      BY <2>1, <3>1, RootIsTaken
  <2> QED
    BY <2>1, <2>2, <2>3, <2>4 DEF S!LookAtRoot, S!LookAt, S!GivesOut, S!Nothing, Nothing, Accounts, StateOf, Checkpoints, KnownRoots
<1> QED
  BY <1>1, <1>2

LEMMA GoesOnWithAccounts == ASSUME StateInv PROVE RestoreForkBlockContext => S!GoOn
<1> SUFFICES ASSUME RestoreForkBlockContext PROVE S!GoOn
  OBVIOUS
<1>1. /\ UNCHANGED <<stateRootToState, contextOf, stateCheckpoints>> /\ stateCheckpoints = <<>>
      /\ saved # Nothing /\ saved' = Nothing /\ state' = stateRootToState[saved]
      /\ contextBlockNumber' = ForkBlock /\ saved \in KnownRoots /\ contextOf[saved] = ForkBlock
  BY DEF RestoreForkBlockContext, GoToRoot, StateInv, GoesOn
<1>2. Accounts' = StateOf[saved] /\ UNCHANGED <<StateOf, Checkpoints>>
  BY <1>1 DEF Accounts, StateOf, Checkpoints, KnownRoots
<1>3. Checkpoints = <<>>
  BY <1>1, CheckpointsRead
<1> QED
  BY <1>1, <1>2, <1>3 DEF S!GoOn, S!Nothing, Nothing, Accounts, StateOf, Checkpoints, KnownRoots

LEMMA BlockIsLookedAt ==
    ASSUME Given, StateInv, NEW b \in 0..ForkBlock - 1
    PROVE  SetBlockContext(b) => S!LookAtBlock(b)
<1> SUFFICES ASSUME SetBlockContext(b) PROVE S!LookAtBlock(b)
  OBVIOUS
<1> DEFINE root == RemoteRoots[b]
           D2 == KnownWithGiven \union {root}
<1>1. /\ state' = NoOverlay /\ contextBlockNumber' = b /\ b \in 0..ForkBlock
      /\ stateCheckpoints = <<>> /\ stateCheckpoints' = <<>> /\ saved = Nothing /\ saved' = GivenRoot
      /\ root < 0 /\ GivenRoot > 0 /\ root \in Int /\ GivenRoot \in Int
      /\ stateRootToState' = [r \in D2 |-> IF r = root THEN NoOverlay ELSE WithGiven[r]]
      /\ contextOf' = [r \in D2 |-> IF r = root THEN b ELSE ContextWithGiven[r]]
  BY BlockIsSet
<1>2. Accounts' = Remote[b]
  BY <1>1, ReadsRemote DEF Accounts
<1>3. Checkpoints = <<>> /\ Checkpoints' = Checkpoints
  BY <1>1, CheckpointsRead DEF Checkpoints
<1>4. DOMAIN StateOf = KnownRoots /\ DOMAIN StateOf' = D2 /\ KnownRoots \subseteq D2 /\ GivenRoot \in D2
  BY <1>1 DEF StateOf, KnownRoots, KnownWithGiven
<1>5. \A r \in D2 \ {root} : StateOf'[r] = AccountsOf(WithGiven[r], ContextWithGiven[r])
  BY <1>1 DEF StateOf, KnownRoots
<1>6. StateOf'[root] = Remote[b]
  BY <1>1, ReadsRemote DEF StateOf, KnownRoots
<1>7. root \in KnownRoots => StateOf[root] = Remote[b]
  <2> SUFFICES ASSUME root \in KnownRoots PROVE StateOf[root] = Remote[b]
    OBVIOUS
  <2>1. stateRootToState[root] = NoOverlay /\ RemoteRoots[contextOf[root]] = root /\ contextOf[root] \in 0..ForkBlock
    BY <1>1 DEF StateInv, RemoteRootsKnown, Typed
  <2>2. Remote[contextOf[root]] = Remote[b]
    BY <1>1, <2>1 DEF Given, RemoteIsConsistent
  <2> QED
    BY <2>1, <2>2, ReadsRemote DEF StateOf
<1>8. /\ \A r \in KnownRoots : StateOf'[r] = StateOf[r]
      /\ StateOf'[GivenRoot] = Accounts
  BY <1>1, <1>4, <1>5, <1>6, <1>7, RootIsGiven DEF StateOf, Accounts
<1>9. \A r \in D2 \ KnownRoots : StateOf'[r] \in {Accounts, Remote[b]}
  BY <1>6, <1>8 DEF KnownWithGiven
<1> HIDE DEF root, D2
<1>10. /\ \A r \in DOMAIN StateOf : r \in DOMAIN StateOf' /\ StateOf'[r] = StateOf[r]
       /\ \A r \in DOMAIN StateOf' \ DOMAIN StateOf : StateOf'[r] \in {Accounts, Remote[b]}
       /\ saved' \in DOMAIN StateOf' /\ StateOf'[saved'] = Accounts
  BY <1>1, <1>4, <1>8, <1>9
<1> QED
  BY <1>1, <1>2, <1>3, <1>10 DEF S!LookAtBlock, S!LookAt, S!GivesOut, S!Nothing, Nothing, Accounts, StateOf, Checkpoints, KnownRoots

-----------------------------------------------------------------------------
(* The theorem.                                                               *)

LEMMA InitIsRead == Given /\ ForkInit => S!Init
<1> SUFFICES ASSUME Given, ForkInit PROVE S!Init
  OBVIOUS
<1>1. StateInv
  BY StateInvInit
<1>2. /\ stateCheckpoints = <<>> /\ saved = Nothing /\ contextBlockNumber = ForkBlock
      /\ stateRootToState = [root \in {InitialRoot} |-> state] /\ contextOf = [root \in {InitialRoot} |-> ForkBlock]
  BY DEF ForkInit
<1>3. Accounts \in [Addresses -> S!Account]
  <2> SUFFICES ASSUME NEW a \in Addresses PROVE AccountOf(state[a], Remote[ForkBlock][a]) \in S!Account
    BY <1>2 DEF Accounts, AccountsOf
  <2>1. state[a] \in Overlay
    BY <1>1 DEF StateInv, Typed, Overlays
  <2>2. Remote[ForkBlock][a] \in S!Account
    BY DEF Given, RemoteIsConsistent
  <2>3. \A k \in Keys : Slot(state[a], Remote[ForkBlock][a], k) \in Values
    BY <2>1, <2>2 DEF Slot, Overlay, S!Account, Given, ValuesAreValues
  <2> QED
    BY <2>1, <2>2, <2>3 DEF AccountOf, Overlay, S!Account
<1>4. \A root \in DOMAIN StateOf : StateOf[root] = Accounts
  BY <1>2 DEF StateOf, KnownRoots, Accounts
<1>5. Checkpoints = <<>>
  BY <1>1, <1>2, CheckpointsRead
<1> QED
  BY <1>2, <1>3, <1>4, <1>5 DEF S!Init, S!Nothing, Nothing, Accounts, StateOf, Checkpoints, KnownRoots

LEMMA Asked == Given /\ StateInv => DoesAsAsked
<1> SUFFICES ASSUME Given, StateInv PROVE DoesAsAsked
  OBVIOUS
<1> QED
  BY AccountsAreChanged, RootsAreTaken, CheckpointsEnd, RootsAreLookedAt, GoesOnWithAccounts, BlockIsLookedAt
     DEF DoesAsAsked, KnownRoots

\* On a fork of any chain whose roots determine its accounts, the node reads and goes back
\* to what one would that holds every account: the property of the run `blockchain`.
THEOREM ForkReadsAsOneState == Given => (ForkSpec => ImplementsStateManager)
<1> SUFFICES ASSUME Given PROVE ForkSpec => ImplementsStateManager
  OBVIOUS
<1>1. ForkInit => StateInv
  BY StateInvInit
<1>2. StateInv /\ [ForkNext]_forkVars => StateInv'
  BY StateInvStep
<1>3. ForkInit => S!Init
  BY InitIsRead
<1>4. StateInv => DoesAsAsked
  BY Asked
<1> QED
  BY <1>1, <1>2, <1>3, <1>4, PTL DEF ForkSpec, ImplementsStateManager

\* What the node keeps of accounts is an overlay of known values, and the root it is at is
\* one it can go back to.
THEOREM ForkStateTypeCorrect == Given => (ForkSpec => []ForkTypeOK)
<1> SUFFICES ASSUME Given PROVE ForkSpec => []ForkTypeOK
  OBVIOUS
<1>1. ForkInit => StateInv
  BY StateInvInit
<1>2. StateInv /\ [ForkNext]_forkVars => StateInv'
  BY StateInvStep
<1>3. StateInv => ForkTypeOK
  BY DEF StateInv, Typed, InContext, KnownRoots, Overlays, Overlay, ForkTypeOK
<1> QED
  BY <1>1, <1>2, <1>3, PTL DEF ForkSpec

==============================================================================
