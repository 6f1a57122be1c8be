---------------------------- MODULE TxPoolProofs ----------------------------
(***************************************************************************)
(* What TLAPS proves about TxPool and TransactionQueue, for every value of *)
(* their constants.                                                        *)
(***************************************************************************)
EXTENDS TransactionQueue, SequenceTheorems, FiniteSetTheorems, WellFoundedInduction, TLAPS

-----------------------------------------------------------------------------
(* The operators of the pool *)

\* LeastOf is the least element of a nonempty set of naturals.
LEMMA LeastOfLemma ==
    ASSUME NEW S, S \subseteq Nat, S # {}
    PROVE  /\ LeastOf(S) \in S
           /\ \A j \in S : LeastOf(S) <= j
<1> DEFINE R == OpToRel(<, Nat)
<1>1. \A j, i \in Nat : j < i => <<j, i>> \in R
  BY Zenon DEF OpToRel
<1>2. IsWellFoundedOn(R, Nat)
  BY NatLessThanWellFounded
<1> HIDE DEF R
<1>3. \E i \in S : \A j \in S : ~ (<<j, i>> \in R)
  BY <1>2, WFMin
<1>4. PICK i \in S : \A j \in S : ~ (<<j, i>> \in R)
  BY <1>3
<1>5. \A j \in S : ~ (j < i)
  BY <1>1, <1>4
<1>6. \A j \in S : i <= j
  BY <1>5
<1> QED
  BY <1>6 DEF LeastOf

LEMMA LeastIs ==
    ASSUME NEW S, S \subseteq Nat, NEW n \in S, \A j \in S : n <= j
    PROVE  LeastOf(S) = n
<1>1. LeastOf(S) \in S /\ LeastOf(S) <= n /\ n <= LeastOf(S)
  BY LeastOfLemma
<1>2. LeastOf(S) \in Nat /\ n \in Nat
  BY <1>1
<1> QED
  BY <1>1, <1>2

\* The lists of a pool have their types.
LEMMA ListTypes ==
    ASSUME NEW p \in PoolState, NEW s \in Senders
    PROVE  /\ Pending(p, s) \in Seq(OrderedTx)
           /\ DOMAIN Pending(p, s) = 1 .. Len(Pending(p, s))
           /\ Len(Pending(p, s)) \in Nat
           /\ \A i \in DOMAIN Pending(p, s) : Pending(p, s)[i] \in OrderedTx
           /\ Queued(p, s) \subseteq OrderedTx
  BY DEF PoolState, Pending, Queued

\* Transactions are records of naturals.
LEMMA TxTypes ==
    ASSUME NEW e \in OrderedTx
    PROVE  /\ e.data \in Txs
           /\ e.orderId \in Nat
           /\ e.data.nonce \in Nat
           /\ e.data.sender \in Senders
  BY TxsAssumption DEF OrderedTx, TxType

\* The two cuts that updatePendingAndQueued makes in a pending list are positions of
\* it, or just past its end, in this order.
LEMMA CutPositions ==
    ASSUME NEW p \in PoolState, NEW acc \in [Senders -> AccountType], NEW s \in Senders
    PROVE  /\ FirstLive(p, acc, s) \in 1 .. Len(Pending(p, s)) + 1
           /\ FirstInvalid(p, acc, s) \in 1 .. Len(Pending(p, s)) + 1
           /\ FirstLive(p, acc, s) <= FirstInvalid(p, acc, s)
<1> DEFINE L == {Len(Pending(p, s)) + 1} \union
                {i \in DOMAIN Pending(p, s) : Pending(p, s)[i].data.nonce >= acc[s].nonce}
           I == {Len(Pending(p, s)) + 1} \union
                {i \in DOMAIN Pending(p, s) :
                    /\ Pending(p, s)[i].data.nonce >= acc[s].nonce
                    /\ ~ IsTxValid(p, acc, Pending(p, s)[i].data)}
<1>1. L \subseteq 1 .. Len(Pending(p, s)) + 1 /\ L # {}
  BY ListTypes
<1>2. I \subseteq L /\ I # {}
  OBVIOUS
<1>3. /\ LeastOf(L) \in L /\ \A j \in L : LeastOf(L) <= j
      /\ LeastOf(I) \in I /\ \A j \in I : LeastOf(I) <= j
  <2> HIDE DEF L, I
  <2>1. L \subseteq Nat /\ I \subseteq Nat
    BY <1>1, <1>2, ListTypes
  <2> QED
    BY <2>1, <1>1, <1>2, LeastOfLemma
<1>4. FirstLive(p, acc, s) = LeastOf(L) /\ FirstInvalid(p, acc, s) = LeastOf(I)
  BY DEF FirstLive, FirstInvalid
<1> HIDE DEF L, I
<1> QED
  BY <1>1, <1>2, <1>3, <1>4

\* What stays pending is a sequence of transactions of the pool: the positions from
\* FirstLive to the one before FirstInvalid.
LEMMA KeptLemma ==
    ASSUME NEW p \in PoolState, NEW acc \in [Senders -> AccountType], NEW s \in Senders
    PROVE  /\ Kept(p, acc, s) \in Seq(OrderedTx)
           /\ Len(Kept(p, acc, s)) = FirstInvalid(p, acc, s) - FirstLive(p, acc, s)
           /\ \A i \in 1 .. Len(Kept(p, acc, s)) :
                Kept(p, acc, s)[i] = Pending(p, s)[FirstLive(p, acc, s) + i - 1]
<1> DEFINE a == FirstLive(p, acc, s)
           b == FirstInvalid(p, acc, s) - 1
<1>1. a \in Int /\ b \in Int /\ a <= b + 1
  BY CutPositions, ListTypes
<1>2. \A i \in a .. b : Pending(p, s)[i] \in OrderedTx
  BY CutPositions, ListTypes
<1>3. Kept(p, acc, s) = SubSeq(Pending(p, s), a, b)
  BY DEF Kept
<1> HIDE DEF a, b
<1>4. /\ Kept(p, acc, s) \in Seq(OrderedTx)
      /\ Len(Kept(p, acc, s)) = IF a <= b THEN b - a + 1 ELSE 0
      /\ \A i \in 1 .. b - a + 1 : Kept(p, acc, s)[i] = Pending(p, s)[a + i - 1]
  BY <1>1, <1>2, <1>3, SubSeqProperties
<1>5. Len(Kept(p, acc, s)) = b - a + 1
  BY <1>1, <1>4
<1>6. \A i \in 1 .. Len(Kept(p, acc, s)) : Kept(p, acc, s)[i] = Pending(p, s)[a + i - 1]
  BY <1>4, <1>5
<1>7. /\ a = FirstLive(p, acc, s) /\ b = FirstInvalid(p, acc, s) - 1
      /\ FirstLive(p, acc, s) \in Int /\ FirstInvalid(p, acc, s) \in Int
  BY CutPositions, ListTypes DEF a, b
<1>8. Len(Kept(p, acc, s)) = FirstInvalid(p, acc, s) - FirstLive(p, acc, s)
  BY <1>5, <1>7
<1> QED
  BY <1>4, <1>6, <1>7, <1>8

\* updatePendingAndQueued returns a pool.
LEMMA UpdatedPoolType ==
    ASSUME NEW p \in PoolState, NEW acc \in [Senders -> AccountType]
    PROVE  UpdatedPool(p, acc) \in PoolState
<1>1. [s \in Senders |-> Kept(p, acc, s)] \in [Senders -> Seq(OrderedTx)]
  BY KeptLemma
<1>2. \A s \in Senders :
        /\ StillQueued(p, acc, s) \subseteq OrderedTx
        /\ MovedToQueued(p, acc, s) \subseteq OrderedTx
  BY ListTypes DEF StillQueued, MovedToQueued
<1>3. [s \in Senders |-> StillQueued(p, acc, s) \union
            {e \in MovedToQueued(p, acc, s) : IsTxValid(p, acc, e.data)}]
        \in [Senders -> SUBSET OrderedTx]
  BY <1>2
<1>4. \A D : Unindexed(p.hashToTransaction, D) \subseteq OrderedTx
  BY DEF Unindexed, PoolState
<1>5. p.blockGasLimit \in Nat
  BY DEF PoolState
<1> QED
  BY <1>1, <1>3, <1>4, <1>5 DEF UpdatedPool, PoolState

\* What reorganizeTransactionsLists promotes is a sequence of queued transactions, one
\* for each nonce from next to last.
LEMMA RunLemma ==
    ASSUME NEW queued, queued \subseteq OrderedTx, NEW next \in Nat, NEW last \in Int,
           last >= next - 1, IsRun(queued, next, last)
    PROVE  /\ Run(queued, next, last) \in Seq(OrderedTx)
           /\ Len(Run(queued, next, last)) = last - next + 1
           /\ \A i \in 1 .. last - next + 1 :
                /\ Run(queued, next, last)[i] \in queued
                /\ Run(queued, next, last)[i].data.nonce = next + i - 1
<1> DEFINE n == last - next + 1
           pick(i) == CHOOSE e \in queued : e.data.nonce = next + i - 1
<1>1. n \in Nat
  OBVIOUS
<1>2. \A i \in 1 .. n : pick(i) \in queued /\ pick(i).data.nonce = next + i - 1
  <2> TAKE i \in 1 .. n
  <2>1. next + i - 1 \in next .. last
    OBVIOUS
  <2>2. last # next - 1
    OBVIOUS
  <2>3. SameNonce(queued, next + i - 1) # {}
    BY <2>1, <2>2 DEF IsRun
  <2> QED
    BY <2>3 DEF SameNonce
<1>3. Run(queued, next, last) = [i \in 1 .. n |-> pick(i)]
  BY DEF Run
<1>4. [i \in 1 .. n |-> pick(i)] \in [1 .. n -> OrderedTx]
  BY <1>2
<1> HIDE DEF n, pick
<1>5. [i \in 1 .. n |-> pick(i)] \in Seq(OrderedTx)
  BY <1>1, <1>4, SeqDef
<1>6. Len([i \in 1 .. n |-> pick(i)]) = n
  BY <1>1, <1>5, LenProperties
<1>7. \A i \in 1 .. n : Run(queued, next, last)[i] = pick(i)
  BY <1>3
<1> QED
  BY <1>2, <1>3, <1>5, <1>6, <1>7 DEF n

\* The run of promoted nonces ends before it starts or at one of the queued nonces.
LEMMA RunEnd ==
    ASSUME NEW queued, queued \subseteq OrderedTx, NEW nonce \in Nat,
           NEW last \in {nonce} \union {e.data.nonce : e \in queued},
           IsRun(queued, nonce + 1, last)
    PROVE  last \in Nat /\ last >= nonce
<1>1. last \in Nat
  BY TxTypes
<1>2. ASSUME last # nonce PROVE last >= nonce
  <2>1. PICK e \in queued : e.data.nonce = last
    BY <1>2
  <2>2. \A q \in queued : q.data.nonce >= nonce + 1
    BY <1>2 DEF IsRun
  <2>3. last >= nonce + 1
    BY <2>1, <2>2
  <2> QED
    BY <1>1, <2>3
<1> QED
  BY <1>1, <1>2

-----------------------------------------------------------------------------
(* Type correctness *)

\* The result of an addition has the type of a pool, whatever happens to the lists.
LEMMA ArrivingType ==
    ASSUME TypeOK, NEW tx \in Txs
    PROVE  Arriving(tx) \in OrderedTx /\ Arriving(tx).data = tx
  BY DEF TypeOK, Arriving, OrderedTx

LEMMA IndexedType ==
    ASSUME NEW index, index \subseteq OrderedTx, NEW D, NEW e \in OrderedTx
    PROVE  /\ Unindexed(index, D) \subseteq OrderedTx
           /\ Indexed(index, e) \subseteq OrderedTx
           /\ Indexed(Unindexed(index, D), e) \subseteq OrderedTx
  BY DEF Indexed, Unindexed

LEMMA AddTransactionType ==
    ASSUME TypeOK, NEW tx \in Txs, AddTransaction(tx)
    PROVE  pool' \in PoolState
<1> DEFINE s == tx.sender
<1>1. s \in Senders /\ tx.nonce \in Nat
  BY TxsAssumption DEF TxType
<1>2. pool \in PoolState
  BY DEF TypeOK
<1>3. pool.hashToTransaction \subseteq OrderedTx
  BY <1>2 DEF PoolState
<1> USE DEF Pending, Queued
<1>4. CASE AddPendingTransaction(tx)
  <2> DEFINE queued == Queued(pool, s)
             next == tx.nonce + 1
  <2>1. PICK last \in {tx.nonce} \union {e.data.nonce : e \in queued} :
          /\ LongestRun(queued, next, last)
          /\ pool' = [pool EXCEPT
                !.pendingTransactions[s] = Append(@, Arriving(tx)) \o Run(queued, next, last),
                !.queuedTransactions[s] = @ \ ElementsOf(Run(queued, next, last)),
                !.hashToTransaction = Indexed(@, Arriving(tx))]
    BY <1>4, Zenon DEF AddPendingTransaction
  <2>2. queued \subseteq OrderedTx /\ last \in Int /\ next \in Nat
    BY <1>1, <1>2, ListTypes, TxTypes
  <2>3. last >= next - 1
    BY <1>1, <2>1, <2>2, RunEnd DEF LongestRun
  <2>4. Run(queued, next, last) \in Seq(OrderedTx)
    BY <2>1, <2>2, <2>3, RunLemma DEF LongestRun
  <2> HIDE DEF queued, next
  <2>5. Append(Pending(pool, s), Arriving(tx)) \o Run(queued, next, last) \in Seq(OrderedTx)
    BY <1>1, <1>2, <2>4, ListTypes, ArrivingType, AppendProperties, ConcatProperties
  <2>6. Indexed(pool.hashToTransaction, Arriving(tx)) \subseteq OrderedTx
    BY <1>3, ArrivingType, IndexedType
  <2> QED
    BY <1>1, <1>2, <2>1, <2>5, <2>6 DEF PoolState
<1>5. CASE ReplacePendingTransaction(tx)
  <2>1. PICK i \in DOMAIN Pending(pool, s) :
          pool' = [pool EXCEPT
            !.pendingTransactions[s][i] = Arriving(tx),
            !.hashToTransaction =
                Indexed(Unindexed(@, {Pending(pool, s)[i].data}), Arriving(tx))]
    BY <1>5 DEF ReplacePendingTransaction
  <2>2. [Pending(pool, s) EXCEPT ![i] = Arriving(tx)] \in Seq(OrderedTx)
    BY <1>1, <1>2, ListTypes, ArrivingType, ExceptSeq
  <2>3. Indexed(Unindexed(pool.hashToTransaction, {Pending(pool, s)[i].data}), Arriving(tx))
            \subseteq OrderedTx
    BY <1>3, ArrivingType, IndexedType
  <2> QED
    BY <1>1, <1>2, <2>1, <2>2, <2>3 DEF PoolState
<1>6. CASE AddQueuedTransaction(tx)
  <2>1. pool' = [pool EXCEPT
            !.queuedTransactions[s] = @ \union {Arriving(tx)},
            !.hashToTransaction = Indexed(@, Arriving(tx))]
    BY <1>6 DEF AddQueuedTransaction
  <2>2. Indexed(pool.hashToTransaction, Arriving(tx)) \subseteq OrderedTx
    BY <1>3, ArrivingType, IndexedType
  <2> QED
    BY <1>1, <1>2, <2>1, <2>2, ArrivingType DEF PoolState
<1>7. CASE ReplaceQueuedTransaction(tx)
  <2>1. PICK e \in Queued(pool, s) :
          pool' = [pool EXCEPT
            !.queuedTransactions[s] = (@ \ {e}) \union {Arriving(tx)},
            !.hashToTransaction = Indexed(Unindexed(@, {e.data}), Arriving(tx))]
    BY <1>7 DEF ReplaceQueuedTransaction, SameNonce
  <2>2. Indexed(Unindexed(pool.hashToTransaction, {e.data}), Arriving(tx)) \subseteq OrderedTx
    BY <1>3, ArrivingType, IndexedType
  <2> QED
    BY <1>1, <1>2, <2>1, <2>2, ArrivingType DEF PoolState
<1>8. CASE RefuseUnderpriced(tx)
  BY <1>2, <1>8 DEF RefuseUnderpriced
<1> QED
  BY <1>4, <1>5, <1>6, <1>7, <1>8 DEF AddTransaction

LEMMA RemoveTransactionType ==
    ASSUME TypeOK, NEW entry \in pool.hashToTransaction, RemoveTransaction(entry)
    PROVE  pool' \in PoolState
<1> DEFINE s == entry.data.sender
<1>1. pool \in PoolState /\ entry \in OrderedTx
  BY DEF TypeOK, PoolState
<1>2. s \in Senders
  BY <1>1, TxTypes
<1>3. Unindexed(pool.hashToTransaction, {entry.data}) \subseteq OrderedTx
  BY <1>1 DEF Unindexed, PoolState
<1>4. CASE RemovePendingTransaction(entry)
  <2>1. PICK i \in DOMAIN Pending(pool, s) :
          pool' = [pool EXCEPT
            !.pendingTransactions[s] = SubSeq(@, 1, i - 1),
            !.queuedTransactions[s] = @ \union
                {Pending(pool, s)[j] : j \in {k \in DOMAIN Pending(pool, s) : k > i}},
            !.hashToTransaction = Unindexed(@, {entry.data})]
    BY <1>4 DEF RemovePendingTransaction
  <2>2. i \in Int /\ \A j \in 1 .. i - 1 : Pending(pool, s)[j] \in OrderedTx
    BY <1>1, <1>2, ListTypes
  <2>3. SubSeq(Pending(pool, s), 1, i - 1) \in Seq(OrderedTx)
    BY <2>2, SubSeqProperties
  <2>4. {Pending(pool, s)[j] : j \in {k \in DOMAIN Pending(pool, s) : k > i}} \subseteq OrderedTx
    BY <1>1, <1>2, ListTypes
  <2> QED
    BY <1>1, <1>2, <1>3, <2>1, <2>3, <2>4 DEF PoolState, Pending
<1>5. CASE RemoveQueuedTransaction(entry)
  <2>1. pool' = [pool EXCEPT
            !.queuedTransactions[s] = @ \ {entry},
            !.hashToTransaction = Unindexed(@, {entry.data})]
    BY <1>5 DEF RemoveQueuedTransaction
  <2> QED
    BY <1>1, <1>2, <1>3, <2>1 DEF PoolState
<1> QED
  BY <1>4, <1>5 DEF RemoveTransaction

\* The actions that change only the accounts, or the accounts and then the lists.
LEMMA MineBlockType ==
    ASSUME TypeOK, MineBlock
    PROVE  account' \in [Senders -> AccountType] /\ pool' \in PoolState
<1>1. PICK mined \in [Senders -> 0 .. MaxNonce], created \in [Contracts -> 0 .. 1],
           balance \in [Senders -> Balances] :
        /\ account' = [s \in Senders |->
            [nonce |-> account[s].nonce + mined[s] +
                        (IF s \in Contracts THEN created[s] ELSE 0),
             balance |-> balance[s]]]
        /\ pool' = UpdatedPool(pool, account')
  BY DEF MineBlock
<1>2. \A s \in Senders :
        /\ account[s].nonce + mined[s] + (IF s \in Contracts THEN created[s] ELSE 0) \in Nat
        /\ balance[s] \in Nat
  <2> TAKE s \in Senders
  <2>1. account[s].nonce \in Nat
    BY DEF TypeOK, AccountType
  <2>2. mined[s] \in Nat /\ balance[s] \in Nat
    <3>1. mined[s] \in 0 .. MaxNonce
      BY <1>1
    <3>2. balance[s] \in Balances
      BY <1>1
    <3>3. \A k \in 0 .. MaxNonce : k \in Nat
      OBVIOUS
    <3>4. mined[s] \in Nat
      BY <3>1, <3>3, Zenon
    <3> QED
      BY <3>2, <3>4, AmountsAssumption
  <2>3. (IF s \in Contracts THEN created[s] ELSE 0) \in Nat
    BY <1>1
  <2> QED
    BY <2>1, <2>2, <2>3
<1>3. account' \in [Senders -> AccountType]
  BY <1>1, <1>2 DEF AccountType
<1> QED
  BY <1>1, <1>3, UpdatedPoolType DEF TypeOK

LEMMA InitType == Init => TypeOK
<1> SUFFICES ASSUME Init PROVE TypeOK
  OBVIOUS
<1>1. [s \in Senders |-> << >>] \in [Senders -> Seq(OrderedTx)]
  BY EmptySeq
<1>2. pool \in PoolState
  BY <1>1, AmountsAssumption DEF Init, PoolState
<1>3. account \in [Senders -> AccountType]
  BY AmountsAssumption DEF Init, AccountType
<1>4. DOMAIN snapshotIdToState = {}
  BY DEF Init
<1> QED
  BY <1>2, <1>3, <1>4 DEF Init, TypeOK

LEMMA TypeStep == TypeOK /\ [Next]_vars => TypeOK'
<1> SUFFICES ASSUME TypeOK, [Next]_vars PROVE TypeOK'
  OBVIOUS
<1>1. ASSUME NEW tx \in Txs, AddTransaction(tx) PROVE TypeOK'
  <2>1. /\ nextOrderId' = nextOrderId + 1
        /\ UNCHANGED <<snapshotIdToState, nextSnapshotId, account>>
    BY <1>1 DEF AddTransaction, AddPendingTransaction, ReplacePendingTransaction,
                AddQueuedTransaction, ReplaceQueuedTransaction, RefuseUnderpriced, Submit
  <2> QED
    BY <1>1, <2>1, AddTransactionType DEF TypeOK
<1>2. ASSUME NEW entry \in pool.hashToTransaction, RemoveTransaction(entry) PROVE TypeOK'
  <2>1. UNCHANGED <<snapshotIdToState, nextSnapshotId, nextOrderId, account>>
    BY <1>2 DEF RemoveTransaction, RemovePendingTransaction, RemoveQueuedTransaction
  <2> QED
    BY <1>2, <2>1, RemoveTransactionType DEF TypeOK
<1>3. ASSUME NEW limit \in GasLimits, SetBlockGasLimit(limit) PROVE TypeOK'
  <2>1. [pool EXCEPT !.blockGasLimit = limit] \in PoolState
    BY AmountsAssumption DEF TypeOK, PoolState
  <2> QED
    BY <1>3, <2>1, UpdatedPoolType DEF SetBlockGasLimit, TypeOK
<1>4. CASE Snapshot
  <2>1. [pool |-> pool, account |-> account] \in SnapshotType
    BY DEF TypeOK, SnapshotType
  <2> QED
    BY <1>4, <2>1 DEF Snapshot, TypeOK
<1>5. ASSUME NEW id \in DOMAIN snapshotIdToState, Revert(id) PROVE TypeOK'
  BY <1>5 DEF Revert, TypeOK, SnapshotType
<1>6. CASE MineBlock
  BY <1>6, MineBlockType DEF MineBlock, TypeOK
<1>7. ASSUME NEW s \in Senders, NEW balance \in Balances, SetBalance(s, balance)
      PROVE  TypeOK'
  BY <1>7, AmountsAssumption DEF SetBalance, TypeOK, AccountType
<1>8. ASSUME NEW s \in Senders, NEW nonce \in 0 .. MaxNonce, SetNonce(s, nonce)
      PROVE  TypeOK'
  BY <1>8 DEF SetNonce, TypeOK, AccountType
<1>9. CASE UNCHANGED vars
  BY <1>9 DEF vars, TypeOK
<1> QED
  BY <1>1, <1>2, <1>3, <1>4, <1>5, <1>6, <1>7, <1>8, <1>9 DEF Next

\* TypeOK is an invariant: every call leaves lists, index and snapshots well formed.
THEOREM TypeCorrect == Spec => []TypeOK
  BY TypeStep, InitType, PTL DEF Spec

-----------------------------------------------------------------------------
(* Pending lists have no gap.  The invariant is PendingIsExecutable for the *)
(* current pool and for every pool a snapshot can bring back.               *)

GapFreeInv ==
    /\ TypeOK
    /\ PendingIsGapFree(pool, account)
    /\ \A id \in DOMAIN snapshotIdToState :
        PendingIsGapFree(snapshotIdToState[id].pool, snapshotIdToState[id].account)

\* Where updatePendingAndQueued cuts a list without gaps once the nonce of its sender
\* has grown: the transactions it drops from the front are the used ones.
LEMMA CutNonces ==
    ASSUME NEW p \in PoolState, NEW acc \in [Senders -> AccountType],
           NEW acc2 \in [Senders -> AccountType], PendingIsGapFree(p, acc),
           NEW s \in Senders, acc2[s].nonce >= acc[s].nonce
    PROVE  \/ FirstLive(p, acc2, s) = acc2[s].nonce - acc[s].nonce + 1
           \/ /\ FirstLive(p, acc2, s) = Len(Pending(p, s)) + 1
              /\ FirstInvalid(p, acc2, s) = Len(Pending(p, s)) + 1
<1> DEFINE n == acc2[s].nonce - acc[s].nonce + 1
           L == {Len(Pending(p, s)) + 1} \union
                {i \in DOMAIN Pending(p, s) : Pending(p, s)[i].data.nonce >= acc2[s].nonce}
<1>1. n \in Nat \ {0}
  BY DEF AccountType
<1>2. \A i \in DOMAIN Pending(p, s) : Pending(p, s)[i].data.nonce >= acc2[s].nonce <=> i >= n
  BY ListTypes DEF PendingIsGapFree, AccountType
<1>3. L \subseteq Nat /\ L # {} /\ FirstLive(p, acc2, s) = LeastOf(L)
  BY ListTypes DEF FirstLive
<1>4. LeastOf(L) \in L /\ \A j \in L : LeastOf(L) <= j
  <2> HIDE DEF L
  <2> QED
    BY <1>3, LeastOfLemma
<1>5. CASE n \in DOMAIN Pending(p, s)
  <2>1. n \in L /\ \A j \in L : n <= j
    BY <1>1, <1>2, <1>5, ListTypes
  <2> HIDE DEF L
  <2>2. LeastOf(L) = n
    BY <1>3, <2>1, LeastIs
  <2> QED
    BY <1>3, <2>2
<1>6. CASE n \notin DOMAIN Pending(p, s)
  <2>1. L = {Len(Pending(p, s)) + 1}
    BY <1>1, <1>2, <1>6, ListTypes
  <2>2. FirstLive(p, acc2, s) = Len(Pending(p, s)) + 1
    BY <1>3, <1>4, <2>1
  <2> QED
    BY <2>2, CutPositions, ListTypes
<1> QED
  BY <1>5, <1>6

LEMMA UpdateKeepsGapFree ==
    ASSUME NEW p \in PoolState, NEW acc \in [Senders -> AccountType],
           NEW acc2 \in [Senders -> AccountType], PendingIsGapFree(p, acc),
           \A s \in Senders : acc2[s].nonce >= acc[s].nonce
    PROVE  PendingIsGapFree(UpdatedPool(p, acc2), acc2)
<1> SUFFICES ASSUME NEW s \in Senders, NEW i \in DOMAIN Kept(p, acc2, s)
             PROVE  Kept(p, acc2, s)[i].data.nonce = acc2[s].nonce + i - 1
  BY DEF PendingIsGapFree, Pending, UpdatedPool
<1> DEFINE a == FirstLive(p, acc2, s)
           b == FirstInvalid(p, acc2, s)
           n == Len(Pending(p, s))
<1>1. /\ n \in Nat
      /\ a \in 1 .. n + 1 /\ b \in 1 .. n + 1
      /\ acc[s].nonce \in Nat /\ acc2[s].nonce \in Nat
  BY CutPositions, ListTypes DEF AccountType
<1>2. i \in 1 .. b - a /\ Kept(p, acc2, s)[i] = Pending(p, s)[a + i - 1]
  BY KeptLemma, LenProperties
<1>3. a = acc2[s].nonce - acc[s].nonce + 1 \/ (a = n + 1 /\ b = n + 1)
  BY CutNonces
<1>4. \A j \in 1 .. n : Pending(p, s)[j].data.nonce = acc[s].nonce + j - 1
  BY ListTypes DEF PendingIsGapFree
<1> HIDE DEF a, b, n
<1>5. a + i - 1 \in 1 .. n
  BY <1>1, <1>2
<1>6. a = acc2[s].nonce - acc[s].nonce + 1
  BY <1>1, <1>2, <1>3
<1> QED
  BY <1>1, <1>2, <1>4, <1>5, <1>6

\* Without gaps, the next pending nonce is as far from the confirmed one as the list is
\* long, and a nonce that no pending transaction has is not below it.
LEMMA NextPendingNonceLemma ==
    ASSUME NEW p \in PoolState, NEW acc \in [Senders -> AccountType],
           PendingIsGapFree(p, acc), NEW s \in Senders
    PROVE  /\ NextPendingNonce(p, acc, s) = acc[s].nonce + Len(Pending(p, s))
           /\ \A n \in Nat :
                /\ n >= acc[s].nonce
                /\ n <= NextPendingNonce(p, acc, s)
                /\ SameNonce(ElementsOf(Pending(p, s)), n) = {}
                => n = NextPendingNonce(p, acc, s)
<1> DEFINE q == Pending(p, s)
           base == acc[s].nonce
<1>1. /\ q \in Seq(OrderedTx) /\ Len(q) \in Nat /\ DOMAIN q = 1 .. Len(q)
      /\ base \in Nat
      /\ \A i \in 1 .. Len(q) : q[i].data.nonce = base + i - 1
  BY ListTypes DEF AccountType, PendingIsGapFree
<1>2. NextPendingNonce(p, acc, s) = IF q = << >> THEN base ELSE q[Len(q)].data.nonce + 1
  BY DEF NextPendingNonce
<1> HIDE DEF q, base
<1>3. NextPendingNonce(p, acc, s) = base + Len(q)
  <2>1. CASE q = << >>
    BY <1>1, <1>2, <2>1, EmptySeq
  <2>2. CASE q # << >>
    <3>1. Len(q) \in 1 .. Len(q)
      BY <1>1, <2>2, EmptySeq
    <3>2. q[Len(q)].data.nonce = base + Len(q) - 1
      BY <1>1, <3>1
    <3> QED
      BY <1>1, <1>2, <2>2, <3>2
  <2> QED
    BY <2>1, <2>2
<1>4. ASSUME NEW n \in Nat, n >= base, n < base + Len(q)
      PROVE  SameNonce(ElementsOf(q), n) # {}
  <2>1. PICK i \in 1 .. Len(q) : base + i - 1 = n
    <3>1. n - base + 1 \in 1 .. Len(q) /\ base + (n - base + 1) - 1 = n
      BY <1>1, <1>4
    <3> QED
      BY <3>1
  <2>2. q[i].data.nonce = n
    BY <1>1, <2>1
  <2> QED
    BY <1>1, <2>1, <2>2 DEF SameNonce, ElementsOf
<1>5. \A n \in Nat : n >= base /\ n <= base + Len(q) /\ SameNonce(ElementsOf(q), n) = {}
            => n = base + Len(q)
  <2> SUFFICES ASSUME NEW n \in Nat, n >= base, n <= base + Len(q),
                      SameNonce(ElementsOf(q), n) = {}
               PROVE  n = base + Len(q)
    OBVIOUS
  <2>1. ~ (n < base + Len(q))
    BY <1>4
  <2> QED
    BY <1>1, <2>1
<1> QED
  BY <1>3, <1>5 DEF q, base

LEMMA AddKeepsGapFree ==
    ASSUME GapFreeInv, NEW tx \in Txs, AddTransaction(tx)
    PROVE  PendingIsGapFree(pool', account)
<1> DEFINE s == tx.sender
           base == account[s].nonce
           q == Pending(pool, s)
<1>1. s \in Senders /\ tx.nonce \in Nat
  BY TxsAssumption DEF TxType
<1>2. pool \in PoolState /\ account \in [Senders -> AccountType] /\ PendingIsGapFree(pool, account)
  BY DEF GapFreeInv, TypeOK
<1>3. /\ base \in Nat /\ q \in Seq(OrderedTx) /\ Len(q) \in Nat
      /\ \A i \in 1 .. Len(q) : q[i].data.nonce = base + i - 1
  BY <1>1, <1>2, ListTypes DEF AccountType, PendingIsGapFree
<1>4. tx.nonce >= base
  BY DEF AddTransaction, AddPendingTransaction, ReplacePendingTransaction, RefuseUnderpriced,
         AddQueuedTransaction, ReplaceQueuedTransaction, Submit, ValidTransaction
<1>5. Arriving(tx) \in OrderedTx /\ Arriving(tx).data = tx
  BY ArrivingType DEF GapFreeInv
<1>6. ASSUME NEW list \in Seq(OrderedTx),
             pool'.pendingTransactions = [pool.pendingTransactions EXCEPT ![s] = list],
             \A i \in 1 .. Len(list) : list[i].data.nonce = base + i - 1
      PROVE  PendingIsGapFree(pool', account)
  <2> SUFFICES ASSUME NEW t \in Senders, NEW i \in DOMAIN Pending(pool', t)
               PROVE  Pending(pool', t)[i].data.nonce = account[t].nonce + i - 1
    BY DEF PendingIsGapFree
  <2>1. pool.pendingTransactions \in [Senders -> Seq(OrderedTx)]
    BY <1>2 DEF PoolState
  <2>2. CASE t = s
    BY <1>6, <2>1, <2>2, LenProperties DEF Pending
  <2>3. CASE t # s
    BY <1>2, <1>6, <2>1, <2>3 DEF Pending, PendingIsGapFree
  <2> QED
    BY <2>2, <2>3
<1>7. CASE AddPendingTransaction(tx)
  <2> DEFINE queued == Queued(pool, s)
             next == tx.nonce + 1
  <2>1. PICK last \in {tx.nonce} \union {e.data.nonce : e \in queued} :
          /\ LongestRun(queued, next, last)
          /\ pool' = [pool EXCEPT
                !.pendingTransactions[s] = Append(@, Arriving(tx)) \o Run(queued, next, last),
                !.queuedTransactions[s] = @ \ ElementsOf(Run(queued, next, last)),
                !.hashToTransaction = Indexed(@, Arriving(tx))]
    BY <1>7, Zenon DEF AddPendingTransaction
  <2>2. queued \subseteq OrderedTx /\ last \in Int /\ next \in Nat
    BY <1>1, <1>2, ListTypes, TxTypes
  <2>3. last >= next - 1
    BY <1>1, <2>1, <2>2, RunEnd DEF LongestRun
  <2> DEFINE run == Run(queued, next, last)
             list == Append(q, Arriving(tx)) \o run
  <2>4. /\ run \in Seq(OrderedTx)
        /\ \A i \in 1 .. Len(run) : run[i].data.nonce = tx.nonce + i
    <3>1. IsRun(queued, next, last)
      BY <2>1 DEF LongestRun
    <3>2. /\ run \in Seq(OrderedTx)
          /\ Len(run) = last - next + 1
          /\ \A i \in 1 .. last - next + 1 : run[i].data.nonce = next + i - 1
      BY <2>2, <2>3, <3>1, RunLemma
    <3> HIDE DEF run
    <3> QED
      BY <1>1, <3>2
  <2>5. tx.nonce = base + Len(q)
    BY <1>1, <1>2, <1>4, <1>7, NextPendingNonceLemma DEF AddPendingTransaction
  <2>6. pool'.pendingTransactions = [pool.pendingTransactions EXCEPT ![s] = list]
    BY <1>2, <2>1 DEF PoolState, Pending
  <2> HIDE DEF run, q, base, queued, next
  <2>7. /\ list \in Seq(OrderedTx)
        /\ Len(list) = Len(q) + 1 + Len(run)
        /\ \A i \in 1 .. Len(q) : list[i] = q[i]
        /\ list[Len(q) + 1] = Arriving(tx)
        /\ \A i \in Len(q) + 2 .. Len(list) : list[i] = run[i - Len(q) - 1]
    <3>1. Append(q, Arriving(tx)) \in Seq(OrderedTx) /\ Len(Append(q, Arriving(tx))) = Len(q) + 1
      BY <1>3, <1>5, AppendProperties
    <3>2. Len(run) \in Nat
      BY <2>4, LenProperties
    <3> QED
      BY <1>3, <1>5, <2>4, <3>1, <3>2, AppendProperties, ConcatProperties
  <2>8. \A i \in 1 .. Len(list) : list[i].data.nonce = base + i - 1
    <3> HIDE DEF list
    <3> TAKE i \in 1 .. Len(list)
    <3>1. Len(run) \in Nat /\ Len(q) \in Nat
      BY <1>3, <2>4, LenProperties
    <3>2. CASE i <= Len(q)
      BY <1>3, <2>7, <3>1, <3>2
    <3>3. CASE i = Len(q) + 1
      BY <1>3, <1>5, <2>5, <2>7, <3>3
    <3>4. CASE i > Len(q) + 1
      <4>1. i - Len(q) - 1 \in 1 .. Len(run) /\ i \in Len(q) + 2 .. Len(list)
        BY <2>7, <3>1, <3>4
      <4>2. list[i].data.nonce = tx.nonce + (i - Len(q) - 1)
        BY <2>4, <2>7, <4>1
      <4> QED
        BY <1>3, <2>5, <3>1, <4>2
    <3> QED
      BY <3>1, <3>2, <3>3, <3>4
  <2> HIDE DEF list
  <2> QED
    BY <1>6, <2>6, <2>7, <2>8
<1>8. CASE ReplacePendingTransaction(tx)
  <2>1. PICK i \in DOMAIN q :
          /\ q[i].data.nonce = tx.nonce
          /\ pool' = [pool EXCEPT
                !.pendingTransactions[s][i] = Arriving(tx),
                !.hashToTransaction = Indexed(Unindexed(@, {q[i].data}), Arriving(tx))]
    BY <1>8 DEF ReplacePendingTransaction
  <2>2. i \in 1 .. Len(q)
    BY <1>3, LenProperties
  <2> DEFINE list == [q EXCEPT ![i] = Arriving(tx)]
  <2>3. pool'.pendingTransactions = [pool.pendingTransactions EXCEPT ![s] = list]
    BY <1>1, <1>2, <2>1 DEF PoolState, Pending
  <2>4. /\ list \in Seq(OrderedTx) /\ Len(list) = Len(q)
        /\ \A j \in 1 .. Len(q) : list[j] = IF j = i THEN Arriving(tx) ELSE q[j]
    BY <1>3, <1>5, <2>2, ExceptSeq
  <2>5. \A j \in 1 .. Len(list) : list[j].data.nonce = base + j - 1
    <3> HIDE DEF list
    <3> QED
      BY <1>3, <1>5, <2>1, <2>2, <2>4
  <2> HIDE DEF list
  <2> QED
    BY <1>6, <2>3, <2>4, <2>5
<1>9. CASE AddQueuedTransaction(tx) \/ ReplaceQueuedTransaction(tx) \/ RefuseUnderpriced(tx)
  <2>1. pool'.pendingTransactions = pool.pendingTransactions
    BY <1>2, <1>9 DEF AddQueuedTransaction, ReplaceQueuedTransaction, RefuseUnderpriced, PoolState
  <2> QED
    BY <1>2, <2>1 DEF PendingIsGapFree, Pending
<1> QED
  BY <1>7, <1>8, <1>9 DEF AddTransaction

LEMMA RemoveKeepsGapFree ==
    ASSUME GapFreeInv, NEW entry \in pool.hashToTransaction, RemoveTransaction(entry)
    PROVE  PendingIsGapFree(pool', account)
<1> DEFINE s == entry.data.sender
           q == Pending(pool, s)
<1>1. pool \in PoolState /\ s \in Senders /\ PendingIsGapFree(pool, account)
  BY TxTypes DEF GapFreeInv, TypeOK, PoolState
<1>2. q \in Seq(OrderedTx) /\ Len(q) \in Nat /\ DOMAIN q = 1 .. Len(q)
  BY <1>1, ListTypes
<1>3. CASE RemovePendingTransaction(entry)
  <2>1. PICK i \in DOMAIN q :
          pool' = [pool EXCEPT
            !.pendingTransactions[s] = SubSeq(@, 1, i - 1),
            !.queuedTransactions[s] = @ \union {q[j] : j \in {k \in DOMAIN q : k > i}},
            !.hashToTransaction = Unindexed(@, {entry.data})]
    BY <1>3 DEF RemovePendingTransaction
  <2> DEFINE list == SubSeq(q, 1, i - 1)
  <2>2. pool'.pendingTransactions = [pool.pendingTransactions EXCEPT ![s] = list]
    BY <1>1, <2>1 DEF PoolState, Pending
  <2>3. /\ list \in Seq(OrderedTx) /\ Len(list) = i - 1
        /\ \A j \in 1 .. i - 1 : list[j] = q[j]
    <3>1. i \in 1 .. Len(q) /\ \A j \in 1 .. i - 1 : q[j] \in OrderedTx
      BY <1>1, <1>2, ListTypes
    <3> HIDE DEF q
    <3>2. i - 1 \in Int /\ (IF 1 <= i - 1 THEN (i - 1) - 1 + 1 ELSE 0) = i - 1
      BY <1>2, <3>1
    <3>3. /\ list \in Seq(OrderedTx)
          /\ Len(list) = IF 1 <= i - 1 THEN (i - 1) - 1 + 1 ELSE 0
          /\ \A j \in 1 .. (i - 1) - 1 + 1 : list[j] = q[1 + j - 1]
      BY <3>1, <3>2, SubSeqProperties
    <3> HIDE DEF list
    <3> QED
      BY <1>2, <3>1, <3>2, <3>3
  <2> HIDE DEF list
  <2>4. \A j \in 1 .. i - 1 : list[j].data.nonce = account[s].nonce + j - 1
    BY <1>1, <1>2, <2>3 DEF PendingIsGapFree
  <2>5. pool.pendingTransactions \in [Senders -> Seq(OrderedTx)]
    BY <1>1 DEF PoolState
  <2> SUFFICES ASSUME NEW t \in Senders, NEW j \in DOMAIN Pending(pool', t)
               PROVE  Pending(pool', t)[j].data.nonce = account[t].nonce + j - 1
    BY DEF PendingIsGapFree
  <2>6. CASE t = s
    BY <2>2, <2>3, <2>4, <2>5, <2>6, LenProperties DEF Pending
  <2>7. CASE t # s
    BY <1>1, <2>2, <2>5, <2>7 DEF Pending, PendingIsGapFree
  <2> QED
    BY <2>6, <2>7
<1>4. CASE RemoveQueuedTransaction(entry)
  <2>1. pool'.pendingTransactions = pool.pendingTransactions
    BY <1>1, <1>4 DEF RemoveQueuedTransaction, PoolState
  <2> QED
    BY <1>1, <2>1 DEF PendingIsGapFree, Pending
<1> QED
  BY <1>3, <1>4 DEF RemoveTransaction

\* GapFreeInv is inductive.
LEMMA GapFreeStep == GapFreeInv /\ [Next]_vars /\ TypeOK' => GapFreeInv'
<1> SUFFICES ASSUME GapFreeInv, [Next]_vars, TypeOK' PROVE GapFreeInv'
  OBVIOUS
<1> USE DEF GapFreeInv
<1>0. pool \in PoolState /\ account \in [Senders -> AccountType]
  BY DEF TypeOK
<1>1. ASSUME NEW tx \in Txs, AddTransaction(tx) PROVE GapFreeInv'
  <2>1. UNCHANGED <<snapshotIdToState, account>>
    BY <1>1 DEF AddTransaction, AddPendingTransaction, ReplacePendingTransaction,
                AddQueuedTransaction, ReplaceQueuedTransaction, RefuseUnderpriced, Submit
  <2> QED
    BY <1>1, <2>1, AddKeepsGapFree
<1>2. ASSUME NEW entry \in pool.hashToTransaction, RemoveTransaction(entry) PROVE GapFreeInv'
  <2>1. UNCHANGED <<snapshotIdToState, account>>
    BY <1>2 DEF RemoveTransaction, RemovePendingTransaction, RemoveQueuedTransaction
  <2> QED
    BY <1>2, <2>1, RemoveKeepsGapFree
<1>3. ASSUME NEW limit \in GasLimits, SetBlockGasLimit(limit) PROVE GapFreeInv'
  <2> DEFINE p == [pool EXCEPT !.blockGasLimit = limit]
  <2>1. p \in PoolState /\ PendingIsGapFree(p, account)
    BY AmountsAssumption DEF TypeOK, PoolState, PendingIsGapFree, Pending
  <2>2. pool' = UpdatedPool(p, account) /\ UNCHANGED <<snapshotIdToState, account>>
    BY <1>3 DEF SetBlockGasLimit
  <2>3. \A s \in Senders : account[s].nonce >= account[s].nonce
    BY <1>0 DEF AccountType
  <2> HIDE DEF p
  <2>4. PendingIsGapFree(UpdatedPool(p, account), account)
    BY <1>0, <2>1, <2>3, UpdateKeepsGapFree
  <2> QED
    BY <2>2, <2>4
<1>4. CASE Snapshot
  BY <1>4 DEF Snapshot
<1>5. ASSUME NEW id \in DOMAIN snapshotIdToState, Revert(id) PROVE GapFreeInv'
  BY <1>5 DEF Revert
<1>6. CASE MineBlock
  <2>1. PICK mined \in [Senders -> 0 .. MaxNonce], created \in [Contracts -> 0 .. 1],
             balance \in [Senders -> Balances] :
        account' = [s \in Senders |->
            [nonce |-> account[s].nonce + mined[s] +
                        (IF s \in Contracts THEN created[s] ELSE 0),
             balance |-> balance[s]]]
    BY <1>6 DEF MineBlock
  <2>2. pool' = UpdatedPool(pool, account') /\ snapshotIdToState' = snapshotIdToState
    BY <1>6 DEF MineBlock
  <2>3. account' \in [Senders -> AccountType]
    BY DEF TypeOK
  <2>4. \A s \in Senders : account'[s].nonce >= account[s].nonce
    <3> TAKE s \in Senders
    <3>1. account'[s].nonce =
            account[s].nonce + mined[s] + (IF s \in Contracts THEN created[s] ELSE 0)
      BY <2>1
    <3>2. mined[s] \in 0 .. MaxNonce /\ (IF s \in Contracts THEN created[s] ELSE 0) \in Nat
      BY <2>1
    <3>3. account[s].nonce \in Nat
      BY <1>0 DEF AccountType
    <3> QED
      BY <3>1, <3>2, <3>3
  <2>5. PendingIsGapFree(UpdatedPool(pool, account'), account')
    BY <1>0, <2>3, <2>4, UpdateKeepsGapFree
  <2> QED
    BY <2>2, <2>5
<1>7. ASSUME NEW s \in Senders, NEW balance \in Balances, SetBalance(s, balance)
      PROVE  GapFreeInv'
  <2>1. \A t \in Senders : account'[t].nonce = account[t].nonce
    BY <1>0, <1>7 DEF SetBalance, AccountType
  <2>2. UNCHANGED <<pool, snapshotIdToState>>
    BY <1>7 DEF SetBalance
  <2> QED
    BY <2>1, <2>2 DEF PendingIsGapFree
<1>8. ASSUME NEW s \in Senders, NEW nonce \in 0 .. MaxNonce, SetNonce(s, nonce)
      PROVE  GapFreeInv'
  <2>1. UNCHANGED <<pool, snapshotIdToState>> /\ \A t \in Senders : Pending(pool, t) = << >>
    BY <1>8 DEF SetNonce, IsEmpty, HasPendingTransactions
  <2> QED
    BY <2>1, EmptySeq DEF PendingIsGapFree
<1>9. CASE UNCHANGED vars
  BY <1>9 DEF vars
<1> QED
  BY <1>1, <1>2, <1>3, <1>4, <1>5, <1>6, <1>7, <1>8, <1>9 DEF Next

LEMMA GapFreeInit == Init => GapFreeInv
<1> SUFFICES ASSUME Init PROVE GapFreeInv
  OBVIOUS
<1>1. TypeOK
  BY InitType
<1>2. \A s \in Senders : Pending(pool, s) = << >>
  BY DEF Init, Pending
<1>3. DOMAIN snapshotIdToState = {}
  BY DEF Init
<1> QED
  BY <1>1, <1>2, <1>3 DEF GapFreeInv, PendingIsGapFree

\* In every reachable state the pending list of every sender starts at its confirmed
\* nonce and has no gap: what updatePendingAndQueued, removeTransaction and the
\* replacement rules are there to keep, and what TransactionQueue relies on.  It holds
\* for any transactions, balances, gas limits and bounds, and also when the nonce of a
\* contract moves by CREATE.
THEOREM PendingExecutable == Spec => []PendingIsExecutable
<1>1. GapFreeInv => PendingIsExecutable
  BY DEF GapFreeInv, PendingIsExecutable
<1> QED
  BY <1>1, GapFreeInit, GapFreeStep, TypeCorrect, PTL DEF Spec

-----------------------------------------------------------------------------
(* What is in the lists and in the index after each operation.             *)

LEMMA ElementsType ==
    ASSUME NEW q \in Seq(OrderedTx)
    PROVE  ElementsOf(q) \subseteq OrderedTx /\ \A e : e \in ElementsOf(q) <=> \E i \in 1 .. Len(q) : q[i] = e
  BY LenProperties DEF ElementsOf

LEMMA ListsJoined ==
    ASSUME NEW q \in Seq(OrderedTx), NEW e \in OrderedTx, NEW run \in Seq(OrderedTx)
    PROVE  /\ Append(q, e) \o run \in Seq(OrderedTx)
           /\ Len(Append(q, e) \o run) = Len(q) + 1 + Len(run)
           /\ ElementsOf(Append(q, e) \o run) = ElementsOf(q) \union {e} \union ElementsOf(run)
<1> DEFINE list == Append(q, e) \o run
<1>1. Append(q, e) \in Seq(OrderedTx) /\ Len(Append(q, e)) = Len(q) + 1
  BY AppendProperties
<1>2. Len(run) \in Nat /\ Len(q) \in Nat
  BY LenProperties
<1>3. /\ list \in Seq(OrderedTx)
      /\ Len(list) = Len(q) + 1 + Len(run)
      /\ \A i \in 1 .. Len(q) : list[i] = q[i]
      /\ list[Len(q) + 1] = e
      /\ \A i \in Len(q) + 2 .. Len(list) : list[i] = run[i - Len(q) - 1]
  BY <1>1, <1>2, AppendProperties, ConcatProperties
<1> HIDE DEF list
<1>4. \A i \in 1 .. Len(list) : i \in 1 .. Len(q) \/ i = Len(q) + 1 \/
                                 (i \in Len(q) + 2 .. Len(list) /\ i - Len(q) - 1 \in 1 .. Len(run))
  <2>1. \A a, b \in Nat : \A i \in 1 .. a + 1 + b : i \in 1 .. a \/ i = a + 1 \/
                                 (i \in a + 2 .. a + 1 + b /\ i - a - 1 \in 1 .. b)
    OBVIOUS
  <2> QED
    BY <1>2, <1>3, <2>1
<1>5. ElementsOf(list) \subseteq ElementsOf(q) \union {e} \union ElementsOf(run)
  <2> SUFFICES ASSUME NEW i \in 1 .. Len(list)
               PROVE  list[i] \in ElementsOf(q) \union {e} \union ElementsOf(run)
    BY <1>3, ElementsType
  <2>1. CASE i \in 1 .. Len(q)
    <3>1. list[i] = q[i]
      BY <1>3, <2>1
    <3> QED
      BY <2>1, <3>1, ElementsType
  <2>2. CASE i = Len(q) + 1
    BY <1>3, <2>2
  <2>3. CASE i \in Len(q) + 2 .. Len(list) /\ i - Len(q) - 1 \in 1 .. Len(run)
    <3> DEFINE j == i - Len(q) - 1
    <3>1. list[i] = run[j] /\ j \in 1 .. Len(run)
      BY <1>3, <2>3
    <3> HIDE DEF j
    <3> QED
      BY <3>1, ElementsType
  <2> QED
    BY <1>4, <2>1, <2>2, <2>3
<1>6. \A j \in 1 .. Len(run) : j + Len(q) + 1 \in Len(q) + 2 .. Len(list) /\ (j + Len(q) + 1) - Len(q) - 1 = j
  BY <1>2, <1>3
<1>7. \A j \in 1 .. Len(run) : run[j] \in ElementsOf(list)
  <2> TAKE j \in 1 .. Len(run)
  <2> DEFINE k == j + Len(q) + 1
  <2>1. k \in Len(q) + 2 .. Len(list) /\ k - Len(q) - 1 = j
    BY <1>6
  <2>2. k \in 1 .. Len(list)
    BY <1>2, <1>3
  <2> HIDE DEF k
  <2>3. list[k] = run[j]
    BY <1>3, <2>1
  <2> QED
    BY <1>3, <2>2, <2>3, ElementsType
<1>8. \A j \in 1 .. Len(q) : q[j] \in ElementsOf(list)
  <2> TAKE j \in 1 .. Len(q)
  <2>0. \A a, b \in Nat : \A k \in 1 .. a : k \in 1 .. a + 1 + b
    OBVIOUS
  <2>1. j \in 1 .. Len(list) /\ list[j] = q[j]
    BY <1>2, <1>3, <2>0
  <2> QED
    BY <1>3, <2>1, ElementsType
<1>9. e \in ElementsOf(list)
  <2>1. Len(q) + 1 \in 1 .. Len(list)
    BY <1>2, <1>3
  <2> QED
    BY <1>3, <2>1, ElementsType
<1>10. ElementsOf(q) \union {e} \union ElementsOf(run) \subseteq ElementsOf(list)
  BY <1>7, <1>8, <1>9, ElementsType
<1>11. ElementsOf(list) = ElementsOf(q) \union {e} \union ElementsOf(run)
  BY <1>5, <1>10
<1> QED
  BY <1>3, <1>11 DEF list

\* A pool that differs from p in what is gone and what has come.
Differs(p2, p, gone, come) ==
    /\ \A s \in Senders : Listed(p2, s) \subseteq Listed(p, s) \union {e \in come : e.data.sender = s}
    /\ \A s \in Senders : Listed(p, s) \ gone \subseteq Listed(p2, s)
    /\ \A e \in p2.hashToTransaction :
        (e \in p.hashToTransaction /\ e \notin gone) \/ (e \in come /\ e \in Listed(p2, e.data.sender))
    /\ p2.blockGasLimit = p.blockGasLimit

\* Nothing but a transaction that tx replaces is gone when tx is added.
ReplacedBy(tx, gone) ==
    \A e \in gone :
        /\ e \in Listed(pool, tx.sender)
        /\ e.data.nonce = tx.nonce /\ CanReplace(tx, e.data)
        /\ Arriving(tx) \in Listed(pool', tx.sender)

LEMMA AddReplaces ==
    ASSUME TypeOK, NEW tx \in Txs, AddTransaction(tx)
    PROVE  \E gone \in SUBSET OrderedTx :
             Differs(pool', pool, gone, {Arriving(tx)}) /\ ReplacedBy(tx, gone)
<1> DEFINE s == tx.sender
           q == Pending(pool, s)
           A == Arriving(tx)
<1>1. s \in Senders /\ tx.nonce \in Nat
  BY TxsAssumption DEF TxType
<1>2. pool \in PoolState /\ pool.hashToTransaction \subseteq OrderedTx
  BY DEF TypeOK, PoolState
<1>3. q \in Seq(OrderedTx) /\ Len(q) \in Nat /\ Queued(pool, s) \subseteq OrderedTx
  BY <1>1, <1>2, ListTypes
<1>4. A \in OrderedTx /\ A.data = tx
  BY ArrivingType
<1>5. ASSUME NEW list, NEW queued, NEW index, NEW gone \in SUBSET OrderedTx,
             pool'.pendingTransactions = [pool.pendingTransactions EXCEPT ![s] = list],
             pool'.queuedTransactions = [pool.queuedTransactions EXCEPT ![s] = queued],
             pool'.hashToTransaction = Indexed(index, A),
             pool'.blockGasLimit = pool.blockGasLimit,
             index \subseteq pool.hashToTransaction \ gone,
             ElementsOf(list) \union queued \subseteq Listed(pool, s) \union {A},
             Listed(pool, s) \ gone \subseteq ElementsOf(list) \union queued,
             A \in ElementsOf(list) \union queued
      PROVE  Differs(pool', pool, gone, {A})
  <2>1. /\ pool.pendingTransactions \in [Senders -> Seq(OrderedTx)]
        /\ pool.queuedTransactions \in [Senders -> SUBSET OrderedTx]
    BY <1>2 DEF PoolState
  <2>2. Listed(pool', s) = ElementsOf(list) \union queued
    BY <1>1, <1>5, <2>1 DEF Listed, Pending, Queued
  <2>3. \A t \in Senders : t # s => Listed(pool', t) = Listed(pool, t)
    BY <1>1, <1>5, <2>1 DEF Listed, Pending, Queued
  <2>4. \A e \in pool'.hashToTransaction : e \in index \/ e = A
    BY <1>5 DEF Indexed, Unindexed
  <2> HIDE DEF A, q
  <2>5. \A t \in Senders : Listed(pool', t) \subseteq Listed(pool, t) \union {e \in {A} : e.data.sender = t}
    <3> TAKE t \in Senders
    <3>1. CASE t = s
      BY <1>4, <1>5, <2>2, <3>1
    <3>2. CASE t # s
      BY <2>3, <3>2
    <3> QED
      BY <3>1, <3>2
  <2>6. \A t \in Senders : Listed(pool, t) \ gone \subseteq Listed(pool', t)
    BY <1>5, <2>2, <2>3
  <2>7. \A e \in pool'.hashToTransaction :
            (e \in pool.hashToTransaction /\ e \notin gone) \/ (e \in {A} /\ e \in Listed(pool', e.data.sender))
    BY <1>4, <1>5, <2>2, <2>4
  <2> QED
    BY <1>5, <2>5, <2>6, <2>7 DEF Differs
<1> HIDE DEF A
<1>6. CASE AddPendingTransaction(tx)
  <2> DEFINE queued == Queued(pool, s)
             next == tx.nonce + 1
  <2>1. PICK last \in {tx.nonce} \union {e.data.nonce : e \in queued} :
          /\ LongestRun(queued, next, last)
          /\ pool' = [pool EXCEPT
                !.pendingTransactions[s] = Append(@, A) \o Run(queued, next, last),
                !.queuedTransactions[s] = @ \ ElementsOf(Run(queued, next, last)),
                !.hashToTransaction = Indexed(@, A)]
    BY <1>6, Zenon DEF AddPendingTransaction, A
  <2>2. queued \subseteq OrderedTx /\ last \in Int /\ next \in Nat
    BY <1>1, <1>2, ListTypes, TxTypes
  <2>3. last >= next - 1
    BY <1>1, <2>1, <2>2, RunEnd DEF LongestRun
  <2> DEFINE run == Run(queued, next, last)
             list == Append(q, A) \o run
  <2>4. run \in Seq(OrderedTx) /\ ElementsOf(run) \subseteq queued
    <3>1. IsRun(queued, next, last)
      BY <2>1 DEF LongestRun
    <3>2. /\ run \in Seq(OrderedTx)
          /\ Len(run) = last - next + 1
          /\ \A i \in 1 .. last - next + 1 : run[i] \in queued
      BY <2>2, <2>3, <3>1, RunLemma
    <3> HIDE DEF run
    <3> QED
      BY <3>2, ElementsType
  <2>5. /\ pool'.pendingTransactions = [pool.pendingTransactions EXCEPT ![s] = list]
        /\ pool'.queuedTransactions = [pool.queuedTransactions EXCEPT ![s] = queued \ ElementsOf(run)]
        /\ pool'.hashToTransaction = Indexed(pool.hashToTransaction, A)
        /\ pool'.blockGasLimit = pool.blockGasLimit
    BY <1>2, <2>1 DEF PoolState, Pending, Queued
  <2>6. Listed(pool, s) = ElementsOf(q) \union queued
    BY DEF Listed
  <2> HIDE DEF run, queued, next, q
  <2>7. ElementsOf(list) = ElementsOf(q) \union {A} \union ElementsOf(run)
    BY <1>3, <1>4, <2>4, ListsJoined
  <2> HIDE DEF list
  <2>8. /\ ElementsOf(list) \union (queued \ ElementsOf(run)) \subseteq Listed(pool, s) \union {A}
        /\ Listed(pool, s) \ {} \subseteq ElementsOf(list) \union (queued \ ElementsOf(run))
        /\ A \in ElementsOf(list) \union (queued \ ElementsOf(run))
        /\ pool.hashToTransaction \subseteq pool.hashToTransaction \ {}
        /\ {} \in SUBSET OrderedTx
    BY <2>4, <2>6, <2>7
  <2>9. Differs(pool', pool, {}, {A})
    BY <1>5, <2>5, <2>8
  <2> QED
    BY <2>9 DEF A, ReplacedBy
<1>7. CASE ReplacePendingTransaction(tx)
  <2>1. PICK i \in DOMAIN q :
          /\ q[i].data.nonce = tx.nonce
          /\ CanReplace(tx, q[i].data)
          /\ pool' = [pool EXCEPT
            !.pendingTransactions[s][i] = A,
            !.hashToTransaction = Indexed(Unindexed(@, {q[i].data}), A)]
    BY <1>7 DEF ReplacePendingTransaction, A
  <2> DEFINE list == [q EXCEPT ![i] = A]
             index == Unindexed(pool.hashToTransaction, {q[i].data})
  <2>2. i \in 1 .. Len(q) /\ q[i] \in OrderedTx
    BY <1>3, LenProperties
  <2>3. /\ list \in Seq(OrderedTx) /\ Len(list) = Len(q)
        /\ \A j \in 1 .. Len(q) : list[j] = IF j = i THEN A ELSE q[j]
    BY <1>3, <1>4, <2>2, ExceptSeq
  <2>4. /\ pool'.pendingTransactions = [pool.pendingTransactions EXCEPT ![s] = list]
        /\ pool'.queuedTransactions = [pool.queuedTransactions EXCEPT ![s] = Queued(pool, s)]
        /\ pool'.hashToTransaction = Indexed(index, A)
        /\ pool'.blockGasLimit = pool.blockGasLimit
    BY <1>2, <2>1 DEF PoolState, Pending, Queued
  <2>5. Listed(pool, s) = ElementsOf(q) \union Queued(pool, s)
    BY DEF Listed
  <2>6. index \subseteq pool.hashToTransaction \ {q[i]}
    BY DEF Unindexed
  <2> HIDE DEF list, q, index
  <2>7. /\ ElementsOf(list) \subseteq ElementsOf(q) \union {A}
        /\ ElementsOf(q) \ {q[i]} \subseteq ElementsOf(list)
        /\ A \in ElementsOf(list)
    BY <1>3, <2>2, <2>3, ElementsType
  <2>8. /\ ElementsOf(list) \union Queued(pool, s) \subseteq Listed(pool, s) \union {A}
        /\ Listed(pool, s) \ {q[i]} \subseteq ElementsOf(list) \union Queued(pool, s)
        /\ A \in ElementsOf(list) \union Queued(pool, s)
        /\ {q[i]} \in SUBSET OrderedTx
    BY <2>2, <2>5, <2>7
  <2>9. Differs(pool', pool, {q[i]}, {A})
    BY <1>5, <2>4, <2>6, <2>8
  <2>10. A \in Listed(pool', s)
    <3>1. pool.pendingTransactions \in [Senders -> Seq(OrderedTx)]
      BY <1>2 DEF PoolState
    <3>2. Pending(pool', s) = list
      BY <1>1, <2>4, <3>1 DEF Pending
    <3> QED
      BY <2>7, <3>2 DEF Listed
  <2>11. q[i] \in Listed(pool, s)
    BY <1>3, <2>2, <2>5, ElementsType
  <2>12. ReplacedBy(tx, {q[i]})
    BY <2>1, <2>11, <2>10 DEF ReplacedBy, A
  <2> QED
    BY <2>8, <2>9, <2>12 DEF A
<1>8. CASE AddQueuedTransaction(tx)
  <2>1. pool' = [pool EXCEPT
            !.queuedTransactions[s] = @ \union {A},
            !.hashToTransaction = Indexed(@, A)]
    BY <1>8 DEF AddQueuedTransaction, A
  <2>2. /\ pool'.pendingTransactions = [pool.pendingTransactions EXCEPT ![s] = q]
        /\ pool'.queuedTransactions = [pool.queuedTransactions EXCEPT ![s] = Queued(pool, s) \union {A}]
        /\ pool'.hashToTransaction = Indexed(pool.hashToTransaction, A)
        /\ pool'.blockGasLimit = pool.blockGasLimit
    BY <1>2, <2>1 DEF PoolState, Pending, Queued
  <2>3. Listed(pool, s) = ElementsOf(q) \union Queued(pool, s)
    BY DEF Listed
  <2> HIDE DEF q
  <2>4. /\ ElementsOf(q) \union (Queued(pool, s) \union {A}) \subseteq Listed(pool, s) \union {A}
        /\ Listed(pool, s) \ {} \subseteq ElementsOf(q) \union (Queued(pool, s) \union {A})
        /\ A \in ElementsOf(q) \union (Queued(pool, s) \union {A})
        /\ pool.hashToTransaction \subseteq pool.hashToTransaction \ {}
        /\ {} \in SUBSET OrderedTx
    BY <2>3
  <2>5. Differs(pool', pool, {}, {A})
    BY <1>5, <2>2, <2>4
  <2> QED
    BY <2>5 DEF A, ReplacedBy
<1>9. CASE ReplaceQueuedTransaction(tx)
  <2>1. PICK e \in Queued(pool, s) :
          /\ e.data.nonce = tx.nonce
          /\ CanReplace(tx, e.data)
          /\ pool' = [pool EXCEPT
            !.queuedTransactions[s] = (@ \ {e}) \union {A},
            !.hashToTransaction = Indexed(Unindexed(@, {e.data}), A)]
    BY <1>9 DEF ReplaceQueuedTransaction, SameNonce, A
  <2> DEFINE index == Unindexed(pool.hashToTransaction, {e.data})
  <2>2. /\ pool'.pendingTransactions = [pool.pendingTransactions EXCEPT ![s] = q]
        /\ pool'.queuedTransactions = [pool.queuedTransactions EXCEPT ![s] = (Queued(pool, s) \ {e}) \union {A}]
        /\ pool'.hashToTransaction = Indexed(index, A)
        /\ pool'.blockGasLimit = pool.blockGasLimit
    BY <1>2, <2>1 DEF PoolState, Pending, Queued
  <2>3. Listed(pool, s) = ElementsOf(q) \union Queued(pool, s)
    BY DEF Listed
  <2>4. index \subseteq pool.hashToTransaction \ {e} /\ e \in OrderedTx
    BY <1>3 DEF Unindexed
  <2> HIDE DEF q, index
  <2>5. /\ ElementsOf(q) \union ((Queued(pool, s) \ {e}) \union {A}) \subseteq Listed(pool, s) \union {A}
        /\ Listed(pool, s) \ {e} \subseteq ElementsOf(q) \union ((Queued(pool, s) \ {e}) \union {A})
        /\ A \in ElementsOf(q) \union ((Queued(pool, s) \ {e}) \union {A})
        /\ {e} \in SUBSET OrderedTx
    BY <2>3, <2>4
  <2>6. Differs(pool', pool, {e}, {A})
    BY <1>5, <2>2, <2>4, <2>5
  <2>7. A \in Listed(pool', s)
    <3>1. pool.queuedTransactions \in [Senders -> SUBSET OrderedTx]
      BY <1>2 DEF PoolState
    <3>2. Queued(pool', s) = (Queued(pool, s) \ {e}) \union {A}
      BY <1>1, <2>2, <3>1 DEF Queued
    <3> QED
      BY <3>2 DEF Listed
  <2>8. e \in Listed(pool, s)
    BY <2>3
  <2>9. ReplacedBy(tx, {e})
    BY <2>1, <2>8, <2>7 DEF ReplacedBy, A
  <2> QED
    BY <2>5, <2>6, <2>9 DEF A
<1>10. CASE RefuseUnderpriced(tx)
  <2>1. pool' = pool
    BY <1>10 DEF RefuseUnderpriced
  <2>2. Differs(pool', pool, {}, {Arriving(tx)})
    BY <2>1 DEF Differs
  <2> QED
    BY <2>2 DEF ReplacedBy
<1> QED
  BY <1>6, <1>7, <1>8, <1>9, <1>10 DEF AddTransaction

LEMMA AddContents ==
    ASSUME TypeOK, NEW tx \in Txs, AddTransaction(tx)
    PROVE  \E gone \in SUBSET OrderedTx : Differs(pool', pool, gone, {Arriving(tx)})
<1>1. PICK gone \in SUBSET OrderedTx :
        Differs(pool', pool, gone, {Arriving(tx)}) /\ ReplacedBy(tx, gone)
  BY AddReplaces
<1> QED
  BY <1>1

LEMMA RemoveContents ==
    ASSUME TypeOK, NEW entry \in pool.hashToTransaction, RemoveTransaction(entry)
    PROVE  Differs(pool', pool, {entry}, {})
<1> DEFINE s == entry.data.sender
           q == Pending(pool, s)
<1>1. pool \in PoolState /\ s \in Senders /\ entry \in OrderedTx
  BY TxTypes DEF TypeOK, PoolState
<1>2. /\ pool.pendingTransactions \in [Senders -> Seq(OrderedTx)]
      /\ pool.queuedTransactions \in [Senders -> SUBSET OrderedTx]
  BY <1>1 DEF PoolState
<1>3. q \in Seq(OrderedTx) /\ Len(q) \in Nat /\ DOMAIN q = 1 .. Len(q)
  BY <1>1, ListTypes
<1>4. ASSUME NEW list, NEW queued,
             pool'.pendingTransactions = [pool.pendingTransactions EXCEPT ![s] = list],
             pool'.queuedTransactions = [pool.queuedTransactions EXCEPT ![s] = queued],
             pool'.hashToTransaction = Unindexed(pool.hashToTransaction, {entry.data}),
             pool'.blockGasLimit = pool.blockGasLimit,
             ElementsOf(list) \union queued \subseteq Listed(pool, s),
             Listed(pool, s) \ {entry} \subseteq ElementsOf(list) \union queued
      PROVE  Differs(pool', pool, {entry}, {})
  <2>1. Listed(pool', s) = ElementsOf(list) \union queued
    BY <1>1, <1>2, <1>4 DEF Listed, Pending, Queued
  <2>2. \A t \in Senders : t # s => Listed(pool', t) = Listed(pool, t)
    BY <1>1, <1>2, <1>4 DEF Listed, Pending, Queued
  <2>3. \A e \in pool'.hashToTransaction : e \in pool.hashToTransaction /\ e # entry
    BY <1>4 DEF Unindexed
  <2> QED
    BY <1>4, <2>1, <2>2, <2>3 DEF Differs
<1>5. CASE RemovePendingTransaction(entry)
  <2>1. PICK i \in DOMAIN q :
          /\ q[i] = entry
          /\ pool' = [pool EXCEPT
            !.pendingTransactions[s] = SubSeq(@, 1, i - 1),
            !.queuedTransactions[s] = @ \union {q[j] : j \in {k \in DOMAIN q : k > i}},
            !.hashToTransaction = Unindexed(@, {entry.data})]
    BY <1>5 DEF RemovePendingTransaction
  <2> DEFINE list == SubSeq(q, 1, i - 1)
             moved == {q[j] : j \in {k \in DOMAIN q : k > i}}
  <2>2. /\ pool'.pendingTransactions = [pool.pendingTransactions EXCEPT ![s] = list]
        /\ pool'.queuedTransactions = [pool.queuedTransactions EXCEPT ![s] = Queued(pool, s) \union moved]
        /\ pool'.hashToTransaction = Unindexed(pool.hashToTransaction, {entry.data})
        /\ pool'.blockGasLimit = pool.blockGasLimit
    BY <1>1, <2>1 DEF PoolState, Pending, Queued
  <2>3. Listed(pool, s) = ElementsOf(q) \union Queued(pool, s)
    BY DEF Listed
  <2>4. i \in 1 .. Len(q) /\ \A j \in 1 .. i - 1 : q[j] \in OrderedTx
    BY <1>1, <1>3, ListTypes
  <2>5. \A e : e \in moved <=> \E j \in 1 .. Len(q) : j > i /\ q[j] = e
    BY <1>3
  <2> HIDE DEF q, moved
  <2>6. /\ list \in Seq(OrderedTx) /\ Len(list) = i - 1
        /\ \A j \in 1 .. i - 1 : list[j] = q[j]
    <3>1. i - 1 \in Int /\ (IF 1 <= i - 1 THEN (i - 1) - 1 + 1 ELSE 0) = i - 1
      BY <1>3, <2>4
    <3>2. /\ list \in Seq(OrderedTx)
          /\ Len(list) = IF 1 <= i - 1 THEN (i - 1) - 1 + 1 ELSE 0
          /\ \A j \in 1 .. (i - 1) - 1 + 1 : list[j] = q[1 + j - 1]
      BY <2>4, <3>1, SubSeqProperties
    <3> HIDE DEF list
    <3> QED
      BY <1>3, <2>4, <3>1, <3>2
  <2> HIDE DEF list
  <2>7. ElementsOf(list) \union moved \subseteq ElementsOf(q)
    BY <1>3, <2>4, <2>5, <2>6, ElementsType
  <2>8. ElementsOf(q) \ {entry} \subseteq ElementsOf(list) \union moved
    <3> SUFFICES ASSUME NEW j \in 1 .. Len(q), q[j] # entry PROVE q[j] \in ElementsOf(list) \union moved
      BY <1>3, ElementsType
    <3>1. j < i \/ j > i
      BY <1>3, <2>1, <2>4
    <3>2. CASE j < i
      <4>1. j \in 1 .. Len(list) /\ list[j] = q[j]
        BY <1>3, <2>4, <2>6, <3>2
      <4> QED
        BY <2>6, <4>1, ElementsType
    <3>3. CASE j > i
      BY <2>5, <3>3
    <3> QED
      BY <3>1, <3>2, <3>3
  <2> QED
    BY <1>4, <2>2, <2>3, <2>7, <2>8
<1>6. CASE RemoveQueuedTransaction(entry)
  <2>1. pool' = [pool EXCEPT
            !.queuedTransactions[s] = @ \ {entry},
            !.hashToTransaction = Unindexed(@, {entry.data})]
    BY <1>6 DEF RemoveQueuedTransaction
  <2>2. /\ pool'.pendingTransactions = [pool.pendingTransactions EXCEPT ![s] = q]
        /\ pool'.queuedTransactions = [pool.queuedTransactions EXCEPT ![s] = Queued(pool, s) \ {entry}]
        /\ pool'.hashToTransaction = Unindexed(pool.hashToTransaction, {entry.data})
        /\ pool'.blockGasLimit = pool.blockGasLimit
    BY <1>1, <2>1 DEF PoolState, Pending, Queued
  <2>3. Listed(pool, s) = ElementsOf(q) \union Queued(pool, s)
    BY DEF Listed
  <2> HIDE DEF q
  <2> QED
    BY <1>4, <2>2, <2>3
<1> QED
  BY <1>5, <1>6 DEF RemoveTransaction

LEMMA UpdateContents ==
    ASSUME NEW p \in PoolState, NEW acc \in [Senders -> AccountType]
    PROVE  /\ \A s \in Senders : Listed(UpdatedPool(p, acc), s) \subseteq Listed(p, s)
           /\ \A e \in UpdatedPool(p, acc).hashToTransaction :
                /\ e \in p.hashToTransaction
                /\ \A s \in Senders : e \in Listed(p, s) => e \in Listed(UpdatedPool(p, acc), s)
           /\ UpdatedPool(p, acc).blockGasLimit = p.blockGasLimit
<1> DEFINE U == UpdatedPool(p, acc)
           moved(s) == {e \in MovedToQueued(p, acc, s) : IsTxValid(p, acc, e.data)}
<1>1. \A s \in Senders : Listed(U, s) = ElementsOf(Kept(p, acc, s)) \union (StillQueued(p, acc, s) \union moved(s))
  BY DEF UpdatedPool, Listed, Pending, Queued
<1>2. \A s \in Senders : ElementsOf(Kept(p, acc, s)) \subseteq ElementsOf(Pending(p, s))
  <2> SUFFICES ASSUME NEW s \in Senders, NEW i \in 1 .. Len(Kept(p, acc, s))
               PROVE  Kept(p, acc, s)[i] \in ElementsOf(Pending(p, s))
    BY KeptLemma, ElementsType
  <2> DEFINE a == FirstLive(p, acc, s)
             b == FirstInvalid(p, acc, s)
  <2>1. /\ a \in 1 .. Len(Pending(p, s)) + 1 /\ b \in 1 .. Len(Pending(p, s)) + 1
        /\ Len(Pending(p, s)) \in Nat
    BY CutPositions, ListTypes
  <2>2. Len(Kept(p, acc, s)) = b - a /\ Kept(p, acc, s)[i] = Pending(p, s)[a + i - 1]
    BY KeptLemma
  <2> HIDE DEF a, b
  <2>3. a + i - 1 \in 1 .. Len(Pending(p, s))
    BY <2>1, <2>2
  <2> QED
    BY <2>2, <2>3, ListTypes, ElementsType
<1>3. \A s \in Senders : moved(s) \subseteq ElementsOf(Pending(p, s))
  BY DEF MovedToQueued, ElementsOf
<1>4. \A s \in Senders : StillQueued(p, acc, s) \subseteq Queued(p, s)
  BY DEF StillQueued
<1>5. \A e \in U.hashToTransaction :
        /\ e \in p.hashToTransaction
        /\ \A s \in Senders : e \notin LeavesIndex(p, acc, s)
  BY DEF UpdatedPool, Unindexed
<1>6. \A s \in Senders : \A e \in Listed(p, s) :
        e \notin LeavesIndex(p, acc, s) => e \in Listed(U, s)
  BY <1>1 DEF LeavesIndex
<1>7. U.blockGasLimit = p.blockGasLimit
  BY DEF UpdatedPool
<1> HIDE DEF U, moved
<1>8. \A s \in Senders : Listed(U, s) \subseteq Listed(p, s)
  BY <1>1, <1>2, <1>3, <1>4 DEF Listed
<1>9. \A e \in U.hashToTransaction :
        e \in p.hashToTransaction /\ \A s \in Senders : e \in Listed(p, s) => e \in Listed(U, s)
  BY <1>5, <1>6
<1> QED
  BY <1>7, <1>8, <1>9 DEF U

-----------------------------------------------------------------------------
(* Every indexed entry is listed, and no two listed entries have one number. *)
(* What a snapshot brings back must be numbered below the next number, too.  *)

EntriesAreRight(p, next) ==
    /\ \A e \in p.hashToTransaction : e \in Listed(p, e.data.sender)
    /\ \A e, f \in AllListed(p) : e.orderId = f.orderId => e = f
    /\ \A e \in AllListed(p) : e.orderId < next

EntriesInv ==
    /\ TypeOK
    /\ EntriesAreRight(pool, nextOrderId)
    /\ \A id \in DOMAIN snapshotIdToState : EntriesAreRight(snapshotIdToState[id].pool, nextOrderId)

LEMMA IndexTypes ==
    ASSUME NEW p \in PoolState
    PROVE  \A e \in p.hashToTransaction : e \in OrderedTx /\ e.data.sender \in Senders
  BY TxTypes DEF PoolState

LEMMA EntriesLater ==
    ASSUME NEW p \in PoolState, NEW next \in Nat, EntriesAreRight(p, next)
    PROVE  EntriesAreRight(p, next + 1)
<1>1. \A e \in AllListed(p) : e \in OrderedTx
  BY ListTypes, ElementsType DEF AllListed, Listed
<1> QED
  BY <1>1 DEF EntriesAreRight, OrderedTx

LEMMA EntriesWith ==
    ASSUME NEW p \in PoolState, NEW next \in Nat, EntriesAreRight(p, next), NEW p2 \in PoolState,
           NEW gone, NEW A \in OrderedTx, A.orderId = next, Differs(p2, p, gone, {A})
    PROVE  EntriesAreRight(p2, next + 1)
<1>0. \A e \in AllListed(p) : e \in OrderedTx
  BY ListTypes, ElementsType DEF AllListed, Listed
<1>1. \A e \in AllListed(p) : e.orderId \in Nat /\ e.orderId < next
  BY <1>0 DEF EntriesAreRight, OrderedTx
<1>2. AllListed(p2) \subseteq AllListed(p) \union {A}
  BY DEF AllListed, Differs
<1>3. \A e, f \in AllListed(p2) : e.orderId = f.orderId => e = f
  BY <1>1, <1>2 DEF EntriesAreRight
<1>4. \A e \in AllListed(p2) : e.orderId < next + 1
  BY <1>1, <1>2
<1>5. \A e \in p2.hashToTransaction : e \in Listed(p2, e.data.sender)
  BY IndexTypes DEF Differs, EntriesAreRight
<1> QED
  BY <1>3, <1>4, <1>5 DEF EntriesAreRight

LEMMA EntriesWithout ==
    ASSUME NEW p \in PoolState, NEW next \in Nat, EntriesAreRight(p, next), NEW p2 \in PoolState,
           NEW gone, Differs(p2, p, gone, {})
    PROVE  EntriesAreRight(p2, next)
<1>1. AllListed(p2) \subseteq AllListed(p)
  BY DEF AllListed, Differs
<1>2. \A e \in p2.hashToTransaction : e \in Listed(p2, e.data.sender)
  BY IndexTypes DEF Differs, EntriesAreRight
<1> QED
  BY <1>1, <1>2 DEF EntriesAreRight

LEMMA EntriesUpdated ==
    ASSUME NEW p \in PoolState, NEW acc \in [Senders -> AccountType], NEW next, EntriesAreRight(p, next)
    PROVE  EntriesAreRight(UpdatedPool(p, acc), next)
<1> DEFINE U == UpdatedPool(p, acc)
<1>1. /\ \A s \in Senders : Listed(U, s) \subseteq Listed(p, s)
      /\ \A e \in U.hashToTransaction :
            e \in p.hashToTransaction /\ \A s \in Senders : e \in Listed(p, s) => e \in Listed(U, s)
  BY UpdateContents
<1> HIDE DEF U
<1>2. AllListed(U) \subseteq AllListed(p)
  BY <1>1 DEF AllListed
<1>3. \A e \in U.hashToTransaction : e \in Listed(U, e.data.sender)
  BY <1>1, IndexTypes DEF EntriesAreRight
<1>4. EntriesAreRight(U, next)
  BY <1>2, <1>3 DEF EntriesAreRight
<1> QED
  BY <1>4 DEF U

LEMMA EntriesInit == Init => EntriesInv
<1> SUFFICES ASSUME Init PROVE EntriesInv
  OBVIOUS
<1>1. TypeOK
  BY InitType
<1>2. pool.hashToTransaction = {} /\ \A s \in Senders : Pending(pool, s) = << >> /\ Queued(pool, s) = {}
  BY DEF Init, Pending, Queued
<1>3. AllListed(pool) = {}
  BY <1>2 DEF AllListed, Listed, ElementsOf
<1>4. DOMAIN snapshotIdToState = {}
  BY DEF Init
<1> QED
  BY <1>1, <1>2, <1>3, <1>4 DEF EntriesInv, EntriesAreRight

LEMMA EntriesStep == EntriesInv /\ [Next]_vars /\ TypeOK' => EntriesInv'
<1> SUFFICES ASSUME EntriesInv, [Next]_vars, TypeOK' PROVE EntriesInv'
  OBVIOUS
<1>0. /\ pool \in PoolState /\ pool' \in PoolState /\ nextOrderId \in Nat
      /\ account \in [Senders -> AccountType] /\ account' \in [Senders -> AccountType]
      /\ \A id \in DOMAIN snapshotIdToState : snapshotIdToState[id].pool \in PoolState
      /\ EntriesAreRight(pool, nextOrderId)
      /\ \A id \in DOMAIN snapshotIdToState : EntriesAreRight(snapshotIdToState[id].pool, nextOrderId)
  BY DEF EntriesInv, TypeOK, SnapshotType
<1>1. ASSUME NEW tx \in Txs, AddTransaction(tx) PROVE EntriesInv'
  <2>1. UNCHANGED snapshotIdToState /\ nextOrderId' = nextOrderId + 1
    BY <1>1 DEF AddTransaction, AddPendingTransaction, ReplacePendingTransaction,
                AddQueuedTransaction, ReplaceQueuedTransaction, RefuseUnderpriced, Submit
  <2>2. PICK gone \in SUBSET OrderedTx : Differs(pool', pool, gone, {Arriving(tx)})
    BY <1>1, AddContents DEF EntriesInv
  <2>3. Arriving(tx) \in OrderedTx /\ Arriving(tx).orderId = nextOrderId
    BY ArrivingType DEF EntriesInv, Arriving
  <2>4. EntriesAreRight(pool', nextOrderId + 1)
    BY <1>0, <2>2, <2>3, EntriesWith
  <2>5. \A id \in DOMAIN snapshotIdToState : EntriesAreRight(snapshotIdToState[id].pool, nextOrderId + 1)
    BY <1>0, EntriesLater
  <2> QED
    BY <2>1, <2>4, <2>5 DEF EntriesInv
<1>2. ASSUME NEW entry \in pool.hashToTransaction, RemoveTransaction(entry) PROVE EntriesInv'
  <2>1. UNCHANGED <<snapshotIdToState, nextOrderId>>
    BY <1>2 DEF RemoveTransaction, RemovePendingTransaction, RemoveQueuedTransaction
  <2>2. Differs(pool', pool, {entry}, {})
    BY <1>2, RemoveContents DEF EntriesInv
  <2>3. EntriesAreRight(pool', nextOrderId)
    BY <1>0, <2>2, EntriesWithout
  <2> QED
    BY <1>0, <2>1, <2>3 DEF EntriesInv
<1>3. ASSUME NEW limit \in GasLimits, SetBlockGasLimit(limit) PROVE EntriesInv'
  <2> DEFINE p == [pool EXCEPT !.blockGasLimit = limit]
  <2>1. p \in PoolState /\ EntriesAreRight(p, nextOrderId)
    <3>1. p \in PoolState
      BY <1>0, AmountsAssumption DEF PoolState
    <3>2. /\ p.hashToTransaction = pool.hashToTransaction
          /\ \A s \in Senders : Pending(p, s) = Pending(pool, s) /\ Queued(p, s) = Queued(pool, s)
      BY <1>0 DEF PoolState, Pending, Queued
    <3> HIDE DEF p
    <3>3. \A s \in Senders : Listed(p, s) = Listed(pool, s)
      BY <3>2 DEF Listed
    <3>4. AllListed(p) = AllListed(pool)
      BY <3>3 DEF AllListed
    <3>5. \A e \in p.hashToTransaction : e \in Listed(p, e.data.sender)
      BY <1>0, <3>2, <3>3, IndexTypes DEF EntriesAreRight
    <3> QED
      BY <1>0, <3>1, <3>4, <3>5 DEF EntriesAreRight
  <2>2. pool' = UpdatedPool(p, account) /\ UNCHANGED <<snapshotIdToState, nextOrderId>>
    BY <1>3 DEF SetBlockGasLimit
  <2> HIDE DEF p
  <2>3. EntriesAreRight(UpdatedPool(p, account), nextOrderId)
    BY <1>0, <2>1, EntriesUpdated
  <2> QED
    BY <1>0, <2>2, <2>3 DEF EntriesInv
<1>4. CASE Snapshot
  BY <1>0, <1>4 DEF Snapshot, EntriesInv
<1>5. ASSUME NEW id \in DOMAIN snapshotIdToState, Revert(id) PROVE EntriesInv'
  BY <1>0, <1>5 DEF Revert, EntriesInv
<1>6. CASE MineBlock
  <2>1. pool' = UpdatedPool(pool, account') /\ UNCHANGED <<snapshotIdToState, nextOrderId>>
    BY <1>6 DEF MineBlock
  <2>2. EntriesAreRight(UpdatedPool(pool, account'), nextOrderId)
    BY <1>0, EntriesUpdated
  <2> QED
    BY <1>0, <2>1, <2>2 DEF EntriesInv
<1>7. ASSUME NEW s \in Senders, NEW balance \in Balances, SetBalance(s, balance) PROVE EntriesInv'
  BY <1>0, <1>7 DEF SetBalance, EntriesInv
<1>8. ASSUME NEW s \in Senders, NEW nonce \in 0 .. MaxNonce, SetNonce(s, nonce) PROVE EntriesInv'
  BY <1>0, <1>8 DEF SetNonce, EntriesInv
<1>9. CASE UNCHANGED vars
  BY <1>0, <1>9 DEF vars, EntriesInv
<1> QED
  BY <1>1, <1>2, <1>3, <1>4, <1>5, <1>6, <1>7, <1>8, <1>9 DEF Next

\* What the index finds is in a list of its sender, so that removeTransaction never reaches
\* its "Tx should have existed in the pending or queued lists"; and an arrival number is
\* given out once, also across reverts, for any transactions and snapshots.
THEOREM EntriesStayUnique == Spec => []EntriesAreUnique
<1>1. EntriesInv => EntriesAreUnique
  BY DEF EntriesInv, EntriesAreRight, EntriesAreUnique, IndexedIsListed, ArrivalNumbersAreUnique
<1> QED
  BY <1>1, EntriesInit, EntriesStep, TypeCorrect, PTL DEF Spec

-----------------------------------------------------------------------------
(* Queued transactions wait for a missing nonce, alone with theirs, and fit  *)
(* a block.  Without contracts the nonce of a sender moves only along its    *)
(* pending list, so no queued transaction is overtaken.                      *)

QueuesAreOrdered(p, acc) ==
    /\ QueuedIsBeyondPending(p, acc)
    /\ \A s \in Senders : \A e, f \in Queued(p, s) :
        e.data.nonce = f.data.nonce => e = f

FitsABlock(p) == \A e \in AllListed(p) : e.data.gasLimit <= p.blockGasLimit

QueuesInv ==
    /\ GapFreeInv
    /\ QueuesAreOrdered(pool, account) /\ FitsABlock(pool)
    /\ \A id \in DOMAIN snapshotIdToState :
        /\ QueuesAreOrdered(snapshotIdToState[id].pool, snapshotIdToState[id].account)
        /\ FitsABlock(snapshotIdToState[id].pool)

\* When the lists of one sender change, only they have to be looked at.
LEMMA QueuesWith ==
    ASSUME NEW p \in PoolState, NEW p2 \in PoolState, NEW acc \in [Senders -> AccountType],
           QueuesAreOrdered(p, acc), PendingIsGapFree(p2, acc), NEW s \in Senders,
           \A t \in Senders : t # s => Pending(p2, t) = Pending(p, t) /\ Queued(p2, t) = Queued(p, t),
           \A e \in Queued(p2, s) : e.data.nonce > acc[s].nonce + Len(Pending(p2, s)),
           \A e, f \in Queued(p2, s) : e.data.nonce = f.data.nonce => e = f
    PROVE  QueuesAreOrdered(p2, acc)
<1>1. NextPendingNonce(p2, acc, s) = acc[s].nonce + Len(Pending(p2, s))
  BY NextPendingNonceLemma
<1>2. \A t \in Senders : t # s => NextPendingNonce(p2, acc, t) = NextPendingNonce(p, acc, t)
  BY DEF NextPendingNonce
<1>3. \A t \in Senders : \A e \in Queued(p2, t) : e.data.nonce > NextPendingNonce(p2, acc, t)
  BY <1>1, <1>2 DEF QueuesAreOrdered, QueuedIsBeyondPending
<1>4. \A t \in Senders : \A e, f \in Queued(p2, t) : e.data.nonce = f.data.nonce => e = f
  BY DEF QueuesAreOrdered
<1> QED
  BY <1>3, <1>4 DEF QueuesAreOrdered, QueuedIsBeyondPending

\* reorganizeTransactionsLists leaves in the queue only what is beyond the run it promotes.
LEMMA LeftByRun ==
    ASSUME NEW queued, queued \subseteq OrderedTx, NEW nonce \in Nat, NEW last \in Nat, last >= nonce,
           LongestRun(queued, nonce + 1, last), \A e \in queued : e.data.nonce > nonce,
           \A e, f \in queued : e.data.nonce = f.data.nonce => e = f,
           NEW run \in Seq(OrderedTx), Len(run) = last - nonce,
           \A i \in 1 .. Len(run) : run[i] \in queued /\ run[i].data.nonce = nonce + i,
           NEW e \in queued, e \notin ElementsOf(run)
    PROVE  e.data.nonce > last + 1
<1>1. IsRun(queued, nonce + 1, last) /\ ~ IsRun(queued, nonce + 1, last + 1)
  BY DEF LongestRun
<1>2. \A f \in queued : f.data.nonce \in Nat
  BY TxTypes
<1>3. ~ (e.data.nonce \in nonce + 1 .. last)
  <2> SUFFICES ASSUME e.data.nonce \in nonce + 1 .. last PROVE e \in ElementsOf(run)
    OBVIOUS
  <2> DEFINE i == e.data.nonce - nonce
  <2>1. i \in 1 .. Len(run) /\ nonce + i = e.data.nonce
    <3>1. \A n, m, l \in Nat : n \in m + 1 .. l => n - m \in 1 .. l - m /\ m + (n - m) = n
      OBVIOUS
    <3>2. e.data.nonce \in Nat
      BY <1>2
    <3>3. e.data.nonce - nonce \in 1 .. last - nonce /\ nonce + (e.data.nonce - nonce) = e.data.nonce
      BY <3>1, <3>2
    <3> QED
      BY <3>3
  <2> HIDE DEF i
  <2>2. run[i] \in queued /\ run[i].data.nonce = e.data.nonce
    BY <2>1
  <2>3. run[i] = e
    BY <2>2
  <2> QED
    BY <2>1, <2>3, ElementsType
<1>4. e.data.nonce # last + 1
  <2> SUFFICES ASSUME e.data.nonce = last + 1 PROVE IsRun(queued, nonce + 1, last + 1)
    BY <1>1
  <2>1. \A f \in queued : f.data.nonce >= nonce + 1
    BY <1>2
  <2>2. \A n \in nonce + 1 .. last + 1 : SameNonce(queued, n) # {}
    <3> TAKE n \in nonce + 1 .. last + 1
    <3>1. CASE n = last + 1
      BY <3>1 DEF SameNonce
    <3>2. CASE n # last + 1
      <4>1. n \in nonce + 1 .. last /\ last # (nonce + 1) - 1
        BY <3>2
      <4> QED
        BY <1>1, <4>1 DEF IsRun
    <3> QED
      BY <3>1, <3>2
  <2>3. \A n \in nonce + 1 .. (last + 1) - 1 : \A f, g \in SameNonce(queued, n) : f = g
    BY DEF SameNonce
  <2> QED
    BY <2>1, <2>2, <2>3 DEF IsRun
<1> QED
  BY <1>2, <1>3, <1>4

LEMMA AddKeepsQueues ==
    ASSUME QueuesInv, NEW tx \in Txs, AddTransaction(tx)
    PROVE  QueuesAreOrdered(pool', account)
<1> DEFINE s == tx.sender
           base == account[s].nonce
           q == Pending(pool, s)
           queued == Queued(pool, s)
<1>1. s \in Senders /\ tx.nonce \in Nat
  BY TxsAssumption DEF TxType
<1>2. /\ pool \in PoolState /\ account \in [Senders -> AccountType] /\ PendingIsGapFree(pool, account)
      /\ QueuesAreOrdered(pool, account) /\ TypeOK /\ GapFreeInv
  BY DEF QueuesInv, GapFreeInv, TypeOK
<1>3. pool' \in PoolState /\ PendingIsGapFree(pool', account)
  BY <1>2, AddTransactionType, AddKeepsGapFree
<1>4. /\ base \in Nat /\ q \in Seq(OrderedTx) /\ Len(q) \in Nat /\ DOMAIN q = 1 .. Len(q)
      /\ queued \subseteq OrderedTx /\ \A e \in queued : e.data.nonce \in Nat
  BY <1>1, <1>2, ListTypes, TxTypes DEF AccountType
<1>5. Arriving(tx) \in OrderedTx /\ Arriving(tx).data = tx
  BY <1>2, ArrivingType
<1>6. NextPendingNonce(pool, account, s) = base + Len(q)
  BY <1>1, <1>2, NextPendingNonceLemma
<1>7. /\ \A e \in queued : e.data.nonce > base + Len(q)
      /\ \A e, f \in queued : e.data.nonce = f.data.nonce => e = f
  BY <1>1, <1>2, <1>6 DEF QueuesAreOrdered, QueuedIsBeyondPending
<1>8. ASSUME NEW list, NEW left,
             pool'.pendingTransactions = [pool.pendingTransactions EXCEPT ![s] = list],
             pool'.queuedTransactions = [pool.queuedTransactions EXCEPT ![s] = left],
             \A e \in left : e.data.nonce > base + Len(list),
             \A e, f \in left : e.data.nonce = f.data.nonce => e = f
      PROVE  QueuesAreOrdered(pool', account)
  <2>1. /\ pool.pendingTransactions \in [Senders -> Seq(OrderedTx)]
        /\ pool.queuedTransactions \in [Senders -> SUBSET OrderedTx]
    BY <1>2 DEF PoolState
  <2>2. Pending(pool', s) = list /\ Queued(pool', s) = left
    BY <1>1, <1>8, <2>1 DEF Pending, Queued
  <2>3. \A t \in Senders : t # s =>
            Pending(pool', t) = Pending(pool, t) /\ Queued(pool', t) = Queued(pool, t)
    BY <1>1, <1>8, <2>1 DEF Pending, Queued
  <2>4. \A e \in Queued(pool', s) : e.data.nonce > account[s].nonce + Len(Pending(pool', s))
    BY <1>8, <2>2
  <2>5. \A e, f \in Queued(pool', s) : e.data.nonce = f.data.nonce => e = f
    BY <1>8, <2>2
  <2> QED
    BY <1>1, <1>2, <1>3, <2>3, <2>4, <2>5, QueuesWith
<1>9. CASE AddPendingTransaction(tx)
  <2>1. PICK last \in {tx.nonce} \union {e.data.nonce : e \in queued} :
          /\ LongestRun(queued, tx.nonce + 1, last)
          /\ pool' = [pool EXCEPT
                !.pendingTransactions[s] = Append(@, Arriving(tx)) \o Run(queued, tx.nonce + 1, last),
                !.queuedTransactions[s] = @ \ ElementsOf(Run(queued, tx.nonce + 1, last)),
                !.hashToTransaction = Indexed(@, Arriving(tx))]
    BY <1>9, Zenon DEF AddPendingTransaction
  <2>2. tx.nonce >= base
    BY <1>9 DEF AddPendingTransaction, Submit, ValidTransaction
  <2>3. tx.nonce = base + Len(q)
    BY <1>1, <1>2, <1>9, <2>2, NextPendingNonceLemma DEF AddPendingTransaction
  <2>4. last \in Nat /\ last >= tx.nonce /\ IsRun(queued, tx.nonce + 1, last)
    BY <1>1, <1>4, <2>1, RunEnd DEF LongestRun
  <2> DEFINE run == Run(queued, tx.nonce + 1, last)
             list == Append(q, Arriving(tx)) \o run
  <2>5. /\ pool'.pendingTransactions = [pool.pendingTransactions EXCEPT ![s] = list]
        /\ pool'.queuedTransactions = [pool.queuedTransactions EXCEPT ![s] = queued \ ElementsOf(run)]
    BY <1>2, <2>1 DEF PoolState, Pending, Queued
  <2> HIDE DEF q, queued
  <2>6. /\ run \in Seq(OrderedTx) /\ Len(run) = last - tx.nonce
        /\ \A i \in 1 .. Len(run) : run[i] \in queued /\ run[i].data.nonce = tx.nonce + i
    <3> DEFINE next == tx.nonce + 1
    <3>1. next \in Nat /\ last \in Int /\ last >= next - 1 /\ IsRun(queued, next, last)
      BY <1>1, <2>4
    <3>2. run = Run(queued, next, last)
      OBVIOUS
    <3> HIDE DEF next, run
    <3>3. /\ run \in Seq(OrderedTx)
          /\ Len(run) = last - next + 1
          /\ \A i \in 1 .. last - next + 1 : run[i] \in queued /\ run[i].data.nonce = next + i - 1
      BY <1>4, <3>1, <3>2, RunLemma
    <3>4. last - next + 1 = last - tx.nonce /\ \A i \in Int : next + i - 1 = tx.nonce + i
      BY <1>1, <2>4 DEF next
    <3>5. Len(run) = last - tx.nonce
      BY <3>3, <3>4
    <3>6. ASSUME NEW i \in 1 .. Len(run)
          PROVE  run[i] \in queued /\ run[i].data.nonce = tx.nonce + i
      <4>1. i \in 1 .. last - next + 1 /\ i \in Int
        BY <3>3
      <4> QED
        BY <3>3, <3>4, <4>1
    <3> QED
      BY <3>3, <3>5, <3>6
  <2> HIDE DEF run
  <2>7. \A e \in queued \ ElementsOf(run) : e.data.nonce > last + 1
    <3>1. \A e \in queued : e.data.nonce > tx.nonce
      BY <1>7, <2>3
    <3>2. LongestRun(queued, tx.nonce + 1, last)
      BY <2>1
    <3> QED
      BY <1>1, <1>4, <1>7, <2>4, <2>6, <3>1, <3>2, LeftByRun
  <2>8. Len(list) = Len(q) + 1 + Len(run)
    BY <1>4, <1>5, <2>6, ListsJoined
  <2> HIDE DEF list
  <2>9. base + Len(list) = last + 1
    <3>1. \A b, k, n, l, r \in Nat : n = b + k /\ r = l - n => b + (k + 1 + r) = l + 1
      OBVIOUS
    <3>2. Len(run) \in Nat
      BY <2>6, LenProperties
    <3>3. Len(run) = last - tx.nonce
      BY <2>6
    <3> HIDE DEF base
    <3>4. /\ base \in Nat /\ Len(q) \in Nat /\ tx.nonce \in Nat /\ last \in Nat
          /\ tx.nonce = base + Len(q)
      BY <1>1, <1>4, <2>3, <2>4
    <3>5. base + (Len(q) + 1 + Len(run)) = last + 1
      BY <3>1, <3>2, <3>3, <3>4
    <3> QED
      BY <2>8, <3>5
  <2>10. \A e \in queued \ ElementsOf(run) : e.data.nonce > base + Len(list)
    BY <2>7, <2>9
  <2>11. \A e, f \in queued \ ElementsOf(run) : e.data.nonce = f.data.nonce => e = f
    BY <1>7
  <2> QED
    BY <1>8, <2>5, <2>10, <2>11
<1>10. CASE ReplacePendingTransaction(tx)
  <2>1. PICK i \in DOMAIN q :
          pool' = [pool EXCEPT
            !.pendingTransactions[s][i] = Arriving(tx),
            !.hashToTransaction = Indexed(Unindexed(@, {q[i].data}), Arriving(tx))]
    BY <1>10 DEF ReplacePendingTransaction
  <2> DEFINE list == [q EXCEPT ![i] = Arriving(tx)]
  <2>2. Len(list) = Len(q)
    BY <1>4, <1>5, ExceptSeq
  <2>3. /\ pool'.pendingTransactions = [pool.pendingTransactions EXCEPT ![s] = list]
        /\ pool'.queuedTransactions = [pool.queuedTransactions EXCEPT ![s] = queued]
    BY <1>2, <2>1 DEF PoolState, Pending, Queued
  <2>4. /\ Pending(pool', s) = list
        /\ \A t \in Senders : t # s => Pending(pool', t) = Pending(pool, t)
        /\ \A t \in Senders : Queued(pool', t) = Queued(pool, t)
    BY <1>1, <1>2, <2>3 DEF PoolState, Pending, Queued
  <2> HIDE DEF list, q
  <2>5. \A e \in Queued(pool', s) : e.data.nonce > account[s].nonce + Len(Pending(pool', s))
    BY <1>1, <1>7, <2>2, <2>4
  <2>6. \A e, f \in Queued(pool', s) : e.data.nonce = f.data.nonce => e = f
    BY <1>1, <1>7, <2>4
  <2> QED
    BY <1>1, <1>2, <1>3, <2>4, <2>5, <2>6, QueuesWith
<1>11. CASE AddQueuedTransaction(tx)
  <2>1. /\ pool' = [pool EXCEPT
                !.queuedTransactions[s] = @ \union {Arriving(tx)},
                !.hashToTransaction = Indexed(@, Arriving(tx))]
        /\ tx.nonce > base + Len(q)
        /\ SameNonce(queued, tx.nonce) = {}
    BY <1>6, <1>11 DEF AddQueuedTransaction
  <2>2. /\ pool'.pendingTransactions = [pool.pendingTransactions EXCEPT ![s] = q]
        /\ pool'.queuedTransactions = [pool.queuedTransactions EXCEPT ![s] = queued \union {Arriving(tx)}]
    BY <1>2, <2>1 DEF PoolState, Pending, Queued
  <2> HIDE DEF q, queued
  <2>3. \A e \in queued \union {Arriving(tx)} : e.data.nonce > base + Len(q)
    BY <1>5, <1>7, <2>1
  <2>4. \A e, f \in queued \union {Arriving(tx)} : e.data.nonce = f.data.nonce => e = f
    BY <1>5, <1>7, <2>1 DEF SameNonce
  <2> QED
    BY <1>8, <2>2, <2>3, <2>4
<1>12. CASE ReplaceQueuedTransaction(tx)
  <2>1. PICK e \in SameNonce(queued, tx.nonce) :
          pool' = [pool EXCEPT
            !.queuedTransactions[s] = (@ \ {e}) \union {Arriving(tx)},
            !.hashToTransaction = Indexed(Unindexed(@, {e.data}), Arriving(tx))]
    BY <1>12 DEF ReplaceQueuedTransaction
  <2> DEFINE left == (queued \ {e}) \union {Arriving(tx)}
  <2>2. /\ pool'.pendingTransactions = [pool.pendingTransactions EXCEPT ![s] = q]
        /\ pool'.queuedTransactions = [pool.queuedTransactions EXCEPT ![s] = left]
    BY <1>2, <2>1 DEF PoolState, Pending, Queued
  <2>3. tx.nonce > base + Len(q)
    BY <1>6, <1>12 DEF ReplaceQueuedTransaction
  <2>4. e \in queued /\ e.data.nonce = tx.nonce
    BY <2>1 DEF SameNonce
  <2> HIDE DEF q, queued
  <2>5. \A f \in left : f.data.nonce > base + Len(q)
    BY <1>5, <1>7, <2>3
  <2>6. \A f, g \in left : f.data.nonce = g.data.nonce => f = g
    BY <1>5, <1>7, <2>4
  <2> QED
    BY <1>8, <2>2, <2>5, <2>6
<1>13. CASE RefuseUnderpriced(tx)
  BY <1>2, <1>13 DEF RefuseUnderpriced
<1> QED
  BY <1>9, <1>10, <1>11, <1>12, <1>13 DEF AddTransaction

LEMMA RemoveKeepsQueues ==
    ASSUME QueuesInv, NEW entry \in pool.hashToTransaction, RemoveTransaction(entry)
    PROVE  QueuesAreOrdered(pool', account)
<1> DEFINE s == entry.data.sender
           base == account[s].nonce
           q == Pending(pool, s)
           queued == Queued(pool, s)
<1>1. /\ pool \in PoolState /\ account \in [Senders -> AccountType] /\ PendingIsGapFree(pool, account)
      /\ QueuesAreOrdered(pool, account) /\ TypeOK /\ GapFreeInv
  BY DEF QueuesInv, GapFreeInv, TypeOK
<1>2. s \in Senders
  BY <1>1, TxTypes DEF PoolState
<1>3. pool' \in PoolState /\ PendingIsGapFree(pool', account)
  BY <1>1, RemoveTransactionType, RemoveKeepsGapFree
<1>4. /\ base \in Nat /\ q \in Seq(OrderedTx) /\ Len(q) \in Nat /\ DOMAIN q = 1 .. Len(q)
      /\ \A j \in 1 .. Len(q) : q[j].data.nonce = base + j - 1
      /\ \A e \in queued : e.data.nonce \in Nat
  BY <1>1, <1>2, ListTypes, TxTypes DEF AccountType, PendingIsGapFree
<1>5. NextPendingNonce(pool, account, s) = base + Len(q)
  BY <1>1, <1>2, NextPendingNonceLemma
<1>6. /\ \A e \in queued : e.data.nonce > base + Len(q)
      /\ \A e, f \in queued : e.data.nonce = f.data.nonce => e = f
  BY <1>1, <1>2, <1>5 DEF QueuesAreOrdered, QueuedIsBeyondPending
<1>7. ASSUME NEW list, NEW left,
             pool'.pendingTransactions = [pool.pendingTransactions EXCEPT ![s] = list],
             pool'.queuedTransactions = [pool.queuedTransactions EXCEPT ![s] = left],
             \A e \in left : e.data.nonce > base + Len(list),
             \A e, f \in left : e.data.nonce = f.data.nonce => e = f
      PROVE  QueuesAreOrdered(pool', account)
  <2>1. /\ pool.pendingTransactions \in [Senders -> Seq(OrderedTx)]
        /\ pool.queuedTransactions \in [Senders -> SUBSET OrderedTx]
    BY <1>1 DEF PoolState
  <2>2. Pending(pool', s) = list /\ Queued(pool', s) = left
    BY <1>2, <1>7, <2>1 DEF Pending, Queued
  <2>3. \A t \in Senders : t # s =>
            Pending(pool', t) = Pending(pool, t) /\ Queued(pool', t) = Queued(pool, t)
    BY <1>2, <1>7, <2>1 DEF Pending, Queued
  <2>4. \A e \in Queued(pool', s) : e.data.nonce > account[s].nonce + Len(Pending(pool', s))
    BY <1>7, <2>2
  <2>5. \A e, f \in Queued(pool', s) : e.data.nonce = f.data.nonce => e = f
    BY <1>7, <2>2
  <2> QED
    BY <1>1, <1>2, <1>3, <2>3, <2>4, <2>5, QueuesWith
<1>8. CASE RemovePendingTransaction(entry)
  <2>1. PICK i \in DOMAIN q :
          pool' = [pool EXCEPT
            !.pendingTransactions[s] = SubSeq(@, 1, i - 1),
            !.queuedTransactions[s] = @ \union {q[j] : j \in {k \in DOMAIN q : k > i}},
            !.hashToTransaction = Unindexed(@, {entry.data})]
    BY <1>8 DEF RemovePendingTransaction
  <2> DEFINE list == SubSeq(q, 1, i - 1)
             moved == {q[j] : j \in {k \in DOMAIN q : k > i}}
  <2>2. /\ pool'.pendingTransactions = [pool.pendingTransactions EXCEPT ![s] = list]
        /\ pool'.queuedTransactions = [pool.queuedTransactions EXCEPT ![s] = queued \union moved]
    BY <1>1, <2>1 DEF PoolState, Pending, Queued
  <2>3. i \in 1 .. Len(q) /\ \A j \in 1 .. i - 1 : q[j] \in OrderedTx
    BY <1>1, <1>2, <1>4, ListTypes
  <2>4. \A e \in moved : \E j \in 1 .. Len(q) : j > i /\ q[j] = e
    BY <1>4
  <2> HIDE DEF q, queued, base, moved
  <2>5. Len(list) = i - 1
    <3>1. i - 1 \in Int /\ (IF 1 <= i - 1 THEN (i - 1) - 1 + 1 ELSE 0) = i - 1
      BY <1>4, <2>3
    <3>2. Len(list) = IF 1 <= i - 1 THEN (i - 1) - 1 + 1 ELSE 0
      BY <2>3, <3>1, SubSeqProperties
    <3> HIDE DEF list
    <3> QED
      BY <3>1, <3>2
  <2> HIDE DEF list
  <2>6. \A e \in moved : e.data.nonce > base + Len(list) /\ e.data.nonce < base + Len(q)
    <3> SUFFICES ASSUME NEW j \in 1 .. Len(q), j > i
                 PROVE  q[j].data.nonce > base + Len(list) /\ q[j].data.nonce < base + Len(q)
      BY <2>4
    <3> QED
      BY <1>4, <2>3, <2>5
  <2>7. \A e \in queued : e.data.nonce > base + Len(list)
    BY <1>4, <1>6, <2>3, <2>5
  <2>8. \A e, f \in moved : e.data.nonce = f.data.nonce => e = f
    <3> SUFFICES ASSUME NEW j \in 1 .. Len(q), NEW k \in 1 .. Len(q),
                        q[j].data.nonce = q[k].data.nonce
                 PROVE  q[j] = q[k]
      BY <2>4
    <3> QED
      BY <1>4
  <2>9. \A e \in moved, f \in queued : e.data.nonce # f.data.nonce
    <3> TAKE e \in moved, f \in queued
    <3>1. e.data.nonce < base + Len(q) /\ f.data.nonce > base + Len(q) /\ f.data.nonce \in Nat
      BY <1>4, <1>6, <2>6
    <3> QED
      BY <1>4, <3>1
  <2>10. \A e, f \in queued \union moved : e.data.nonce = f.data.nonce => e = f
    BY <1>6, <2>8, <2>9
  <2> QED
    BY <1>7, <2>2, <2>6, <2>7, <2>10
<1>9. CASE RemoveQueuedTransaction(entry)
  <2>1. pool' = [pool EXCEPT
            !.queuedTransactions[s] = @ \ {entry},
            !.hashToTransaction = Unindexed(@, {entry.data})]
    BY <1>9 DEF RemoveQueuedTransaction
  <2>2. /\ pool'.pendingTransactions = [pool.pendingTransactions EXCEPT ![s] = q]
        /\ pool'.queuedTransactions = [pool.queuedTransactions EXCEPT ![s] = queued \ {entry}]
    BY <1>1, <2>1 DEF PoolState, Pending, Queued
  <2> HIDE DEF q, queued, base
  <2>3. \A e \in queued \ {entry} : e.data.nonce > base + Len(q)
    BY <1>6
  <2>4. \A e, f \in queued \ {entry} : e.data.nonce = f.data.nonce => e = f
    BY <1>6
  <2> QED
    BY <1>7, <2>2, <2>3, <2>4
<1> QED
  BY <1>8, <1>9 DEF RemoveTransaction

\* updatePendingAndQueued leaves only transactions that fit a block, whatever the lists
\* held before: it is what brings them in line with a new block gas limit.
LEMMA UpdateFits ==
    ASSUME NEW p \in PoolState, NEW acc \in [Senders -> AccountType],
           NEW acc2 \in [Senders -> AccountType], PendingIsGapFree(p, acc),
           \A s \in Senders : acc2[s].nonce >= acc[s].nonce
    PROVE  FitsABlock(UpdatedPool(p, acc2))
<1> DEFINE U == UpdatedPool(p, acc2)
<1>1. /\ U.blockGasLimit = p.blockGasLimit
      /\ \A s \in Senders : Listed(U, s) = ElementsOf(Kept(p, acc2, s)) \union
            (StillQueued(p, acc2, s) \union {e \in MovedToQueued(p, acc2, s) : IsTxValid(p, acc2, e.data)})
      /\ \A s \in Senders : Pending(U, s) = Kept(p, acc2, s)
  BY DEF UpdatedPool, Listed, Pending, Queued
<1>2. PendingIsGapFree(U, acc2)
  BY UpdateKeepsGapFree
<1> HIDE DEF U
<1>3. ASSUME NEW s \in Senders, NEW e \in StillQueued(p, acc2, s) \union
                {f \in MovedToQueued(p, acc2, s) : IsTxValid(p, acc2, f.data)}
      PROVE  e.data.gasLimit <= p.blockGasLimit
  BY <1>3 DEF StillQueued, IsTxValid
<1>4. ASSUME NEW s \in Senders, NEW i \in 1 .. Len(Kept(p, acc2, s))
      PROVE  Kept(p, acc2, s)[i].data.gasLimit <= p.blockGasLimit
  <2> DEFINE q == Pending(p, s)
             I == {Len(q) + 1} \union
                {j \in DOMAIN q : q[j].data.nonce >= acc2[s].nonce /\ ~ IsTxValid(p, acc2, q[j].data)}
             k == FirstLive(p, acc2, s) + i - 1
  <2>1. FirstInvalid(p, acc2, s) = LeastOf(I)
    BY DEF FirstInvalid
  <2>2. I \subseteq Nat /\ I # {}
    BY ListTypes
  <2>3. /\ FirstLive(p, acc2, s) \in 1 .. Len(q) + 1 /\ FirstInvalid(p, acc2, s) \in 1 .. Len(q) + 1
        /\ Len(q) \in Nat /\ DOMAIN q = 1 .. Len(q)
    BY CutPositions, ListTypes
  <2>4. /\ Len(Kept(p, acc2, s)) = FirstInvalid(p, acc2, s) - FirstLive(p, acc2, s)
        /\ Kept(p, acc2, s)[i] = q[k]
    BY KeptLemma
  <2>5. Kept(p, acc2, s)[i].data.nonce = acc2[s].nonce + i - 1
    BY <1>1, <1>2, KeptLemma, LenProperties DEF PendingIsGapFree
  <2>6. acc2[s].nonce \in Nat
    BY DEF AccountType
  <2>7. k \in 1 .. Len(q) /\ k < FirstInvalid(p, acc2, s)
    <3> HIDE DEF q
    <3> QED
      BY <2>3, <2>4
  <2>8. \A j \in I : FirstInvalid(p, acc2, s) <= j
    <3> HIDE DEF I
    <3> QED
      BY <2>1, <2>2, LeastOfLemma
  <2>9. k \notin I
    <3> HIDE DEF I, k
    <3> QED
      BY <2>3, <2>7, <2>8
  <2> HIDE DEF k, q
  <2>10. q[k].data.nonce >= acc2[s].nonce
    BY <2>4, <2>5, <2>6
  <2>11. IsTxValid(p, acc2, q[k].data)
    BY <2>3, <2>7, <2>9, <2>10
  <2> QED
    BY <2>4, <2>11 DEF IsTxValid
<1>5. \A s \in Senders : \A e \in Listed(U, s) : e.data.gasLimit <= p.blockGasLimit
  <2> TAKE s \in Senders
  <2>1. \A e \in ElementsOf(Kept(p, acc2, s)) : e.data.gasLimit <= p.blockGasLimit
    BY <1>4, KeptLemma, ElementsType
  <2> QED
    BY <1>1, <1>3, <2>1
<1> QED
  BY <1>1, <1>5 DEF FitsABlock, AllListed, U

\* updatePendingAndQueued puts what it cuts off behind the end of the pending list, and
\* before what was queued already.
LEMMA UpdateKeepsQueues ==
    ASSUME NEW p \in PoolState, NEW acc \in [Senders -> AccountType],
           NEW acc2 \in [Senders -> AccountType], PendingIsGapFree(p, acc), QueuesAreOrdered(p, acc),
           \A s \in Senders : /\ acc2[s].nonce >= acc[s].nonce
                              /\ acc2[s].nonce <= acc[s].nonce + Len(Pending(p, s))
    PROVE  QueuesAreOrdered(UpdatedPool(p, acc2), acc2)
<1> DEFINE U == UpdatedPool(p, acc2)
<1>1. \A s \in Senders :
        /\ Pending(U, s) = Kept(p, acc2, s)
        /\ Queued(U, s) \subseteq Queued(p, s) \union MovedToQueued(p, acc2, s)
  BY DEF UpdatedPool, Pending, Queued, StillQueued
<1>2. U \in PoolState /\ PendingIsGapFree(U, acc2)
  BY UpdatedPoolType, UpdateKeepsGapFree
<1> HIDE DEF U
<1>3. ASSUME NEW s \in Senders
      PROVE  /\ \A e \in Queued(U, s) : e.data.nonce > NextPendingNonce(U, acc2, s)
             /\ \A e, f \in Queued(U, s) : e.data.nonce = f.data.nonce => e = f
  <2> DEFINE q == Pending(p, s)
             n == Len(q)
             base == acc[s].nonce
             a == FirstLive(p, acc2, s)
             b == FirstInvalid(p, acc2, s)
             moved == MovedToQueued(p, acc2, s)
             queued == Queued(p, s)
             next == NextPendingNonce(U, acc2, s)
  <2>1. /\ n \in Nat /\ base \in Nat /\ acc2[s].nonce \in Nat /\ DOMAIN q = 1 .. n
        /\ a \in 1 .. n + 1 /\ b \in 1 .. n + 1
        /\ acc2[s].nonce >= base /\ acc2[s].nonce <= base + n
        /\ \A j \in 1 .. n : q[j].data.nonce = base + j - 1
        /\ \A e \in queued : e.data.nonce \in Nat
    BY CutPositions, ListTypes, TxTypes DEF AccountType, PendingIsGapFree
  <2>2. /\ \A e \in queued : e.data.nonce > base + n
        /\ \A e, f \in queued : e.data.nonce = f.data.nonce => e = f
    BY NextPendingNonceLemma DEF QueuesAreOrdered, QueuedIsBeyondPending
  <2>3. next = acc2[s].nonce + (b - a)
    BY <1>1, <1>2, KeptLemma, NextPendingNonceLemma
  <2>4. a = acc2[s].nonce - base + 1 \/ (a = n + 1 /\ b = n + 1)
    BY CutNonces
  <2>5. \A e \in moved : \E j \in 1 .. n : j > b /\ q[j] = e
    BY <2>1 DEF MovedToQueued
  <2> HIDE DEF q, n, base, a, b, moved, queued, next
  <2>6. next <= base + n /\ next <= base + b - 1 /\ next \in Int
    BY <2>1, <2>3, <2>4
  <2>7. \A e \in moved : e.data.nonce > next /\ e.data.nonce < base + n
    <3> SUFFICES ASSUME NEW j \in 1 .. n, j > b
                 PROVE  q[j].data.nonce > next /\ q[j].data.nonce < base + n
      BY <2>5
    <3>1. q[j].data.nonce = base + j - 1
      BY <2>1
    <3> QED
      BY <2>1, <2>6, <3>1
  <2>8. \A e \in queued : e.data.nonce > next
    BY <2>1, <2>2, <2>6
  <2>9. \A e, f \in moved : e.data.nonce = f.data.nonce => e = f
    <3> SUFFICES ASSUME NEW j \in 1 .. n, NEW k \in 1 .. n, q[j].data.nonce = q[k].data.nonce
                 PROVE  q[j] = q[k]
      BY <2>5
    <3>1. q[j].data.nonce = base + j - 1 /\ q[k].data.nonce = base + k - 1
      BY <2>1
    <3>2. base + j - 1 = base + k - 1
      BY <3>1
    <3>3. base \in Int /\ j \in Int /\ k \in Int
      BY <2>1
    <3>4. \A x, y, z \in Int : x + y - 1 = x + z - 1 => y = z
      OBVIOUS
    <3>5. j = k
      BY <3>2, <3>3, <3>4
    <3> QED
      BY <3>5
  <2>10. \A e \in moved, f \in queued : e.data.nonce # f.data.nonce
    <3> TAKE e \in moved, f \in queued
    <3>1. e.data.nonce < base + n /\ f.data.nonce > base + n /\ f.data.nonce \in Nat
      BY <2>1, <2>2, <2>7
    <3> QED
      BY <2>1, <3>1
  <2>11. Queued(U, s) \subseteq queued \union moved
    BY <1>1 DEF queued, moved
  <2>12. \A e, f \in Queued(U, s) : e.data.nonce = f.data.nonce => e = f
    BY <2>2, <2>9, <2>10, <2>11
  <2>13. \A e \in Queued(U, s) : e.data.nonce > next
    BY <2>7, <2>8, <2>11
  <2> QED
    BY <2>12, <2>13 DEF next
<1> QED
  BY <1>3 DEF QueuesAreOrdered, QueuedIsBeyondPending, U

LEMMA QueuesInit == Init => QueuesInv
<1> SUFFICES ASSUME Init PROVE QueuesInv
  OBVIOUS
<1>1. GapFreeInv
  BY GapFreeInit
<1>2. \A s \in Senders : Pending(pool, s) = << >> /\ Queued(pool, s) = {}
  BY DEF Init, Pending, Queued
<1>3. AllListed(pool) = {}
  BY <1>2 DEF AllListed, Listed, ElementsOf
<1>4. DOMAIN snapshotIdToState = {}
  BY DEF Init
<1> QED
  BY <1>1, <1>2, <1>3, <1>4 DEF QueuesInv, QueuesAreOrdered, QueuedIsBeyondPending, FitsABlock

LEMMA QueuesStep ==
    ASSUME Contracts = {}, QueuesInv, [Next]_vars, TypeOK'
    PROVE  QueuesInv'
<1>0. /\ pool \in PoolState /\ TypeOK /\ GapFreeInv'
      /\ account \in [Senders -> AccountType] /\ account' \in [Senders -> AccountType]
      /\ PendingIsGapFree(pool, account)
      /\ QueuesAreOrdered(pool, account) /\ FitsABlock(pool)
      /\ \A id \in DOMAIN snapshotIdToState :
            /\ QueuesAreOrdered(snapshotIdToState[id].pool, snapshotIdToState[id].account)
            /\ FitsABlock(snapshotIdToState[id].pool)
  BY GapFreeStep DEF QueuesInv, GapFreeInv, TypeOK
<1>a. ASSUME QueuesAreOrdered(pool', account'), FitsABlock(pool'), snapshotIdToState' = snapshotIdToState
      PROVE  QueuesInv'
  BY <1>0, <1>a DEF QueuesInv
<1>b. ASSUME \A s \in Senders : account'[s].nonce >= account[s].nonce /\
                                account'[s].nonce <= account[s].nonce + Len(Pending(pool, s)),
             NEW p \in PoolState, p = [pool EXCEPT !.blockGasLimit = p.blockGasLimit],
             pool' = UpdatedPool(p, account'), snapshotIdToState' = snapshotIdToState
      PROVE  QueuesInv'
  <2>1. \A s \in Senders : Pending(p, s) = Pending(pool, s) /\ Queued(p, s) = Queued(pool, s)
    BY <1>0, <1>b DEF PoolState, Pending, Queued
  <2>2. PendingIsGapFree(p, account)
    BY <1>0, <2>1 DEF PendingIsGapFree
  <2>3. QueuesAreOrdered(p, account)
    BY <1>0, <2>1 DEF QueuesAreOrdered, QueuedIsBeyondPending, NextPendingNonce
  <2>4. QueuesAreOrdered(UpdatedPool(p, account'), account')
    BY <1>0, <1>b, <2>1, <2>2, <2>3, UpdateKeepsQueues
  <2>5. FitsABlock(UpdatedPool(p, account'))
    BY <1>0, <1>b, <2>2, UpdateFits
  <2> QED
    BY <1>a, <1>b, <2>4, <2>5
<1>1. ASSUME NEW tx \in Txs, AddTransaction(tx) PROVE QueuesInv'
  <2>1. /\ UNCHANGED <<snapshotIdToState, account>>
        /\ tx.gasLimit <= pool.blockGasLimit
    BY <1>1 DEF AddTransaction, AddPendingTransaction, ReplacePendingTransaction,
                AddQueuedTransaction, ReplaceQueuedTransaction, RefuseUnderpriced, Submit, ValidTransaction
  <2>2. PICK gone \in SUBSET OrderedTx : Differs(pool', pool, gone, {Arriving(tx)})
    BY <1>0, <1>1, AddContents
  <2>3. AllListed(pool') \subseteq AllListed(pool) \union {Arriving(tx)} /\ pool'.blockGasLimit = pool.blockGasLimit
    BY <2>2 DEF AllListed, Differs
  <2>4. Arriving(tx).data = tx
    BY <1>0, ArrivingType
  <2>5. FitsABlock(pool')
    BY <1>0, <2>1, <2>3, <2>4 DEF FitsABlock
  <2>6. QueuesAreOrdered(pool', account)
    BY <1>1, AddKeepsQueues
  <2> QED
    BY <1>a, <2>1, <2>5, <2>6
<1>2. ASSUME NEW entry \in pool.hashToTransaction, RemoveTransaction(entry) PROVE QueuesInv'
  <2>1. UNCHANGED <<snapshotIdToState, account>>
    BY <1>2 DEF RemoveTransaction, RemovePendingTransaction, RemoveQueuedTransaction
  <2>2. Differs(pool', pool, {entry}, {})
    BY <1>0, <1>2, RemoveContents
  <2>3. AllListed(pool') \subseteq AllListed(pool) /\ pool'.blockGasLimit = pool.blockGasLimit
    BY <2>2 DEF AllListed, Differs
  <2>4. FitsABlock(pool')
    BY <1>0, <2>3 DEF FitsABlock
  <2>5. QueuesAreOrdered(pool', account)
    BY <1>2, RemoveKeepsQueues
  <2> QED
    BY <1>a, <2>1, <2>4, <2>5
<1>3. ASSUME NEW limit \in GasLimits, SetBlockGasLimit(limit) PROVE QueuesInv'
  <2> DEFINE p == [pool EXCEPT !.blockGasLimit = limit]
  <2>1. p \in PoolState /\ p.blockGasLimit = limit
    BY <1>0, AmountsAssumption DEF PoolState
  <2>2. p = [pool EXCEPT !.blockGasLimit = p.blockGasLimit]
    BY <2>1
  <2>3. pool' = UpdatedPool(p, account) /\ UNCHANGED <<snapshotIdToState, account>>
    BY <1>3 DEF SetBlockGasLimit
  <2>4. \A s \in Senders : account'[s].nonce >= account[s].nonce /\
                           account'[s].nonce <= account[s].nonce + Len(Pending(pool, s))
    BY <1>0, <2>3, ListTypes DEF AccountType
  <2> HIDE DEF p
  <2> QED
    BY <1>b, <2>1, <2>2, <2>3, <2>4
<1>4. CASE Snapshot
  BY <1>0, <1>4 DEF Snapshot, QueuesInv
<1>5. ASSUME NEW id \in DOMAIN snapshotIdToState, Revert(id) PROVE QueuesInv'
  BY <1>0, <1>5 DEF Revert, QueuesInv
<1>6. CASE MineBlock
  <2>1. PICK mined \in [Senders -> 0 .. MaxNonce], created \in [Contracts -> 0 .. 1],
             balance \in [Senders -> Balances] :
        /\ \A s \in Senders : mined[s] <= Len(Pending(pool, s))
        /\ account' = [s \in Senders |->
            [nonce |-> account[s].nonce + mined[s] +
                        (IF s \in Contracts THEN created[s] ELSE 0),
             balance |-> balance[s]]]
        /\ \A s \in Senders : account'[s].nonce <= MaxNonce
        /\ pool' = UpdatedPool(pool, account')
        /\ UNCHANGED <<snapshotIdToState, nextSnapshotId, nextOrderId>>
    BY <1>6, Zenon DEF MineBlock
  <2>2. pool' = UpdatedPool(pool, account') /\ snapshotIdToState' = snapshotIdToState
    BY <1>6 DEF MineBlock
  <2>3. \A s \in Senders : account'[s].nonce >= account[s].nonce /\
                           account'[s].nonce <= account[s].nonce + Len(Pending(pool, s))
    <3> TAKE s \in Senders
    <3>1. account'[s].nonce = account[s].nonce + mined[s] + 0
      BY <2>1
    <3>2. mined[s] \in 0 .. MaxNonce /\ mined[s] <= Len(Pending(pool, s))
      BY <2>1
    <3>3. account[s].nonce \in Nat /\ Len(Pending(pool, s)) \in Nat
      BY <1>0, ListTypes DEF AccountType
    <3> QED
      BY <3>1, <3>2, <3>3
  <2>4. pool = [pool EXCEPT !.blockGasLimit = pool.blockGasLimit]
    BY <1>0 DEF PoolState
  <2> QED
    BY <1>0, <1>b, <2>2, <2>3, <2>4
<1>7. ASSUME NEW s \in Senders, NEW balance \in Balances, SetBalance(s, balance) PROVE QueuesInv'
  <2>1. \A t \in Senders : account'[t].nonce = account[t].nonce
    BY <1>0, <1>7 DEF SetBalance, AccountType
  <2>2. UNCHANGED <<pool, snapshotIdToState>>
    BY <1>7 DEF SetBalance
  <2>3. QueuesAreOrdered(pool, account')
    BY <1>0, <2>1 DEF QueuesAreOrdered, QueuedIsBeyondPending, NextPendingNonce
  <2> QED
    BY <1>0, <1>a, <2>2, <2>3
<1>8. ASSUME NEW s \in Senders, NEW nonce \in 0 .. MaxNonce, SetNonce(s, nonce) PROVE QueuesInv'
  <2>1. UNCHANGED <<pool, snapshotIdToState>> /\ \A t \in Senders : Queued(pool, t) = {}
    BY <1>8 DEF SetNonce, IsEmpty, HasQueuedTransactions
  <2>2. QueuesAreOrdered(pool, account')
    BY <2>1 DEF QueuesAreOrdered, QueuedIsBeyondPending
  <2> QED
    BY <1>0, <1>a, <2>1, <2>2
<1>9. CASE UNCHANGED vars
  BY <1>0, <1>9 DEF vars, QueuesInv
<1> QED
  BY <1>1, <1>2, <1>3, <1>4, <1>5, <1>6, <1>7, <1>8, <1>9 DEF Next

\* A queued transaction waits for a nonce that is missing, alone with its own, and fits a
\* block of the limit in force, after any additions, removals, new limits, mined blocks and
\* reverts.  A contract that sends transactions may also move its nonce by CREATE, over
\* what it has queued: the theorem leaves it out.
THEOREM QueuedWait ==
    ASSUME Contracts = {}
    PROVE  Spec => []QueuedCanBeMinedLater
<1>1. QueuesInv => QueuedCanBeMinedLater
  BY DEF QueuesInv, QueuesAreOrdered, FitsABlock, QueuedCanBeMinedLater, NothingExecutableIsQueued,
         QueuedNoncesAreDistinct, EveryTransactionFitsABlock
<1>2. QueuesInv /\ [Next]_vars /\ TypeOK' => QueuesInv'
  BY QueuesStep
<1> QED
  BY <1>1, <1>2, QueuesInit, TypeCorrect, PTL DEF Spec

-----------------------------------------------------------------------------
(* Why a transaction leaves the pool.                                        *)

\* The lists of a sender hold its own transactions only.
OwnLists(p) == \A s \in Senders : \A e \in Listed(p, s) : e.data.sender = s

SendersInv ==
    /\ TypeOK
    /\ OwnLists(pool)
    /\ \A id \in DOMAIN snapshotIdToState : OwnLists(snapshotIdToState[id].pool)

LEMMA OwnListsKept ==
    ASSUME NEW p, NEW p2, NEW gone, NEW come, OwnLists(p), Differs(p2, p, gone, come)
    PROVE  OwnLists(p2)
BY DEF OwnLists, Differs

LEMMA SendersInit == Init => SendersInv
<1> SUFFICES ASSUME Init PROVE SendersInv
  OBVIOUS
<1>1. \A s \in Senders : Pending(pool, s) = << >> /\ Queued(pool, s) = {}
  BY DEF Init, Pending, Queued
<1>2. \A s \in Senders : Listed(pool, s) = {}
  BY <1>1 DEF Listed, ElementsOf
<1>3. DOMAIN snapshotIdToState = {}
  BY DEF Init
<1> QED
  BY <1>2, <1>3, InitType DEF SendersInv, OwnLists

LEMMA SendersStep == SendersInv /\ [Next]_vars /\ TypeOK' => SendersInv'
<1> SUFFICES ASSUME SendersInv, [Next]_vars, TypeOK' PROVE SendersInv'
  OBVIOUS
<1>0. /\ pool \in PoolState /\ OwnLists(pool)
      /\ account \in [Senders -> AccountType] /\ account' \in [Senders -> AccountType]
      /\ \A id \in DOMAIN snapshotIdToState : OwnLists(snapshotIdToState[id].pool)
  BY DEF SendersInv, TypeOK
<1>1. ASSUME NEW tx \in Txs, AddTransaction(tx) PROVE SendersInv'
  <2>1. UNCHANGED snapshotIdToState
    BY <1>1 DEF AddTransaction, AddPendingTransaction, ReplacePendingTransaction,
                AddQueuedTransaction, ReplaceQueuedTransaction, RefuseUnderpriced, Submit
  <2>2. PICK gone \in SUBSET OrderedTx : Differs(pool', pool, gone, {Arriving(tx)})
    BY <1>1, AddContents DEF SendersInv
  <2>3. OwnLists(pool')
    BY <1>0, <2>2, OwnListsKept
  <2> QED
    BY <1>0, <2>1, <2>3 DEF SendersInv
<1>2. ASSUME NEW entry \in pool.hashToTransaction, RemoveTransaction(entry) PROVE SendersInv'
  <2>1. UNCHANGED snapshotIdToState
    BY <1>2 DEF RemoveTransaction, RemovePendingTransaction, RemoveQueuedTransaction
  <2>2. Differs(pool', pool, {entry}, {})
    BY <1>2, RemoveContents DEF SendersInv
  <2>3. OwnLists(pool')
    BY <1>0, <2>2, OwnListsKept
  <2> QED
    BY <1>0, <2>1, <2>3 DEF SendersInv
<1>3. ASSUME NEW limit \in GasLimits, SetBlockGasLimit(limit) PROVE SendersInv'
  <2> DEFINE p == [pool EXCEPT !.blockGasLimit = limit]
  <2>1. p \in PoolState /\ \A s \in Senders : Listed(p, s) = Listed(pool, s)
    <3>1. p \in PoolState
      BY <1>0, AmountsAssumption DEF PoolState
    <3>2. \A s \in Senders : Pending(p, s) = Pending(pool, s) /\ Queued(p, s) = Queued(pool, s)
      BY <1>0 DEF PoolState, Pending, Queued
    <3> HIDE DEF p
    <3> QED
      BY <3>1, <3>2 DEF Listed
  <2>2. pool' = UpdatedPool(p, account) /\ UNCHANGED snapshotIdToState
    BY <1>3 DEF SetBlockGasLimit
  <2> HIDE DEF p
  <2>3. \A s \in Senders : Listed(UpdatedPool(p, account), s) \subseteq Listed(p, s)
    BY <1>0, <2>1, UpdateContents
  <2>4. OwnLists(pool')
    BY <1>0, <2>1, <2>2, <2>3 DEF OwnLists
  <2> QED
    BY <1>0, <2>2, <2>4 DEF SendersInv
<1>4. CASE Snapshot
  BY <1>0, <1>4 DEF Snapshot, SendersInv
<1>5. ASSUME NEW id \in DOMAIN snapshotIdToState, Revert(id) PROVE SendersInv'
  BY <1>0, <1>5 DEF Revert, SendersInv
<1>6. CASE MineBlock
  <2>1. pool' = UpdatedPool(pool, account') /\ UNCHANGED snapshotIdToState
    BY <1>6 DEF MineBlock
  <2>2. \A s \in Senders : Listed(UpdatedPool(pool, account'), s) \subseteq Listed(pool, s)
    BY <1>0, UpdateContents
  <2>3. OwnLists(pool')
    BY <1>0, <2>1, <2>2 DEF OwnLists
  <2> QED
    BY <1>0, <2>1, <2>3 DEF SendersInv
<1>7. ASSUME NEW s \in Senders, NEW balance \in Balances, SetBalance(s, balance) PROVE SendersInv'
  BY <1>0, <1>7 DEF SetBalance, SendersInv
<1>8. ASSUME NEW s \in Senders, NEW nonce \in 0 .. MaxNonce, SetNonce(s, nonce) PROVE SendersInv'
  BY <1>0, <1>8 DEF SetNonce, SendersInv
<1>9. CASE UNCHANGED vars
  BY <1>0, <1>9 DEF vars, SendersInv
<1> QED
  BY <1>1, <1>2, <1>3, <1>4, <1>5, <1>6, <1>7, <1>8, <1>9 DEF Next

\* What updatePendingAndQueued leaves out has a used nonce or is invalid.
LEMMA DroppedByUpdate ==
    ASSUME NEW p \in PoolState, NEW acc \in [Senders -> AccountType], NEW s \in Senders,
           NEW e \in Listed(p, s), e \notin Listed(UpdatedPool(p, acc), s)
    PROVE  e.data.nonce < acc[s].nonce \/ ~ IsTxValid(p, acc, e.data)
<1> DEFINE moved == {f \in MovedToQueued(p, acc, s) : IsTxValid(p, acc, f.data)}
           q == Pending(p, s)
           a == FirstLive(p, acc, s)
           b == FirstInvalid(p, acc, s)
<1>1. Listed(UpdatedPool(p, acc), s)
        = ElementsOf(Kept(p, acc, s)) \union (StillQueued(p, acc, s) \union moved)
  BY DEF UpdatedPool, Listed, Pending, Queued
<1>2. /\ e \notin ElementsOf(Kept(p, acc, s)) /\ e \notin StillQueued(p, acc, s)
      /\ e \notin moved
  BY <1>1
<1>3. CASE e \in Queued(p, s)
  BY <1>2, <1>3 DEF StillQueued
<1>4. CASE e \in ElementsOf(q)
  <2>1. q \in Seq(OrderedTx) /\ Len(q) \in Nat /\ DOMAIN q = 1 .. Len(q)
    BY ListTypes
  <2>2. PICK i \in 1 .. Len(q) : q[i] = e
    BY <1>4, <2>1, ElementsType
  <2>3. e.data.nonce \in Nat /\ acc[s].nonce \in Nat
    BY <2>1, <2>2, ElementOfSeq, TxTypes DEF AccountType
  <2>4. a \in 1 .. Len(q) + 1 /\ b \in 1 .. Len(q) + 1 /\ a <= b
    BY CutPositions
  <2>5. CASE i < a
    <3> DEFINE L == {Len(q) + 1} \union {j \in DOMAIN q : q[j].data.nonce >= acc[s].nonce}
    <3>1. L \subseteq Nat /\ L # {} /\ a = LeastOf(L)
      BY <2>1 DEF FirstLive
    <3>2. \A j \in L : a <= j
      BY <3>1, LeastOfLemma
    <3>3. i \notin L
      BY <2>1, <2>4, <2>5, <3>2
    <3>4. ~ (q[i].data.nonce >= acc[s].nonce)
      BY <2>1, <2>2, <3>3
    <3> QED
      BY <2>2, <2>3, <3>4
  <2>6. CASE i >= a /\ i < b
    <3>1. /\ Kept(p, acc, s) \in Seq(OrderedTx) /\ Len(Kept(p, acc, s)) = b - a
          /\ \A j \in 1 .. Len(Kept(p, acc, s)) : Kept(p, acc, s)[j] = q[a + j - 1]
      BY KeptLemma
    <3> DEFINE j == i - a + 1
    <3> HIDE DEF a, b, q
    <3>2. j \in 1 .. Len(Kept(p, acc, s)) /\ a + j - 1 = i
      BY <2>1, <2>2, <2>4, <2>6, <3>1
    <3> HIDE DEF j
    <3>3. Kept(p, acc, s)[j] = e
      BY <2>2, <3>1, <3>2
    <3>4. e \in ElementsOf(Kept(p, acc, s))
      BY <3>1, <3>2, <3>3, ElementsType
    <3> QED
      BY <1>2, <3>4
  <2>7. CASE i = b
    <3> DEFINE I == {Len(q) + 1} \union
                {j \in DOMAIN q : q[j].data.nonce >= acc[s].nonce /\ ~ IsTxValid(p, acc, q[j].data)}
    <3>1. I \subseteq Nat /\ I # {} /\ b = LeastOf(I)
      BY <2>1 DEF FirstInvalid
    <3>2. b \in I
      BY <3>1, LeastOfLemma
    <3>3. i # Len(q) + 1
      BY <2>1, <2>2
    <3>4. ~ IsTxValid(p, acc, q[i].data)
      BY <2>7, <3>2, <3>3
    <3> QED
      BY <2>2, <3>4
  <2>8. CASE i > b
    <3>1. e \in MovedToQueued(p, acc, s)
      BY <2>1, <2>2, <2>8 DEF MovedToQueued
    <3> QED
      BY <3>1, <1>2
  <2>9. i < a \/ (i >= a /\ i < b) \/ i = b \/ i > b
    <3> HIDE DEF a, b, q
    <3> QED
      BY <2>1, <2>4
  <2> QED
    BY <2>5, <2>6, <2>7, <2>8, <2>9
<1> QED
  BY <1>3, <1>4 DEF Listed

\* The reason why e is not in the pool after a step.
Reason(e) ==
    LET s == e.data.sender IN
    \/ e.data.nonce < account'[s].nonce
    \/ ~ IsTxValid(pool', account', e.data)
    \/ \E f \in Listed(pool', s) : f.data.nonce = e.data.nonce /\ CanReplace(f.data, e.data)
    \/ \E f \in pool.hashToTransaction : f = e /\ RemoveTransaction(f)
    \/ \E id \in DOMAIN snapshotIdToState : Revert(id)

LEMMA LeavesForAReason ==
    ASSUME SendersInv, TypeOK', [Next]_vars, NEW e \in AllListed(pool) \ AllListed(pool')
    PROVE  Reason(e)
<1>0. /\ TypeOK /\ pool \in PoolState /\ OwnLists(pool)
      /\ account \in [Senders -> AccountType] /\ account' \in [Senders -> AccountType]
  BY DEF SendersInv, TypeOK
<1> DEFINE s == e.data.sender
<1>1. s \in Senders /\ e \in Listed(pool, s) /\ e \notin Listed(pool', s)
  <2>1. PICK t \in Senders : e \in Listed(pool, t)
    BY DEF AllListed
  <2>2. s = t
    BY <2>1, <1>0 DEF OwnLists
  <2> QED
    BY <2>1, <2>2 DEF AllListed
<1> HIDE DEF s
<1>2. ASSUME NEW tx \in Txs, AddTransaction(tx) PROVE Reason(e)
  <2>1. PICK gone \in SUBSET OrderedTx :
          Differs(pool', pool, gone, {Arriving(tx)}) /\ ReplacedBy(tx, gone)
    BY <1>0, <1>2, AddReplaces
  <2>2. e \in gone
    BY <1>1, <2>1 DEF Differs
  <2>3. /\ e \in Listed(pool, tx.sender) /\ e.data.nonce = tx.nonce /\ CanReplace(tx, e.data)
        /\ Arriving(tx) \in Listed(pool', tx.sender)
    BY <2>1, <2>2 DEF ReplacedBy
  <2>4. tx.sender \in Senders
    BY TxsAssumption DEF TxType
  <2>5. e.data.sender = tx.sender
    BY <1>0, <2>3, <2>4 DEF OwnLists
  <2>6. Arriving(tx).data = tx
    BY DEF Arriving
  <2>7. \E f \in Listed(pool', e.data.sender) :
          f.data.nonce = e.data.nonce /\ CanReplace(f.data, e.data)
    BY <2>3, <2>5, <2>6
  <2> QED
    BY <2>7 DEF Reason
<1>3. ASSUME NEW entry \in pool.hashToTransaction, RemoveTransaction(entry) PROVE Reason(e)
  <2>1. Differs(pool', pool, {entry}, {})
    BY <1>0, <1>3, RemoveContents
  <2>2. e = entry
    BY <1>1, <2>1 DEF Differs
  <2> QED
    BY <1>3, <2>2 DEF Reason
<1>4. ASSUME NEW limit \in GasLimits, SetBlockGasLimit(limit) PROVE Reason(e)
  <2> DEFINE p == [pool EXCEPT !.blockGasLimit = limit]
  <2>1. p \in PoolState /\ Listed(p, s) = Listed(pool, s)
    <3>1. p \in PoolState
      BY <1>0, AmountsAssumption DEF PoolState
    <3>2. Pending(p, s) = Pending(pool, s) /\ Queued(p, s) = Queued(pool, s)
      BY <1>0 DEF PoolState, Pending, Queued
    <3> HIDE DEF p
    <3> QED
      BY <3>1, <3>2 DEF Listed
  <2>2. pool' = UpdatedPool(p, account) /\ account' = account
    BY <1>4 DEF SetBlockGasLimit
  <2> HIDE DEF p
  <2>3. e.data.nonce < account[s].nonce \/ ~ IsTxValid(p, account, e.data)
    BY <1>0, <1>1, <2>1, <2>2, DroppedByUpdate
  <2>4. pool'.blockGasLimit = p.blockGasLimit
    BY <1>0, <2>1, <2>2, UpdateContents
  <2>5. e.data.nonce < account'[s].nonce \/ ~ IsTxValid(pool', account', e.data)
    BY <2>2, <2>3, <2>4 DEF IsTxValid
  <2> QED
    BY <2>5 DEF Reason, s
<1>5. CASE MineBlock
  <2>1. pool' = UpdatedPool(pool, account')
    BY <1>5 DEF MineBlock
  <2>2. e.data.nonce < account'[s].nonce \/ ~ IsTxValid(pool, account', e.data)
    BY <1>0, <1>1, <2>1, DroppedByUpdate
  <2>3. pool'.blockGasLimit = pool.blockGasLimit
    BY <1>0, <2>1, UpdateContents
  <2>4. e.data.nonce < account'[s].nonce \/ ~ IsTxValid(pool', account', e.data)
    BY <2>2, <2>3 DEF IsTxValid
  <2> QED
    BY <2>4 DEF Reason, s
<1>6. ASSUME NEW id \in DOMAIN snapshotIdToState, Revert(id) PROVE Reason(e)
  BY <1>6 DEF Reason
<1>7. CASE \/ Snapshot \/ UNCHANGED vars
           \/ \E t \in Senders, balance \in Balances : SetBalance(t, balance)
           \/ \E t \in Senders, nonce \in 0 .. MaxNonce : SetNonce(t, nonce)
  <2>1. pool' = pool
    BY <1>7 DEF Snapshot, vars, SetBalance, SetNonce
  <2> QED
    BY <1>1, <2>1
<1> QED
  BY <1>2, <1>3, <1>4, <1>5, <1>6, <1>7 DEF Next

\* A transaction leaves the pool only for one of these reasons: it was removed, replaced by
\* one that pays more, executed or overtaken, found invalid, or the pool was reverted.
THEOREM NothingGetsLost == Spec => NothingIsLost
<1> DEFINE Reasons == \A e \in AllListed(pool) \ AllListed(pool') : Reason(e)
<1>1. SendersInv /\ TypeOK' /\ [Next]_vars => Reasons
  BY LeavesForAReason
<1>2. [][Reasons]_vars => NothingIsLost
  BY DEF NothingIsLost, Reason
<1> HIDE DEF Reasons
<1>3. Spec => []SendersInv
  BY SendersInit, SendersStep, TypeCorrect, PTL DEF Spec
<1> QED
  BY <1>1, <1>2, <1>3, TypeCorrect, PTL DEF Spec

-----------------------------------------------------------------------------
(* The queue: what is popped first, and how far each sender has come.       *)

LimitsInv ==
    /\ pool.blockGasLimit \in GasLimits
    /\ \A id \in DOMAIN snapshotIdToState : snapshotIdToState[id].pool.blockGasLimit \in GasLimits

\* What the pool guarantees to the block builder.
PoolInv ==
    /\ EntriesInv /\ SendersInv /\ GapFreeInv
    /\ Contracts = {} => QueuesInv
    /\ LimitsInv

\* How far a transaction is from the best possible one; the comparators order by it.
Distance(e) == IF mempoolOrder = "priority" THEN MaxFee - EffectiveMinerFee(e.data) ELSE 0

LEMMA DistanceType ==
    ASSUME baseFee \in Int, NEW e \in OrderedTx
    PROVE  EffectiveMinerFee(e.data) \in Int /\ Distance(e) \in Nat
<1>1. /\ e.data.maxFee \in Nat /\ e.data.maxFee <= MaxFee
      /\ e.data.priorityFee \in Nat /\ e.data.priorityFee <= MaxFee
      /\ MaxFee \in Nat
  BY TxTypes, TxsAssumption, QueueAssumption DEF TxType
<1>2. EffectiveMinerFee(e.data) \in Int /\ EffectiveMinerFee(e.data) <= MaxFee
  BY <1>1 DEF EffectiveMinerFee, Smaller
<1> QED
  BY <1>1, <1>2 DEF Distance

LEMMA BeforeIs ==
    ASSUME baseFee \in Int, NEW a \in OrderedTx, NEW b \in OrderedTx
    PROVE  Before(a, b) <=> \/ Distance(a) < Distance(b)
                            \/ Distance(a) = Distance(b) /\ a.orderId < b.orderId
<1>1. EffectiveMinerFee(a.data) \in Int /\ EffectiveMinerFee(b.data) \in Int /\ MaxFee \in Nat
  BY DistanceType, QueueAssumption
<1>2. a.orderId \in Nat /\ b.orderId \in Nat
  BY TxTypes
<1> QED
  BY <1>1, <1>2 DEF Before, Distance

\* Arrival numbers are unique, so a heap that is not empty has a first transaction.
LEMMA FirstExists ==
    ASSUME baseFee \in Int, NEW H, H \subseteq OrderedTx, H # {},
           \A e, f \in H : e.orderId = f.orderId => e = f
    PROVE  \E t \in H : \A u \in H \ {t} : Before(t, u)
<1> DEFINE D == {Distance(e) : e \in H}
           d == LeastOf(D)
           B == {e \in H : Distance(e) = d}
           O == {e.orderId : e \in B}
           o == LeastOf(O)
<1>1. D \subseteq Nat /\ D # {}
  BY DistanceType
<1>2. d \in D /\ \A j \in D : d <= j
  <2> HIDE DEF D
  <2> QED
    BY <1>1, LeastOfLemma
<1>3. O \subseteq Nat /\ O # {}
  <2>1. PICK e \in H : Distance(e) = d
    BY <1>2
  <2>2. e.orderId \in O
    BY <2>1
  <2>3. \A f \in H : f.orderId \in Nat
    BY TxTypes
  <2> QED
    BY <2>2, <2>3
<1>4. o \in O /\ \A j \in O : o <= j
  <2> HIDE DEF O
  <2> QED
    BY <1>3, LeastOfLemma
<1>5. PICK t \in H : Distance(t) = d /\ t.orderId = o
  BY <1>4
<1>6. ASSUME NEW u \in H, u # t PROVE Before(t, u)
  <2>1. Distance(t) \in Nat /\ Distance(u) \in Nat /\ t.orderId \in Nat /\ u.orderId \in Nat
    BY DistanceType, TxTypes
  <2>2. Distance(t) <= Distance(u)
    BY <1>2, <1>5
  <2>3. Distance(u) = Distance(t) => t.orderId <= u.orderId
    <3>1. Distance(u) = d => u.orderId \in O
      OBVIOUS
    <3> HIDE DEF d, o, O
    <3> QED
      BY <1>4, <1>5, <3>1
  <2>4. t.orderId # u.orderId
    BY <1>6
  <2> HIDE DEF d, o
  <2> QED
    BY <2>1, <2>2, <2>3, <2>4, BeforeIs
<1> QED
  BY <1>5, <1>6

QueueType ==
    [heap : SUBSET OrderedTx, queued : [Senders -> Seq(OrderedTx)], lastSender : SUBSET Senders]

LEMMA PoppedFirst ==
    ASSUME baseFee \in Int, NEW q \in QueueType, q.heap # {},
           \A e, f \in q.heap : e.orderId = f.orderId => e = f
    PROVE  LET r == Popped(q) IN
           /\ r.tx \in q.heap
           /\ \A u \in q.heap \ {r.tx} : Before(r.tx, u)
           /\ r.queue \in QueueType
           /\ r.queue.heap = q.heap \ {r.tx}
           /\ r.queue.queued = q.queued
           /\ r.queue.lastSender = {r.tx.data.sender}
<1> DEFINE first == CHOOSE t \in q.heap : \A u \in q.heap \ {t} : Before(t, u)
<1>1. q.heap \subseteq OrderedTx
  BY DEF QueueType
<1>2. \E t \in q.heap : \A u \in q.heap \ {t} : Before(t, u)
  BY <1>1, FirstExists
<1>3. first \in q.heap /\ \A u \in q.heap \ {first} : Before(first, u)
  BY <1>2
<1>4. Popped(q) = [tx |-> first, queue |-> [q EXCEPT !.heap = @ \ {first},
                                                   !.lastSender = {first.data.sender}]]
  BY DEF Popped
<1>5. first.data.sender \in Senders
  BY <1>1, <1>3, TxTypes
<1> HIDE DEF first
<1>6. q.heap \ {first} \in SUBSET OrderedTx /\ {first.data.sender} \in SUBSET Senders
  BY <1>1, <1>5
<1> DEFINE r == [q EXCEPT !.heap = @ \ {first}, !.lastSender = {first.data.sender}]
<1>7. /\ r \in QueueType /\ r.heap = q.heap \ {first} /\ r.queued = q.queued
      /\ r.lastSender = {first.data.sender}
  BY <1>6 DEF QueueType
<1>8. Popped(q).tx = first /\ Popped(q).queue = r
  BY <1>4
<1> HIDE DEF r
<1> QED
  BY <1>3, <1>7, <1>8

\* What is left of the pending list of a sender after its first k transactions.
Rest(s, k) == SubSeq(Pending(pool, s), k + 1, Len(Pending(pool, s)))

LEMMA RestLemma ==
    ASSUME pool \in PoolState, NEW s \in Senders, NEW k \in Nat
    PROVE  /\ Rest(s, k) \in Seq(OrderedTx)
           /\ k >= Len(Pending(pool, s)) <=> Rest(s, k) = <<>>
           /\ k < Len(Pending(pool, s)) =>
                /\ Rest(s, k) # <<>>
                /\ Head(Rest(s, k)) = Pending(pool, s)[k + 1]
                /\ Tail(Rest(s, k)) = Rest(s, k + 1)
<1> DEFINE q == Pending(pool, s)
<1>1. q \in Seq(OrderedTx) /\ Len(q) \in Nat
  BY ListTypes
<1> HIDE DEF q
<1>2. /\ SubSeq(q, k + 1, Len(q)) \in Seq(OrderedTx)
      /\ Len(SubSeq(q, k + 1, Len(q))) = IF k + 1 <= Len(q) THEN Len(q) - (k + 1) + 1 ELSE 0
  <2>1. \A i \in k + 1 .. Len(q) : q[i] \in OrderedTx
    BY <1>1, ElementOfSeq
  <2>2. k + 1 \in Int /\ Len(q) \in Int
    BY <1>1
  <2> QED
    BY <2>1, <2>2, SubSeqProperties
<1>3. k >= Len(q) => SubSeq(q, k + 1, Len(q)) = <<>>
  BY <1>1, SubSeqEmpty
<1>4. k < Len(q) => SubSeq(q, k + 1, Len(q)) # <<>>
  BY <1>1, <1>2, EmptySeq
<1>5. ASSUME k < Len(q)
      PROVE  /\ Head(SubSeq(q, k + 1, Len(q))) = q[k + 1]
             /\ Tail(SubSeq(q, k + 1, Len(q))) = SubSeq(q, k + 1 + 1, Len(q))
  <2>1. k + 1 \in 1 .. Len(q) /\ Len(q) \in k + 1 .. Len(q)
    BY <1>1, <1>5
  <2> QED
    BY <1>1, <2>1, HeadTailOfSubSeq
<1>6. /\ SubSeq(q, k + 1, Len(q)) \in Seq(OrderedTx)
      /\ k >= Len(q) <=> SubSeq(q, k + 1, Len(q)) = <<>>
      /\ k < Len(q) =>
           /\ SubSeq(q, k + 1, Len(q)) # <<>>
           /\ Head(SubSeq(q, k + 1, Len(q))) = q[k + 1]
           /\ Tail(SubSeq(q, k + 1, Len(q))) = SubSeq(q, (k + 1) + 1, Len(q))
  BY <1>1, <1>2, <1>3, <1>4, <1>5
<1> QED
  BY <1>6 DEF q, Rest

\* The transactions of a sender among the first n of a block.
TakenOf(block, s, n) == {i \in 1 .. n : block[i].entry.data.sender = s}
Count(block, s, n) == Cardinality(TakenOf(block, s, n))

BlockEntry == [entry : OrderedTx, gasBefore : Int]

LEMMA CountType ==
    ASSUME NEW block, NEW s, NEW n \in Nat
    PROVE  Count(block, s, n) \in Nat /\ IsFiniteSet(TakenOf(block, s, n))
<1>1. IsFiniteSet(1 .. n) /\ TakenOf(block, s, n) \subseteq 1 .. n
  BY FS_Interval DEF TakenOf
<1>2. IsFiniteSet(TakenOf(block, s, n))
  BY <1>1, FS_Subset
<1> QED
  BY <1>2, FS_CardinalityType DEF Count

LEMMA CountNone ==
    ASSUME NEW block, NEW s
    PROVE  Count(block, s, 0) = 0
<1>1. TakenOf(block, s, 0) = {}
  BY DEF TakenOf
<1> QED
  BY <1>1, FS_EmptySet DEF Count

LEMMA CountAppend ==
    ASSUME NEW block \in Seq(BlockEntry), NEW b \in BlockEntry, NEW s
    PROVE  /\ \A n \in 0 .. Len(block) : Count(Append(block, b), s, n) = Count(block, s, n)
           /\ Count(Append(block, b), s, Len(block) + 1) =
                Count(block, s, Len(block)) + (IF b.entry.data.sender = s THEN 1 ELSE 0)
<1> DEFINE more == Append(block, b)
<1>1. /\ Len(block) \in Nat
      /\ \A i \in 1 .. Len(block) : more[i] = block[i]
      /\ more[Len(block) + 1] = b
  BY AppendProperties, LenProperties
<1> HIDE DEF more
<1>2. ASSUME NEW n \in 0 .. Len(block) PROVE Count(more, s, n) = Count(block, s, n)
  <2>1. TakenOf(more, s, n) = TakenOf(block, s, n)
    BY <1>1 DEF TakenOf
  <2> QED
    BY <2>1 DEF Count
<1> DEFINE T == TakenOf(block, s, Len(block))
           U == TakenOf(more, s, Len(block) + 1)
<1>3. U = IF b.entry.data.sender = s THEN T \union {Len(block) + 1} ELSE T
  BY <1>1 DEF TakenOf
<1>4. Len(block) + 1 \notin T
  BY <1>1 DEF TakenOf
<1>5. IsFiniteSet(T) /\ Cardinality(T) \in Nat
  BY <1>1, CountType DEF Count
<1>6. Cardinality(T \union {Len(block) + 1}) = Cardinality(T) + 1
  <2> HIDE DEF T
  <2> QED
    BY <1>4, <1>5, FS_AddElement
<1>7. Cardinality(U) = Cardinality(T) + (IF b.entry.data.sender = s THEN 1 ELSE 0)
  <2> HIDE DEF T, U
  <2> QED
    BY <1>3, <1>5, <1>6
<1> QED
  BY <1>2, <1>7 DEF more, Count


-----------------------------------------------------------------------------
(* What the builder has in its hands.  Of a sender with k transactions in the *)
(* block, the next one waits in the heap, or it is the one in hand, and the   *)
(* others wait behind it; or nothing is left that could still be added.       *)

CanBeAdded(e, gas) == IsTxMinable(e.data) /\ Fits(e.data, gas)

Holds(s, k, q) ==
    /\ k < Len(Pending(pool, s))
    /\ Pending(pool, s)[k + 1] \in q.heap
    /\ \A e \in q.heap : e.data.sender = s => e = Pending(pool, s)[k + 1]
    /\ q.queued[s] = Rest(s, k + 1)

InHand(s, k, tx, q) ==
    /\ k < Len(Pending(pool, s))
    /\ tx = Pending(pool, s)[k + 1]
    /\ \A e \in q.heap : e.data.sender # s
    /\ q.queued[s] = Rest(s, k + 1)

Spent(s, k, q, gas) ==
    /\ k <= Len(Pending(pool, s))
    /\ q.queued[s] = <<>>
    /\ \A e \in q.heap : e.data.sender # s
    /\ k < Len(Pending(pool, s)) => ~ CanBeAdded(Pending(pool, s)[k + 1], gas)

\* Between two transactions ...
Ready(q, block, gas) ==
    /\ q.heap \subseteq AllListed(pool)
    /\ \A s \in Senders :
        \/ Holds(s, Count(block, s, Len(block)), q)
        \/ Spent(s, Count(block, s, Len(block)), q, gas)

\* ... and when one is chosen.
Chosen(tx, q, block, gas) ==
    /\ q.heap \subseteq AllListed(pool)
    /\ tx = NoTx => q.heap = {}
    /\ tx # NoTx =>
        /\ tx \in AllListed(pool)
        /\ \A u \in q.heap : Before(tx, u)
        /\ q.lastSender = {tx.data.sender}
        /\ InHand(tx.data.sender, Count(block, tx.data.sender, Len(block)), tx, q)
    /\ \A s \in Senders :
        \/ tx # NoTx /\ s = tx.data.sender
        \/ Holds(s, Count(block, s, Len(block)), q)
        \/ Spent(s, Count(block, s, Len(block)), q, gas)

LEMMA ListedEntries ==
    ASSUME PoolInv
    PROVE  /\ pool \in PoolState
           /\ AllListed(pool) \subseteq OrderedTx
           /\ \A e, f \in AllListed(pool) : e.orderId = f.orderId => e = f
           /\ \A s \in Senders : \A i \in 1 .. Len(Pending(pool, s)) :
                /\ Pending(pool, s)[i] \in AllListed(pool)
                /\ Pending(pool, s)[i].data.sender = s
<1>1. pool \in PoolState /\ EntriesAreRight(pool, nextOrderId) /\ OwnLists(pool)
  BY DEF PoolInv, EntriesInv, SendersInv, TypeOK
<1>2. AllListed(pool) \subseteq OrderedTx
  BY <1>1, ListTypes, ElementsType DEF AllListed, Listed
<1>3. ASSUME NEW s \in Senders, NEW i \in 1 .. Len(Pending(pool, s))
      PROVE  Pending(pool, s)[i] \in Listed(pool, s)
  BY <1>1, ListTypes, ElementsType DEF Listed
<1> QED
  BY <1>1, <1>2, <1>3 DEF EntriesAreRight, OwnLists, AllListed

LEMMA NoTxIsNone == NoTx \notin OrderedTx
<1>1. NoTx.orderId = -1
  BY DEF NoTx
<1> QED
  BY <1>1, TxTypes

LEMMA PopReady ==
    ASSUME PoolInv, baseFee \in Int, NEW q \in QueueType, NEW block \in Seq(BlockEntry), NEW gas,
           Ready(q, block, gas)
    PROVE  /\ Popped(q).tx \in OrderedTx \union {NoTx}
           /\ Popped(q).queue \in QueueType
           /\ Chosen(Popped(q).tx, Popped(q).queue, block, gas)
<1>0. /\ pool \in PoolState /\ AllListed(pool) \subseteq OrderedTx
      /\ q.heap \subseteq AllListed(pool)
      /\ \A e, f \in q.heap : e.orderId = f.orderId => e = f
      /\ \A s \in Senders : \A i \in 1 .. Len(Pending(pool, s)) :
            /\ Pending(pool, s)[i] \in AllListed(pool)
            /\ Pending(pool, s)[i].data.sender = s
  BY ListedEntries DEF Ready
<1>1. CASE q.heap = {}
  <2>1. Popped(q).tx = NoTx /\ Popped(q).queue = q
    BY <1>1 DEF Popped
  <2> QED
    BY <1>1, <2>1 DEF Ready, Chosen
<1>2. CASE q.heap # {}
  <2> DEFINE t == Popped(q).tx
             r == Popped(q).queue
             S == t.data.sender
             k(s) == Count(block, s, Len(block))
  <2>1. /\ t \in q.heap
        /\ \A u \in q.heap \ {t} : Before(t, u)
        /\ r \in QueueType
        /\ r.heap = q.heap \ {t}
        /\ r.queued = q.queued
        /\ r.lastSender = {t.data.sender}
    BY <1>0, <1>2, PoppedFirst
  <2> HIDE DEF t, r
  <2>2. t \in OrderedTx /\ S \in Senders /\ t # NoTx
    BY <1>0, <2>1, TxTypes, NoTxIsNone
  <2>3. \A s \in Senders : Holds(s, k(s), q) \/ Spent(s, k(s), q, gas)
    BY DEF Ready
  <2>8. \A s : k(s) \in Nat
    BY LenProperties, CountType
  <2> HIDE DEF k, S
  <2>4. Holds(S, k(S), q)
    BY <2>1, <2>2, <2>3 DEF Spent, S
  <2>5. InHand(S, k(S), t, r)
    BY <2>1, <2>4 DEF Holds, InHand, S
  <2>6. ASSUME NEW s \in Senders, s # S PROVE Holds(s, k(s), r) \/ Spent(s, k(s), r, gas)
    <3>1. CASE Holds(s, k(s), q)
      <4>1. Pending(pool, s)[k(s) + 1] # t
        <5>1. k(s) < Len(Pending(pool, s)) /\ k(s) \in Nat /\ Len(Pending(pool, s)) \in Nat
          BY <1>0, <2>8, <3>1, ListTypes DEF Holds
        <5> QED
          BY <1>0, <2>6, <5>1 DEF S
      <4> QED
        BY <2>1, <3>1, <4>1 DEF Holds
    <3>2. CASE Spent(s, k(s), q, gas)
      BY <2>1, <3>2 DEF Spent
    <3> QED
      BY <2>3, <3>1, <3>2
  <2>7. Chosen(t, r, block, gas)
    BY <1>0, <2>1, <2>2, <2>5, <2>6 DEF Chosen, k, S
  <2> QED
    BY <2>1, <2>2, <2>7 DEF t, r
<1> QED
  BY <1>1, <1>2


LEMMA RefilledIs ==
    ASSUME NEW q \in QueueType
    PROVE  LET r == Refilled(q)
               more == {s \in q.lastSender : q.queued[s] # <<>>}
           IN /\ r \in QueueType
              /\ r.heap = q.heap \union {Head(q.queued[s]) : s \in more}
              /\ \A s \in Senders :
                    r.queued[s] = IF s \in more THEN Tail(q.queued[s]) ELSE q.queued[s]
              /\ r.lastSender = q.lastSender
<1> DEFINE more == {s \in q.lastSender : q.queued[s] # <<>>}
           heap == q.heap \union {Head(q.queued[s]) : s \in more}
           queued == [s \in Senders |-> IF s \in more THEN Tail(q.queued[s]) ELSE q.queued[s]]
           r == [q EXCEPT !.heap = heap, !.queued = queued]
<1>1. /\ q.heap \subseteq OrderedTx /\ q.queued \in [Senders -> Seq(OrderedTx)]
      /\ more \subseteq Senders
  BY DEF QueueType
<1>2. \A s \in Senders : q.queued[s] # <<>> =>
        Head(q.queued[s]) \in OrderedTx /\ Tail(q.queued[s]) \in Seq(OrderedTx)
  BY <1>1, HeadTailProperties
<1>3. heap \in SUBSET OrderedTx /\ queued \in [Senders -> Seq(OrderedTx)]
  BY <1>1, <1>2
<1>4. Refilled(q) = r
  BY DEF Refilled
<1> HIDE DEF heap, queued, more
<1>5. r \in QueueType /\ r.heap = heap /\ r.queued = queued /\ r.lastSender = q.lastSender
  BY <1>3 DEF QueueType
<1> HIDE DEF r
<1>6. \A s \in Senders : queued[s] = IF s \in more THEN Tail(q.queued[s]) ELSE q.queued[s]
  BY DEF queued
<1>7. \A s \in Senders : r.queued[s] = IF s \in more THEN Tail(q.queued[s]) ELSE q.queued[s]
  BY <1>5, <1>6
<1> QED
  BY <1>4, <1>5, <1>7 DEF heap, more

\* What did not fit before does not fit when more gas is used.
LEMMA LessFits ==
    ASSUME PoolInv, NEW s \in Senders, NEW k \in Nat, k < Len(Pending(pool, s)),
           NEW gas \in Int, NEW more \in Int, more >= gas, CanBeAdded(Pending(pool, s)[k + 1], more)
    PROVE  CanBeAdded(Pending(pool, s)[k + 1], gas)
<1> DEFINE u == Pending(pool, s)[k + 1]
<1>1. pool \in PoolState /\ Len(Pending(pool, s)) \in Nat
  BY ListedEntries, ListTypes
<1>2. u \in OrderedTx
  BY <1>1, ListedEntries
<1> HIDE DEF u
<1>3. u.data.gasLimit \in Nat /\ pool.blockGasLimit \in Nat
  BY <1>1, <1>2, TxTypes, TxsAssumption DEF TxType, PoolState
<1>4. CanBeAdded(u, more)
  BY DEF u
<1>5. CanBeAdded(u, gas)
  BY <1>3, <1>4 DEF CanBeAdded, Fits
<1> QED
  BY <1>5 DEF u

\* Included: the next transaction of the sender goes to the heap, if there is one.
LEMMA RefillTaken ==
    ASSUME PoolInv, NEW tx \in OrderedTx, NEW q \in QueueType, NEW block \in Seq(BlockEntry),
           NEW gas \in Int, NEW more \in Int, more >= gas,
           Chosen(tx, q, block, gas)
    PROVE  /\ Refilled(q) \in QueueType
           /\ Ready(Refilled(q), Append(block, [entry |-> tx, gasBefore |-> gas]), more)
<1> DEFINE r == Refilled(q)
           S == tx.data.sender
           b == [entry |-> tx, gasBefore |-> gas]
           k(s) == Count(block, s, Len(block))
           l(s) == Count(Append(block, b), s, Len(Append(block, b)))
<1>1. /\ r \in QueueType
      /\ q.lastSender = {S}
      /\ r.heap = IF q.queued[S] = <<>> THEN q.heap ELSE q.heap \union {Head(q.queued[S])}
      /\ \A s \in Senders : r.queued[s] = IF s = S /\ q.queued[S] # <<>> THEN Tail(q.queued[S]) ELSE q.queued[s]
  <2>1. q.lastSender = {S}
    BY NoTxIsNone DEF Chosen
  <2> HIDE DEF S
  <2> DEFINE ready == {s \in q.lastSender : q.queued[s] # <<>>}
  <2>2. ready = IF q.queued[S] = <<>> THEN {} ELSE {S}
    BY <2>1
  <2>3. {Head(q.queued[s]) : s \in ready} = IF q.queued[S] = <<>> THEN {} ELSE {Head(q.queued[S])}
    BY <2>2
  <2>4. /\ r \in QueueType
        /\ r.heap = q.heap \union {Head(q.queued[s]) : s \in ready}
        /\ \A s \in Senders : r.queued[s] = IF s \in ready THEN Tail(q.queued[s]) ELSE q.queued[s]
    BY RefilledIs
  <2> HIDE DEF r, ready
  <2> QED
    BY <2>1, <2>2, <2>3, <2>4
<1>2. S \in Senders
  BY TxTypes
<1>3. pool \in PoolState /\ \A s \in Senders : Len(Pending(pool, s)) \in Nat
  BY ListedEntries, ListTypes
<1>4. \A s \in Senders : k(s) \in Nat /\ l(s) = k(s) + (IF s = S THEN 1 ELSE 0)
  <2>1. b \in BlockEntry /\ b.entry = tx
    BY DEF BlockEntry
  <2>2. Len(block) \in Nat /\ Len(Append(block, b)) = Len(block) + 1
    BY <2>1, AppendProperties, LenProperties
  <2> HIDE DEF b
  <2>3. ASSUME NEW s \in Senders
        PROVE  /\ Count(block, s, Len(block)) \in Nat
               /\ Count(Append(block, b), s, Len(block) + 1) =
                    Count(block, s, Len(block)) + (IF s = S THEN 1 ELSE 0)
    BY <2>1, <2>2, CountType, CountAppend
  <2> QED
    BY <2>2, <2>3
<1> HIDE DEF r, b, k, l
<1>5. InHand(S, k(S), tx, q)
  BY NoTxIsNone DEF Chosen, k, S
<1>6. \A s \in Senders : s # S => Holds(s, k(s), q) \/ Spent(s, k(s), q, gas)
  BY DEF Chosen, k, S
<1>7. q.heap \subseteq AllListed(pool)
  BY DEF Chosen
<1> HIDE DEF S
<1>8. l(S) = k(S) + 1 /\ l(S) \in Nat
  BY <1>2, <1>4
<1>9. q.queued[S] = Rest(S, l(S))
  BY <1>5, <1>8 DEF InHand
<1>10. CASE l(S) < Len(Pending(pool, S))
  <2>1. /\ Rest(S, l(S)) # <<>> /\ Head(Rest(S, l(S))) = Pending(pool, S)[l(S) + 1]
        /\ Tail(Rest(S, l(S))) = Rest(S, l(S) + 1)
    BY <1>2, <1>3, <1>8, <1>10, RestLemma
  <2> DEFINE e == Pending(pool, S)[l(S) + 1]
  <2>2. e \in AllListed(pool) /\ e.data.sender = S
    BY <1>2, <1>3, <1>8, <1>10, ListedEntries
  <2> HIDE DEF e
  <2>3. r.heap = q.heap \union {e} /\ r.queued[S] = Rest(S, l(S) + 1)
    BY <1>1, <1>2, <1>9, <2>1 DEF e
  <2>4. Holds(S, l(S), r)
    BY <1>5, <1>10, <2>2, <2>3 DEF Holds, InHand, e
  <2>5. ASSUME NEW s \in Senders, s # S PROVE Holds(s, l(s), r) \/ Spent(s, l(s), r, more)
    <3>1. l(s) = k(s) /\ r.queued[s] = q.queued[s] /\ \A u \in r.heap : u.data.sender = s => u \in q.heap
      BY <1>1, <1>4, <2>2, <2>3, <2>5
    <3>2. CASE Holds(s, k(s), q)
      BY <2>3, <3>1, <3>2 DEF Holds
    <3>3. CASE Spent(s, k(s), q, gas)
      <4>1. k(s) < Len(Pending(pool, s)) => ~ CanBeAdded(Pending(pool, s)[k(s) + 1], more)
        BY <1>4, <3>3, LessFits DEF Spent
      <4> QED
        BY <3>1, <3>3, <4>1 DEF Spent
    <3> QED
      BY <1>6, <2>5, <3>2, <3>3
  <2>6. r.heap \subseteq AllListed(pool)
    BY <1>7, <2>2, <2>3
  <2> QED
    BY <1>1, <2>4, <2>5, <2>6 DEF Ready, r, l, b
<1>11. CASE ~ l(S) < Len(Pending(pool, S))
  <2>1. Rest(S, l(S)) = <<>>
    BY <1>2, <1>3, <1>8, <1>11, RestLemma
  <2>2. r.heap = q.heap /\ \A s \in Senders : r.queued[s] = q.queued[s]
    BY <1>1, <1>9, <2>1
  <2>3. Spent(S, l(S), r, more)
    <3>1. k(S) < Len(Pending(pool, S)) /\ Len(Pending(pool, S)) \in Nat /\ k(S) \in Nat
      BY <1>2, <1>3, <1>4, <1>5 DEF InHand
    <3>2. l(S) <= Len(Pending(pool, S))
      BY <1>8, <3>1
    <3> QED
      BY <1>2, <1>5, <1>9, <1>11, <2>1, <2>2, <3>2 DEF Spent, InHand
  <2>4. ASSUME NEW s \in Senders, s # S PROVE Holds(s, l(s), r) \/ Spent(s, l(s), r, more)
    <3>1. l(s) = k(s)
      BY <1>4, <2>4
    <3>2. CASE Holds(s, k(s), q)
      BY <2>2, <3>1, <3>2 DEF Holds
    <3>3. CASE Spent(s, k(s), q, gas)
      <4>1. k(s) < Len(Pending(pool, s)) => ~ CanBeAdded(Pending(pool, s)[k(s) + 1], more)
        BY <1>4, <3>3, LessFits DEF Spent
      <4> QED
        BY <2>2, <3>1, <3>3, <4>1 DEF Spent
    <3> QED
      BY <1>6, <2>4, <3>2, <3>3
  <2> QED
    BY <1>1, <1>7, <2>2, <2>3, <2>4 DEF Ready, r, l, b
<1> QED
  BY <1>10, <1>11


\* Passed over: nothing of the sender comes any more.
LEMMA RefillDropped ==
    ASSUME PoolInv, NEW tx \in OrderedTx, NEW q \in QueueType, NEW block \in Seq(BlockEntry),
           NEW gas \in Int, Chosen(tx, q, block, gas), ~ CanBeAdded(tx, gas)
    PROVE  /\ Refilled(WithoutLastSender(q)) \in QueueType
           /\ Ready(Refilled(WithoutLastSender(q)), block, gas)
<1> DEFINE w == WithoutLastSender(q)
           queued == [s \in Senders |-> IF s \in q.lastSender THEN <<>> ELSE q.queued[s]]
           r == Refilled(w)
           S == tx.data.sender
           k(s) == Count(block, s, Len(block))
<1>1. w \in QueueType /\ w.heap = q.heap /\ w.queued = queued /\ w.lastSender = {}
  <2>1. queued \in [Senders -> Seq(OrderedTx)]
    BY EmptySeq DEF QueueType
  <2>2. w = [q EXCEPT !.queued = queued, !.lastSender = {}]
    BY DEF WithoutLastSender
  <2> HIDE DEF w, queued
  <2> QED
    BY <2>1, <2>2 DEF QueueType
<1>2. q.lastSender = {S} /\ S \in Senders
  BY NoTxIsNone, TxTypes DEF Chosen
<1> HIDE DEF w, k
<1>3. /\ r \in QueueType /\ r.heap = q.heap
      /\ \A s \in Senders : r.queued[s] = IF s = S THEN <<>> ELSE q.queued[s]
  <2>1. {s \in w.lastSender : w.queued[s] # <<>>} = {}
    BY <1>1
  <2>2. r \in QueueType /\ r.heap = w.heap /\ \A s \in Senders : r.queued[s] = w.queued[s]
    <3> DEFINE ready == {s \in w.lastSender : w.queued[s] # <<>>}
    <3>1. /\ r \in QueueType
          /\ r.heap = w.heap \union {Head(w.queued[s]) : s \in ready}
          /\ \A s \in Senders : r.queued[s] = IF s \in ready THEN Tail(w.queued[s]) ELSE w.queued[s]
      BY <1>1, RefilledIs
    <3>2. ready = {}
      BY <2>1
    <3> HIDE DEF r, ready
    <3> QED
      BY <3>1, <3>2
  <2>3. \A s \in Senders : queued[s] = IF s = S THEN <<>> ELSE q.queued[s]
    BY <1>2
  <2> HIDE DEF queued, r
  <2> QED
    BY <1>1, <2>2, <2>3
<1> HIDE DEF r
<1>4. /\ InHand(S, k(S), tx, q)
      /\ \A s \in Senders : s # S => Holds(s, k(s), q) \/ Spent(s, k(s), q, gas)
      /\ q.heap \subseteq AllListed(pool)
  BY NoTxIsNone DEF Chosen, k
<1> HIDE DEF S
<1>5. Spent(S, k(S), r, gas)
  <2>1. k(S) \in Nat /\ Len(Pending(pool, S)) \in Nat
    BY <1>2, LenProperties, CountType, ListedEntries, ListTypes DEF k
  <2>2. k(S) <= Len(Pending(pool, S))
    BY <1>4, <2>1 DEF InHand
  <2> QED
    BY <1>2, <1>3, <1>4, <2>2 DEF Spent, InHand
<1>6. ASSUME NEW s \in Senders, s # S PROVE Holds(s, k(s), r) \/ Spent(s, k(s), r, gas)
  BY <1>3, <1>4, <1>6 DEF Holds, Spent
<1> QED
  BY <1>3, <1>4, <1>5, <1>6 DEF Ready, r, w, k

\* A new queue offers the first transaction of each sender.
LEMMA RefillNew ==
    ASSUME PoolInv, NEW gas
    PROVE  /\ Refilled(NewQueue(pool)) \in QueueType
           /\ Ready(Refilled(NewQueue(pool)), <<>>, gas)
<1> DEFINE n == NewQueue(pool)
           r == Refilled(n)
<1>1. /\ pool \in PoolState
      /\ \A s \in Senders : Pending(pool, s) \in Seq(OrderedTx) /\ Len(Pending(pool, s)) \in Nat
  BY ListedEntries, ListTypes
<1>2. \A s \in Senders : Pending(pool, s) # <<>> =>
        /\ 0 < Len(Pending(pool, s))
        /\ Head(Pending(pool, s)) = Pending(pool, s)[0 + 1]
        /\ Tail(Pending(pool, s)) = Rest(s, 0 + 1)
        /\ Head(Pending(pool, s)) \in AllListed(pool)
        /\ Head(Pending(pool, s)).data.sender = s
  <2> SUFFICES ASSUME NEW s \in Senders, Pending(pool, s) # <<>>
               PROVE  /\ 0 < Len(Pending(pool, s))
                      /\ Head(Pending(pool, s)) = Pending(pool, s)[0 + 1]
                      /\ Tail(Pending(pool, s)) = Rest(s, 0 + 1)
                      /\ Head(Pending(pool, s)) \in AllListed(pool)
                      /\ Head(Pending(pool, s)).data.sender = s
    OBVIOUS
  <2>1. Len(Pending(pool, s)) \in Nat \ {0}
    BY <1>1, EmptySeq
  <2>2. Rest(s, 0) = Pending(pool, s)
    BY <1>1, SubSeqFull DEF Rest
  <2>3. /\ Head(Pending(pool, s)) = Pending(pool, s)[0 + 1]
        /\ Tail(Pending(pool, s)) = Rest(s, 0 + 1)
    <3>1. 0 \in Nat /\ 0 < Len(Pending(pool, s))
      BY <2>1
    <3>2. /\ Head(Rest(s, 0)) = Pending(pool, s)[0 + 1]
          /\ Tail(Rest(s, 0)) = Rest(s, 0 + 1)
      BY <1>1, <3>1, RestLemma, Zenon
    <3> QED
      BY <2>2, <3>2
  <2>4. 0 + 1 \in 1 .. Len(Pending(pool, s))
    BY <2>1
  <2> QED
    BY <2>1, <2>3, <2>4, ListedEntries
<1>3. \A s \in Senders : Pending(pool, s) = <<>> => Len(Pending(pool, s)) = 0
  BY EmptySeq
<1>4. /\ n.heap = {Head(Pending(pool, s)) : s \in {t \in Senders : Pending(pool, t) # <<>>}}
      /\ n.queued = [s \in Senders |-> IF Pending(pool, s) = <<>> THEN <<>> ELSE Tail(Pending(pool, s))]
      /\ n.lastSender = {}
      /\ n \in QueueType
  <2>1. {Head(Pending(pool, s)) : s \in {t \in Senders : Pending(pool, t) # <<>>}} \subseteq OrderedTx
    BY <1>2, ListedEntries
  <2>2. [s \in Senders |-> IF Pending(pool, s) = <<>> THEN <<>> ELSE Tail(Pending(pool, s))]
            \in [Senders -> Seq(OrderedTx)]
    <3>1. ASSUME NEW s \in Senders
          PROVE  (IF Pending(pool, s) = <<>> THEN <<>> ELSE Tail(Pending(pool, s))) \in Seq(OrderedTx)
      BY <1>1, EmptySeq, HeadTailProperties
    <3> QED
      BY <3>1
  <2> QED
    BY <2>1, <2>2 DEF NewQueue, QueueType
<1> HIDE DEF n
<1>5. /\ r \in QueueType /\ r.heap = n.heap /\ \A s \in Senders : r.queued[s] = n.queued[s]
  <2>1. {s \in n.lastSender : n.queued[s] # <<>>} = {}
    BY <1>4
  <2> QED
    BY <1>4, <2>1, RefilledIs
<1> HIDE DEF r
<1>6. Len(<<>>) = 0 /\ \A s \in Senders : Count(<<>>, s, 0) = 0
  BY EmptySeq, CountNone
<1>7. ASSUME NEW s \in Senders PROVE Holds(s, 0, r) \/ Spent(s, 0, r, gas)
  <2>1. CASE Pending(pool, s) = <<>>
    <3>1. r.queued[s] = <<>>
      BY <1>4, <1>5, <2>1
    <3>2. \A e \in r.heap : e.data.sender # s
      BY <1>2, <1>4, <1>5, <2>1
    <3>3. ~ 0 < Len(Pending(pool, s))
      BY <1>3, <2>1
    <3> QED
      BY <3>1, <3>2, <3>3 DEF Spent
  <2>2. CASE Pending(pool, s) # <<>>
    <3>1. r.queued[s] = Tail(Pending(pool, s))
      BY <1>4, <1>5, <2>2
    <3>2. Head(Pending(pool, s)) \in r.heap
      BY <1>4, <1>5, <2>2
    <3>3. \A e \in r.heap : e.data.sender = s => e = Head(Pending(pool, s))
      BY <1>2, <1>4, <1>5
    <3> QED
      BY <1>2, <2>2, <3>1, <3>2, <3>3 DEF Holds
  <2> QED
    BY <2>1, <2>2
<1>8. r.heap \subseteq AllListed(pool)
  BY <1>2, <1>4, <1>5
<1> QED
  BY <1>5, <1>6, <1>7, <1>8 DEF Ready, r, n


\* The n-th transaction of the block went before all that could have come instead.
GreedyAt(block, n) ==
    LET tx == block[n].entry
        gas == block[n].gasBefore
        k(s) == Count(block, s, n - 1)
    IN  /\ k(tx.data.sender) < Len(Pending(pool, tx.data.sender))
        /\ tx = Pending(pool, tx.data.sender)[k(tx.data.sender) + 1]
        /\ CanBeAdded(tx, gas)
        /\ \A s \in Senders :
            /\ s # tx.data.sender /\ k(s) < Len(Pending(pool, s))
            /\ CanBeAdded(Pending(pool, s)[k(s) + 1], gas)
            => Before(tx, Pending(pool, s)[k(s) + 1])

LEMMA GreedyAppend ==
    ASSUME PoolInv, NEW tx \in OrderedTx, NEW q, NEW block \in Seq(BlockEntry), NEW gas \in Int,
           Chosen(tx, q, block, gas), CanBeAdded(tx, gas),
           \A n \in 1 .. Len(block) : GreedyAt(block, n)
    PROVE  LET more == Append(block, [entry |-> tx, gasBefore |-> gas]) IN
           more \in Seq(BlockEntry) /\ \A n \in 1 .. Len(more) : GreedyAt(more, n)
<1> DEFINE b == [entry |-> tx, gasBefore |-> gas]
           more == Append(block, b)
<1>1. b \in BlockEntry /\ b.entry = tx /\ b.gasBefore = gas
  BY DEF BlockEntry
<1> HIDE DEF b
<1>2. /\ more \in Seq(BlockEntry) /\ Len(block) \in Nat /\ Len(more) = Len(block) + 1
      /\ \A i \in 1 .. Len(block) : more[i] = block[i]
      /\ more[Len(block) + 1] = b
      /\ \A s : \A n \in 0 .. Len(block) : Count(more, s, n) = Count(block, s, n)
  <2>1. \A s : \A n \in 0 .. Len(block) : Count(more, s, n) = Count(block, s, n)
    <3> SUFFICES ASSUME NEW s PROVE \A n \in 0 .. Len(block) : Count(more, s, n) = Count(block, s, n)
      OBVIOUS
    <3> QED
      BY <1>1, CountAppend, Zenon DEF more
  <2> QED
    BY <1>1, <2>1, AppendProperties, LenProperties
<1> HIDE DEF more
<1>3. ASSUME NEW n \in 1 .. Len(block) PROVE GreedyAt(more, n)
  <2>1. GreedyAt(block, n)
    OBVIOUS
  <2>2. n - 1 \in 0 .. Len(block)
    BY <1>2
  <2> QED
    BY <1>2, <2>1, <2>2 DEF GreedyAt
<1>4. GreedyAt(more, Len(block) + 1)
  <2> DEFINE S == tx.data.sender
             k(s) == Count(block, s, Len(block))
  <2>1. \A s : Count(more, s, (Len(block) + 1) - 1) = k(s)
    BY <1>2
  <2> HIDE DEF k
  <2>2. /\ InHand(S, k(S), tx, q)
        /\ \A s \in Senders : s # S => Holds(s, k(s), q) \/ Spent(s, k(s), q, gas)
        /\ \A u \in q.heap : Before(tx, u)
    BY NoTxIsNone DEF Chosen, k
  <2>3. ASSUME NEW s \in Senders, s # S, k(s) < Len(Pending(pool, s)),
               CanBeAdded(Pending(pool, s)[k(s) + 1], gas)
        PROVE  Before(tx, Pending(pool, s)[k(s) + 1])
    BY <2>2, <2>3 DEF Holds, Spent
  <2> QED
    BY <1>1, <1>2, <2>1, <2>2, <2>3 DEF GreedyAt, InHand
<1>5. \A n \in 1 .. Len(more) : n \in 1 .. Len(block) \/ n = Len(block) + 1
  BY <1>2
<1> QED
  BY <1>2, <1>3, <1>4, <1>5 DEF more, b

BuilderType ==
    [open : {TRUE}, tx : OrderedTx \union {NoTx}, queue : QueueType, block : Seq(BlockEntry),
     gasUsed : Int, account : [Senders -> AccountType]]

\* While a block is built.
Building ==
    builder.open =>
        /\ builder \in BuilderType
        /\ Chosen(builder.tx, builder.queue, builder.block, builder.gasUsed)
        /\ \A n \in 1 .. Len(builder.block) : GreedyAt(builder.block, n)
        /\ \A s \in Senders : builder.account[s].nonce =
                account[s].nonce + Count(builder.block, s, Len(builder.block))

LEMMA TipIs ==
    ASSUME baseFee \in Int, NEW a \in OrderedTx, NEW b \in OrderedTx
    PROVE  Before(a, b) <=>
           \/ mempoolOrder = "priority" /\ Tip(a.data) > Tip(b.data)
           \/ /\ mempoolOrder = "priority" => Tip(a.data) = Tip(b.data)
              /\ a.orderId < b.orderId
<1>1. /\ a.data.maxFee \in Nat /\ a.data.priorityFee \in Nat
      /\ b.data.maxFee \in Nat /\ b.data.priorityFee \in Nat
  BY TxTypes, TxsAssumption DEF TxType
<1>2. /\ EffectiveMinerFee(a.data) > EffectiveMinerFee(b.data) <=> Tip(a.data) > Tip(b.data)
      /\ EffectiveMinerFee(a.data) = EffectiveMinerFee(b.data) <=> Tip(a.data) = Tip(b.data)
  BY <1>1 DEF EffectiveMinerFee, Tip, Smaller
<1> QED
  BY <1>2 DEF Before

\* The first of what is left of a sender.
LEMMA LeftIs ==
    ASSUME PoolInv, NEW s \in Senders, NEW n \in Nat
    PROVE  LET k == Count(builder.block, s, n) IN
           /\ LeftAfter(s, n) # <<>> <=> k < Len(Pending(pool, s))
           /\ k < Len(Pending(pool, s)) =>
                /\ Head(LeftAfter(s, n)) = Pending(pool, s)[k + 1]
                /\ Head(LeftAfter(s, n)) \in OrderedTx
                /\ Head(LeftAfter(s, n)).data.sender = s
<1> DEFINE k == Count(builder.block, s, n)
<1>1. LeftAfter(s, n) = Rest(s, k)
  BY DEF LeftAfter, Rest, Taken, Count, TakenOf
<1>2. k \in Nat /\ pool \in PoolState /\ Len(Pending(pool, s)) \in Nat
  BY CountType, ListedEntries, ListTypes
<1> HIDE DEF k
<1>3. /\ LeftAfter(s, n) # <<>> <=> k < Len(Pending(pool, s))
      /\ k < Len(Pending(pool, s)) => Head(LeftAfter(s, n)) = Pending(pool, s)[k + 1]
  <2>1. /\ k >= Len(Pending(pool, s)) <=> Rest(s, k) = <<>>
        /\ k < Len(Pending(pool, s)) => Head(Rest(s, k)) = Pending(pool, s)[k + 1]
    BY <1>2, RestLemma
  <2> QED
    BY <1>1, <1>2, <2>1
<1>4. k < Len(Pending(pool, s)) =>
        Pending(pool, s)[k + 1] \in OrderedTx /\ Pending(pool, s)[k + 1].data.sender = s
  BY <1>2, ListedEntries
<1> QED
  BY <1>3, <1>4 DEF k

LEMMA BuildingIsGreedy ==
    ASSUME PoolInv, baseFee \in Int, Building
    PROVE  BlocksAreGreedy
<1> SUFFICES ASSUME builder.open
             PROVE  /\ \A n \in 1 .. Len(builder.block) :
                        LET tx == builder.block[n].entry
                            candidates == Candidates(n - 1, builder.block[n].gasBefore)
                        IN  /\ tx \in candidates
                            /\ \A e \in candidates \ {tx} :
                                \/ mempoolOrder = "priority" /\ Tip(tx.data) > Tip(e.data)
                                \/ /\ mempoolOrder = "priority" => Tip(tx.data) = Tip(e.data)
                                   /\ tx.orderId < e.orderId
                    /\ HasNext
                       \/ pool.blockGasLimit - builder.gasUsed < MinTxGas
                       \/ Candidates(Len(builder.block), builder.gasUsed) = {}
  <2>1. DOMAIN builder.block = 1 .. Len(builder.block)
    BY LenProperties DEF Building, BuilderType
  <2> QED
    BY <2>1 DEF BlocksAreGreedy
<1> DEFINE block == builder.block
           Firsts(n) == {Head(LeftAfter(s, n)) : s \in {r \in Senders : LeftAfter(r, n) # <<>>}}
<1>1. /\ block \in Seq(BlockEntry) /\ Len(block) \in Nat
      /\ builder.tx \in OrderedTx \union {NoTx}
      /\ Chosen(builder.tx, builder.queue, block, builder.gasUsed)
      /\ \A n \in 1 .. Len(block) : GreedyAt(block, n) /\ block[n].entry \in OrderedTx
  <2>1. builder \in BuilderType /\ block \in Seq(BlockEntry)
    BY DEF Building, BuilderType
  <2>2. Len(block) \in Nat /\ \A n \in 1 .. Len(block) : block[n] \in BlockEntry
    BY <2>1, ElementOfSeq, LenProperties
  <2> QED
    BY <2>1, <2>2 DEF Building, BuilderType, BlockEntry
<1>2. \A n, gas : Candidates(n, gas) = {e \in Firsts(n) : CanBeAdded(e, gas)}
  BY DEF Candidates, CanBeAdded
<1>3. ASSUME NEW n \in Nat, NEW e \in Firsts(n)
      PROVE  \E s \in Senders :
                /\ Count(block, s, n) < Len(Pending(pool, s))
                /\ e = Pending(pool, s)[Count(block, s, n) + 1]
                /\ e \in OrderedTx /\ e.data.sender = s
  BY LeftIs
<1>4. ASSUME NEW n \in Nat, NEW s \in Senders, Count(block, s, n) < Len(Pending(pool, s))
      PROVE  Pending(pool, s)[Count(block, s, n) + 1] \in Firsts(n)
  BY <1>4, LeftIs
<1> HIDE DEF Firsts, block
<1>5. ASSUME NEW n \in 1 .. Len(block)
      PROVE  LET tx == block[n].entry
                 candidates == Candidates(n - 1, block[n].gasBefore)
             IN  /\ tx \in candidates
                 /\ \A e \in candidates \ {tx} :
                     \/ mempoolOrder = "priority" /\ Tip(tx.data) > Tip(e.data)
                     \/ /\ mempoolOrder = "priority" => Tip(tx.data) = Tip(e.data)
                        /\ tx.orderId < e.orderId
  <2> DEFINE tx == block[n].entry
             gas == block[n].gasBefore
             S == tx.data.sender
  <2>1. GreedyAt(block, n) /\ tx \in OrderedTx /\ n - 1 \in Nat /\ S \in Senders
    BY <1>1, TxTypes
  <2>2. tx \in Candidates(n - 1, gas)
    BY <1>2, <1>4, <2>1 DEF GreedyAt
  <2>3. ASSUME NEW e \in Candidates(n - 1, gas), e # tx PROVE e \in OrderedTx /\ Before(tx, e)
    <3>1. e \in Firsts(n - 1) /\ CanBeAdded(e, gas)
      BY <1>2
    <3>2. PICK s \in Senders :
            /\ Count(block, s, n - 1) < Len(Pending(pool, s))
            /\ e = Pending(pool, s)[Count(block, s, n - 1) + 1]
            /\ e \in OrderedTx /\ e.data.sender = s
      BY <1>3, <2>1, <3>1
    <3> QED
      BY <2>1, <2>3, <3>1, <3>2 DEF GreedyAt
  <2> HIDE DEF tx, gas
  <2>4. \A e \in Candidates(n - 1, gas) \ {tx} :
            \/ mempoolOrder = "priority" /\ Tip(tx.data) > Tip(e.data)
            \/ /\ mempoolOrder = "priority" => Tip(tx.data) = Tip(e.data)
               /\ tx.orderId < e.orderId
    BY <2>1, <2>3, TipIs
  <2> QED
    BY <2>2, <2>4 DEF tx, gas
<1>6. ASSUME ~ HasNext, ~ pool.blockGasLimit - builder.gasUsed < MinTxGas
      PROVE  Candidates(Len(block), builder.gasUsed) = {}
  <2>1. builder.tx = NoTx
    <3>1. builder.gasUsed \in Int /\ pool.blockGasLimit \in Int /\ MinTxGas \in Int
      BY ListedEntries, QueueAssumption DEF Building, BuilderType, PoolState
    <3> QED
      BY <1>6, <3>1 DEF HasNext
  <2>2. \A s \in Senders : Spent(s, Count(block, s, Len(block)), builder.queue, builder.gasUsed)
    BY <1>1, <2>1 DEF Chosen, Holds
  <2>3. ASSUME NEW e \in Firsts(Len(block)) PROVE ~ CanBeAdded(e, builder.gasUsed)
    <3>1. PICK s \in Senders :
            /\ Count(block, s, Len(block)) < Len(Pending(pool, s))
            /\ e = Pending(pool, s)[Count(block, s, Len(block)) + 1]
      BY <1>1, <1>3
    <3> QED
      BY <2>2, <3>1 DEF Spent
  <2> QED
    BY <1>2, <2>3
<1> QED
  BY <1>5, <1>6 DEF block


-----------------------------------------------------------------------------
(* The invariant of the requests, and its steps. *)

\* What the request that mines remembers.
AddingType == [phase : {"adding"}, tx : Txs, snapshot : Nat, baseFee : Int]
UntilType == [phase : {"until_included", "until_empty"}, orderId : Nat, snapshot : Nat, baseFee : Int]
Once == [phase |-> "once"]

RequestInv ==
    /\ \/ request = Idle \/ request = Once
       \/ request \in AddingType \/ request \in UntilType
    /\ builder.open => request = Once \/ request \in UntilType

QueueInv == PoolInv /\ baseFee \in Int /\ RequestInv /\ Building

LEMMA StillBuilding ==
    ASSUME UNCHANGED <<pool, account, london, mempoolOrder, minGasPrice, baseFee>>,
           builder' \in BuilderType,
           Chosen(builder'.tx, builder'.queue, builder'.block, builder'.gasUsed),
           \A n \in 1 .. Len(builder'.block) : GreedyAt(builder'.block, n),
           \A s \in Senders : builder'.account[s].nonce =
                account[s].nonce + Count(builder'.block, s, Len(builder'.block))
    PROVE  Building'
<1>1. Chosen(builder.tx, builder.queue, builder.block, builder.gasUsed)'
  <2> DEFINE k(s) == Count(builder'.block, s, Len(builder'.block))
  <2>1. AllListed(pool') = AllListed(pool)
    BY DEF AllListed
  <2>2. \A s \in Senders : Holds(s, k(s), builder'.queue) =>
            Holds(s, Count(builder.block, s, Len(builder.block)), builder.queue)'
    BY DEF Holds, Rest
  <2>3. \A s \in Senders : Spent(s, k(s), builder'.queue, builder'.gasUsed) =>
            Spent(s, Count(builder.block, s, Len(builder.block)), builder.queue, builder.gasUsed)'
    BY DEF Spent, CanBeAdded, IsTxMinable, Fits
  <2>4. \A s : InHand(s, k(s), builder'.tx, builder'.queue) =>
            InHand(s, Count(builder.block, s, Len(builder.block)), builder.tx, builder.queue)'
    BY DEF InHand, Rest
  <2>5. \A u : Before(builder'.tx, u) => Before(builder.tx, u)'
    BY DEF Before, EffectiveMinerFee
  <2> QED
    BY <2>1, <2>2, <2>3, <2>4, <2>5 DEF Chosen
<1>2. ASSUME NEW n \in 1 .. Len(builder'.block) PROVE GreedyAt(builder.block, n)'
  <2>1. GreedyAt(builder'.block, n)
    OBVIOUS
  <2> QED
    BY <2>1 DEF GreedyAt, Before, CanBeAdded, IsTxMinable, Fits, EffectiveMinerFee
<1> QED
  BY <1>1, <1>2 DEF Building, BuilderType

LEMMA NewIsBuilding ==
    ASSUME PoolInv, baseFee \in Int, builder = NewBlock
    PROVE  Building
<1> DEFINE q == Refilled(NewQueue(pool))
           first == Popped(q)
<1>1. q \in QueueType /\ Ready(q, <<>>, 0)
  BY RefillNew
<1>2. NewBlock = [open |-> TRUE, tx |-> first.tx, queue |-> first.queue, block |-> <<>>,
                  gasUsed |-> 0, account |-> account]
  BY DEF NewBlock, NextTransaction
<1> HIDE DEF q
<1>3. <<>> \in Seq(BlockEntry) /\ Len(<<>>) = 0
  BY EmptySeq
<1>4. /\ first.tx \in OrderedTx \union {NoTx}
      /\ first.queue \in QueueType
      /\ Chosen(first.tx, first.queue, <<>>, 0)
  BY <1>1, <1>3, PopReady
<1>5. account \in [Senders -> AccountType]
  BY DEF PoolInv, EntriesInv, TypeOK
<1> HIDE DEF first
<1>6. builder \in BuilderType
  BY <1>2, <1>3, <1>4, <1>5 DEF BuilderType
<1>7. /\ builder.tx = first.tx /\ builder.queue = first.queue /\ builder.block = <<>>
      /\ builder.gasUsed = 0 /\ builder.account = account
  BY <1>2
<1>8. 1 .. Len(builder.block) = {}
  BY <1>3, <1>7
<1>9. \A s \in Senders : account[s].nonce = account[s].nonce + Count(<<>>, s, Len(<<>>))
  BY <1>3, <1>5, CountNone DEF AccountType
<1> QED
  BY <1>4, <1>6, <1>7, <1>8, <1>9 DEF Building

\* What is charged is never more than what was reserved.
LEMMA GasCost ==
    ASSUME NEW gas \in Nat, NEW limit \in Nat, gas <= limit, NEW fee \in Int, NEW max \in Nat, fee <= max
    PROVE  gas * fee \in Int /\ gas * fee <= limit * max
<1>1. gas * fee <= gas * max
  OBVIOUS
<1>2. gas * max <= limit * max
  OBVIOUS
<1> QED
  BY <1>1, <1>2

LEMMA ChargeLemma ==
    ASSUME baseFee \in Int, NEW e \in OrderedTx, NEW gas \in Nat, gas <= e.data.gasLimit
    PROVE  /\ Charge(e.data, gas) \in Int /\ MaxUpfrontCost(e.data) \in Int
           /\ Charge(e.data, gas) <= MaxUpfrontCost(e.data)
<1> DEFINE fee == IF london THEN Smaller(e.data.maxFee, baseFee + e.data.priorityFee) ELSE e.data.maxFee
<1>1. /\ e.data.gasLimit \in Nat /\ e.data.maxFee \in Nat /\ e.data.priorityFee \in Nat
      /\ e.data.value \in Nat
  BY TxTypes, TxsAssumption DEF TxType
<1>2. fee \in Int /\ fee <= e.data.maxFee
  BY <1>1 DEF Smaller
<1>3. Charge(e.data, gas) = e.data.value + gas * fee
  BY DEF Charge
<1> HIDE DEF fee
<1>4. gas * fee \in Int /\ gas * fee <= e.data.gasLimit * e.data.maxFee
  BY <1>1, <1>2, GasCost
<1>5. e.data.gasLimit * e.data.maxFee \in Int
  BY <1>1
<1> QED
  BY <1>1, <1>3, <1>4, <1>5 DEF MaxUpfrontCost

LEMMA IncludeBuilds ==
    ASSUME QueueInv, Include
    PROVE  Building'
<1> DEFINE tx == builder.tx
           q == Refilled(builder.queue)
           next == Popped(q)
           b == [entry |-> tx, gasBefore |-> builder.gasUsed]
           block == Append(builder.block, b)
           s == tx.data.sender
<1>1. /\ builder \in BuilderType
      /\ Chosen(tx, builder.queue, builder.block, builder.gasUsed)
      /\ \A n \in 1 .. Len(builder.block) : GreedyAt(builder.block, n)
      /\ tx # NoTx /\ CanBeAdded(tx, builder.gasUsed)
  BY DEF Include, QueueInv, Building, WillBeAdded, HasNext, CanBeAdded
<1>2. /\ tx \in OrderedTx /\ builder.queue \in QueueType /\ builder.block \in Seq(BlockEntry)
      /\ builder.gasUsed \in Int /\ builder.account \in [Senders -> AccountType]
  BY <1>1 DEF BuilderType
<1>3. PICK gas \in {g \in {MinTxGas, tx.data.gasLimit} : g <= tx.data.gasLimit} :
        builder' = [builder EXCEPT !.tx = next.tx, !.queue = next.queue,
            !.block = block, !.gasUsed = @ + gas,
            !.account[s] = [nonce |-> @.nonce + 1, balance |-> @.balance - Charge(tx.data, gas)]]
  BY DEF Include, NextTransaction
<1>4. MaxUpfrontCost(tx.data) <= builder.account[s].balance
  BY DEF Include
<1>5. gas \in Nat /\ gas <= tx.data.gasLimit
  BY <1>2, <1>3, QueueAssumption, TxTypes, TxsAssumption DEF TxType
<1>6. q \in QueueType /\ Ready(q, block, builder.gasUsed + gas)
  BY <1>1, <1>2, <1>5, RefillTaken DEF QueueInv
<1>7. block \in Seq(BlockEntry) /\ \A n \in 1 .. Len(block) : GreedyAt(block, n)
  BY <1>1, <1>2, GreedyAppend DEF QueueInv
<1> HIDE DEF q, b, block
<1>8. /\ next.tx \in OrderedTx \union {NoTx}
      /\ next.queue \in QueueType
      /\ Chosen(next.tx, next.queue, block, builder.gasUsed + gas)
  BY <1>6, <1>7, PopReady DEF QueueInv
<1>9. s \in Senders /\ builder.account[s] \in AccountType
      /\ builder.account[s].balance - Charge(tx.data, gas) \in Nat
  <2>1. s \in Senders
    BY <1>2, TxTypes
  <2>2. builder.account[s] \in AccountType
    BY <1>2, <2>1
  <2>3. /\ Charge(tx.data, gas) \in Int /\ MaxUpfrontCost(tx.data) \in Int
        /\ Charge(tx.data, gas) <= MaxUpfrontCost(tx.data)
    BY <1>2, <1>5, ChargeLemma DEF QueueInv
  <2>4. builder.account[s].balance \in Nat
    BY <2>2 DEF AccountType
  <2> QED
    BY <1>4, <2>1, <2>2, <2>3, <2>4
<1> HIDE DEF next
<1>10. /\ builder' \in BuilderType
       /\ builder'.tx = next.tx /\ builder'.queue = next.queue /\ builder'.block = block
       /\ builder'.gasUsed = builder.gasUsed + gas
       /\ \A t \in Senders :
            builder'.account[t].nonce = builder.account[t].nonce + (IF s = t THEN 1 ELSE 0)
  <2> DEFINE new == [nonce |-> builder.account[s].nonce + 1,
                     balance |-> builder.account[s].balance - Charge(tx.data, gas)]
             account2 == [builder.account EXCEPT ![s] = new]
  <2>1. new \in AccountType
    BY <1>9 DEF AccountType
  <2>2. builder' = [builder EXCEPT !.tx = next.tx, !.queue = next.queue, !.block = block,
                                  !.gasUsed = builder.gasUsed + gas, !.account = account2]
    BY <1>1, <1>3 DEF BuilderType
  <2> HIDE DEF new
  <2>3. account2 \in [Senders -> AccountType]
    BY <1>2, <2>1
  <2> HIDE DEF account2
  <2>4. builder.gasUsed + gas \in Int
    BY <1>2, <1>5
  <2>5. \A t \in Senders : account2[t].nonce = builder.account[t].nonce + (IF s = t THEN 1 ELSE 0)
    BY <1>2, <1>9 DEF account2, new, AccountType
  <2> QED
    BY <1>1, <1>7, <1>8, <2>2, <2>3, <2>4, <2>5 DEF BuilderType
<1>11. UNCHANGED <<pool, account, london, mempoolOrder, minGasPrice, baseFee>>
  BY DEF Include, vars, config
<1>12. ASSUME NEW t \in Senders
       PROVE  builder'.account[t].nonce = account[t].nonce + Count(block, t, Len(block))
  <2>1. b \in BlockEntry /\ b.entry = tx
    BY <1>2 DEF b, BlockEntry
  <2>2. Len(builder.block) \in Nat /\ Len(block) = Len(builder.block) + 1
    BY <1>2, <2>1, AppendProperties, LenProperties DEF block
  <2>3. /\ Count(builder.block, t, Len(builder.block)) \in Nat
        /\ Count(block, t, Len(block)) =
            Count(builder.block, t, Len(builder.block)) + (IF s = t THEN 1 ELSE 0)
    BY <1>2, <2>1, <2>2, CountType, CountAppend DEF block
  <2>4. builder.account[t].nonce = account[t].nonce + Count(builder.block, t, Len(builder.block))
    BY DEF Include, QueueInv, Building
  <2>5. account[t].nonce \in Nat
    BY DEF QueueInv, PoolInv, EntriesInv, TypeOK, AccountType
  <2> QED
    BY <1>10, <2>3, <2>4, <2>5
<1> QED
  BY <1>7, <1>8, <1>10, <1>11, <1>12, StillBuilding


LEMMA PassOverBuilds ==
    ASSUME QueueInv, PassOver
    PROVE  Building'
<1> DEFINE tx == builder.tx
           q == Refilled(WithoutLastSender(builder.queue))
           next == Popped(q)
<1>1. /\ builder \in BuilderType
      /\ Chosen(tx, builder.queue, builder.block, builder.gasUsed)
      /\ \A n \in 1 .. Len(builder.block) : GreedyAt(builder.block, n)
      /\ tx # NoTx /\ ~ CanBeAdded(tx, builder.gasUsed)
      /\ \A s \in Senders : builder.account[s].nonce =
            account[s].nonce + Count(builder.block, s, Len(builder.block))
  BY DEF PassOver, QueueInv, Building, WillBeAdded, HasNext, CanBeAdded
<1>2. /\ tx \in OrderedTx /\ builder.queue \in QueueType /\ builder.block \in Seq(BlockEntry)
      /\ builder.gasUsed \in Int
  BY <1>1 DEF BuilderType
<1>3. builder' = [builder EXCEPT !.tx = next.tx, !.queue = next.queue]
  BY DEF PassOver, NextTransaction
<1>4. q \in QueueType /\ Ready(q, builder.block, builder.gasUsed)
  BY <1>1, <1>2, RefillDropped DEF QueueInv
<1> HIDE DEF q
<1>5. /\ next.tx \in OrderedTx \union {NoTx}
      /\ next.queue \in QueueType
      /\ Chosen(next.tx, next.queue, builder.block, builder.gasUsed)
  BY <1>2, <1>4, PopReady DEF QueueInv
<1> HIDE DEF next
<1>6. /\ builder' \in BuilderType
      /\ builder'.tx = next.tx /\ builder'.queue = next.queue /\ builder'.block = builder.block
      /\ builder'.gasUsed = builder.gasUsed /\ builder'.account = builder.account
  BY <1>1, <1>3, <1>5 DEF BuilderType
<1>7. UNCHANGED <<pool, account, london, mempoolOrder, minGasPrice, baseFee>>
  BY DEF PassOver, vars, config
<1> QED
  BY <1>1, <1>5, <1>6, <1>7, StillBuilding

LEMMA PoolStep == PoolInv /\ [Next]_vars => PoolInv'
<1> SUFFICES ASSUME PoolInv, [Next]_vars PROVE PoolInv'
  OBVIOUS
<1>1. /\ TypeOK /\ TypeOK' /\ EntriesInv' /\ SendersInv' /\ GapFreeInv'
      /\ Contracts = {} => QueuesInv'
  BY TypeStep, EntriesStep, SendersStep, GapFreeStep, QueuesStep DEF PoolInv, EntriesInv
<1>2. /\ pool \in PoolState /\ account \in [Senders -> AccountType]
      /\ account' \in [Senders -> AccountType]
  BY <1>1 DEF TypeOK
<1>3. LimitsInv
  BY DEF PoolInv, LimitsInv
<1>4. ASSUME NEW tx \in Txs, AddTransaction(tx) PROVE LimitsInv'
  <2>1. pool'.blockGasLimit = pool.blockGasLimit
    BY <1>1, <1>4, AddContents DEF Differs
  <2>2. UNCHANGED snapshotIdToState
    BY <1>4 DEF AddTransaction, AddPendingTransaction, ReplacePendingTransaction,
                AddQueuedTransaction, ReplaceQueuedTransaction, RefuseUnderpriced, Submit
  <2> QED
    BY <1>3, <2>1, <2>2 DEF LimitsInv
<1>5. ASSUME NEW entry \in pool.hashToTransaction, RemoveTransaction(entry) PROVE LimitsInv'
  <2>1. pool'.blockGasLimit = pool.blockGasLimit
    BY <1>1, <1>5, RemoveContents DEF Differs
  <2>2. UNCHANGED snapshotIdToState
    BY <1>5 DEF RemoveTransaction, RemovePendingTransaction, RemoveQueuedTransaction
  <2> QED
    BY <1>3, <2>1, <2>2 DEF LimitsInv
<1>6. ASSUME NEW limit \in GasLimits, SetBlockGasLimit(limit) PROVE LimitsInv'
  <2> DEFINE p == [pool EXCEPT !.blockGasLimit = limit]
  <2>1. p \in PoolState /\ p.blockGasLimit = limit
    BY <1>2, AmountsAssumption DEF PoolState
  <2>2. pool' = UpdatedPool(p, account) /\ UNCHANGED snapshotIdToState
    BY <1>6 DEF SetBlockGasLimit
  <2> HIDE DEF p
  <2>3. pool'.blockGasLimit = limit
    BY <1>2, <2>1, <2>2, UpdateContents
  <2> QED
    BY <1>3, <2>2, <2>3 DEF LimitsInv
<1>7. ASSUME Snapshot PROVE LimitsInv'
  BY <1>3, <1>7 DEF LimitsInv, Snapshot
<1>8. ASSUME NEW id \in DOMAIN snapshotIdToState, Revert(id) PROVE LimitsInv'
  BY <1>3, <1>8 DEF LimitsInv, Revert
<1>9. ASSUME MineBlock PROVE LimitsInv'
  <2>1. pool' = UpdatedPool(pool, account') /\ UNCHANGED snapshotIdToState
    BY <1>9 DEF MineBlock
  <2>2. pool'.blockGasLimit = pool.blockGasLimit
    BY <1>2, <2>1, UpdateContents
  <2> QED
    BY <1>3, <2>1, <2>2 DEF LimitsInv
<1>10. ASSUME \/ UNCHANGED vars
              \/ \E t \in Senders, balance \in Balances : SetBalance(t, balance)
              \/ \E t \in Senders, nonce \in 0 .. MaxNonce : SetNonce(t, nonce)
       PROVE  LimitsInv'
  BY <1>3, <1>10 DEF LimitsInv, vars, SetBalance, SetNonce
<1>11. LimitsInv'
  BY <1>4, <1>5, <1>6, <1>7, <1>8, <1>9, <1>10 DEF Next
<1> QED
  BY <1>1, <1>11 DEF PoolInv, LimitsInv

\* A block is done: the pool is brought up to date with the accounts of the block.
LEMMA PoolClosed ==
    ASSUME PoolInv, NEW acc \in [Senders -> AccountType],
           pool' = UpdatedPool(pool, acc), account' = acc,
           \A s \in Senders : /\ acc[s].nonce >= account[s].nonce
                              /\ acc[s].nonce <= account[s].nonce + Len(Pending(pool, s)),
           UNCHANGED <<snapshotIdToState, nextSnapshotId, nextOrderId>>
    PROVE  PoolInv'
<1>1. /\ pool \in PoolState /\ EntriesAreRight(pool, nextOrderId) /\ OwnLists(pool)
  BY DEF PoolInv, EntriesInv, SendersInv, TypeOK
<1>2. pool' \in PoolState
  BY <1>1, UpdatedPoolType
<1>3. TypeOK'
  BY <1>2 DEF PoolInv, EntriesInv, TypeOK
<1>4. EntriesAreRight(pool', nextOrderId)
  BY <1>1, EntriesUpdated
<1>5. /\ \A s \in Senders : Listed(pool', s) \subseteq Listed(pool, s)
      /\ pool'.blockGasLimit = pool.blockGasLimit
  BY <1>1, UpdateContents
<1>6. OwnLists(pool')
  BY <1>1, <1>5 DEF OwnLists
<1>7. EntriesInv'
  BY <1>3, <1>4 DEF PoolInv, EntriesInv
<1>8. SendersInv'
  BY <1>3, <1>6 DEF PoolInv, SendersInv
<1>9. /\ PendingIsGapFree(pool, account) /\ account \in [Senders -> AccountType]
  BY DEF PoolInv, GapFreeInv, TypeOK
<1>10. PendingIsGapFree(pool', acc)
  BY <1>1, <1>9, UpdateKeepsGapFree
<1>11. GapFreeInv'
  BY <1>3, <1>10 DEF PoolInv, GapFreeInv
<1>12. ASSUME Contracts = {} PROVE QueuesInv'
  <2>1. QueuesAreOrdered(pool, account)
    BY <1>12 DEF PoolInv, QueuesInv
  <2>2. QueuesAreOrdered(pool', acc) /\ FitsABlock(pool')
    BY <1>1, <1>9, <2>1, UpdateKeepsQueues, UpdateFits
  <2> QED
    BY <1>11, <1>12, <2>2 DEF PoolInv, QueuesInv
<1> QED
  BY <1>5, <1>7, <1>8, <1>11, <1>12 DEF PoolInv, LimitsInv

\* revertToSnapshot is a step of the pool.
LEMMA GoBackStep ==
    ASSUME PoolInv, GoBack
    PROVE  PoolInv'
<1>1. \E id \in DOMAIN snapshotIdToState : Revert(id)
  BY DEF GoBack, Revert
<1>2. Next
  BY <1>1 DEF Next
<1> QED
  BY <1>2, PoolStep

\* A block that is begun with the state after the step.
LEMMA BeginBuilds == PoolInv' /\ baseFee' \in Int /\ Begin => Building'
<1> DEFINE F == baseFee \in Int
           N == builder = NewBlock
<1>1. PoolInv /\ F /\ N => Building
  BY NewIsBuilding
<1>2. PoolInv' /\ F' /\ N' => Building'
  <2> HIDE DEF F, N
  <2> QED
    BY <1>1, PTL
<1>3. baseFee' \in Int => F'
  OBVIOUS
<1>4. Begin => N'
  BY DEF Begin
<1> QED
  BY <1>2, <1>3, <1>4



LEMMA NextBaseFeeType ==
    ASSUME PoolInv, baseFee \in Int, builder.gasUsed \in Int
    PROVE  NextBaseFee \in Int
<1> DEFINE target == pool.blockGasLimit \div 2
           eighth(gas) == (baseFee * gas) \div (8 * target)
<1>1. target \in Nat /\ target > 0
  <2> DEFINE limit == pool.blockGasLimit
  <2>1. limit \in Nat /\ limit > 1
    BY QueueAssumption, AmountsAssumption DEF PoolInv, LimitsInv
  <2> HIDE DEF limit
  <2>2. limit \div 2 \in Nat /\ limit \div 2 > 0
    BY <2>1
  <2> QED
    BY <2>2 DEF limit
<1>2. ASSUME NEW gas \in Int PROVE eighth(gas) \in Int
  <2>1. baseFee * gas \in Int /\ 8 * target \in Nat /\ 8 * target > 0
    BY <1>1
  <2> DEFINE x == baseFee * gas
             y == 8 * target
  <2> HIDE DEF x, y
  <2>2. x \div y \in Int
    BY <2>1 DEF x, y
  <2> QED
    BY <2>2 DEF x, y
<1>3. builder.gasUsed - target \in Int /\ target - builder.gasUsed \in Int
  BY <1>1
<1> HIDE DEF target
<1>4. eighth(builder.gasUsed - target) \in Int /\ eighth(target - builder.gasUsed) \in Int
  BY <1>2, <1>3
<1>5. NextBaseFee = IF ~ london \/ builder.gasUsed = target THEN baseFee
                    ELSE IF builder.gasUsed > target
                         THEN baseFee + (IF eighth(builder.gasUsed - target) > 1
                                         THEN eighth(builder.gasUsed - target) ELSE 1)
                         ELSE baseFee - eighth(target - builder.gasUsed)
  BY DEF NextBaseFee, target
<1> HIDE DEF eighth
<1> QED
  BY <1>4, <1>5

\* The block that is built is done, or all is undone.
LEMMA CloseStep ==
    ASSUME QueueInv, Close
    PROVE  QueueInv'
<1>1. /\ builder.open /\ builder \in BuilderType /\ PoolInv /\ baseFee \in Int
      /\ request = Once \/ request \in UntilType
      /\ builder.account \in [Senders -> AccountType] /\ builder.gasUsed \in Int
  BY DEF Close, QueueInv, RequestInv, Building, BuilderType
<1> DEFINE updated == UpdatedPool(pool, builder.account)
           done == /\ pool' = updated /\ account' = builder.account /\ baseFee' = NextBaseFee
                   /\ UNCHANGED <<snapshotIdToState, nextSnapshotId, nextOrderId>>
<1>2. \/ /\ request.phase # "once" /\ done /\ Begin
         /\ request' = [request EXCEPT !.phase = "until_empty"] \/ request' = request
      \/ done /\ request' = Idle /\ builder' = NotBuilding
      \/ request.phase # "once" /\ GoBack /\ builder' = NotBuilding
  BY DEF Close
<1>3. ASSUME done PROVE PoolInv' /\ baseFee' \in Int
  <2>1. ASSUME NEW s \in Senders
        PROVE  /\ builder.account[s].nonce >= account[s].nonce
               /\ builder.account[s].nonce <= account[s].nonce + Len(Pending(pool, s))
    <3> DEFINE k == Count(builder.block, s, Len(builder.block))
    <3>1. /\ builder.account[s].nonce = account[s].nonce + k
          /\ Chosen(builder.tx, builder.queue, builder.block, builder.gasUsed)
          /\ builder.block \in Seq(BlockEntry)
      BY <1>1 DEF QueueInv, Building, BuilderType
    <3>2. k \in Nat /\ Len(Pending(pool, s)) \in Nat /\ account[s].nonce \in Nat
      BY <1>1, <3>1, CountType, LenProperties, ListedEntries, ListTypes
         DEF PoolInv, EntriesInv, TypeOK, AccountType
    <3>3. k <= Len(Pending(pool, s))
      BY <3>1, <3>2 DEF Chosen, Holds, InHand, Spent
    <3> HIDE DEF k
    <3> QED
      BY <3>1, <3>2, <3>3
  <2> QED
    BY <1>1, <1>3, <2>1, PoolClosed, NextBaseFeeType
<1> HIDE DEF done
<1>4. request.phase # "once" => request \in UntilType
  BY <1>1 DEF Once
<1>5. CASE /\ request.phase # "once" /\ done /\ Begin
           /\ request' = [request EXCEPT !.phase = "until_empty"] \/ request' = request
  <2>1. request' \in UntilType
    BY <1>4, <1>5 DEF UntilType
  <2>2. Building'
    BY <1>3, <1>5, BeginBuilds
  <2> QED
    BY <1>3, <1>5, <2>1, <2>2 DEF QueueInv, RequestInv
<1>6. CASE done /\ request' = Idle /\ builder' = NotBuilding
  <2>1. ~ builder'.open
    BY <1>6 DEF NotBuilding
  <2> QED
    BY <1>3, <1>6, <2>1 DEF QueueInv, RequestInv, Building
<1>7. CASE request.phase # "once" /\ GoBack /\ builder' = NotBuilding
  <2>1. ~ builder'.open
    BY <1>7 DEF NotBuilding
  <2>2. PoolInv'
    BY <1>1, <1>7, GoBackStep
  <2>3. baseFee' \in Int /\ request' = Idle
    BY <1>4, <1>7 DEF GoBack, UntilType
  <2> QED
    BY <2>1, <2>2, <2>3 DEF QueueInv, RequestInv, Building
<1> QED
  BY <1>2, <1>5, <1>6, <1>7

\* Steps while no block is built.
LEMMA OutsideABlock ==
    ASSUME QueueInv, QueueNext, request.phase # "adding", ~ builder.open
    PROVE  QueueInv'
<1>1. PoolInv /\ baseFee \in Int
  BY DEF QueueInv
<1>2. ASSUME request = Idle, [Next]_vars, UNCHANGED <<builder, request>>, baseFee' \in Int
      PROVE  QueueInv'
  <2>1. PoolInv'
    BY <1>1, <1>2, PoolStep
  <2> QED
    BY <1>2, <2>1 DEF QueueInv, RequestInv, Building
<1>3. ASSUME request' = Once, [Next]_vars, UNCHANGED baseFee, Begin
      PROVE  QueueInv'
  <2>1. PoolInv'
    BY <1>1, <1>3, PoolStep
  <2>2. Building'
    BY <1>1, <1>3, <2>1, BeginBuilds
  <2> QED
    BY <1>1, <1>3, <2>1, <2>2 DEF QueueInv, RequestInv
<1>4. ASSUME NEW tx \in Txs, Send(tx) PROVE QueueInv'
  <2>1. Next
    BY <1>4 DEF Send, Next
  <2> QED
    BY <1>1, <1>2, <1>4, <2>1 DEF Send
<1>5. ASSUME NEW tx \in Txs, Automine(tx) PROVE QueueInv'
  <2>1. Next
    BY <1>5 DEF Automine, AddTransaction, Next
  <2> QED
    BY <1>3, <1>5, <2>1 DEF Automine, Once
<1>6. ASSUME NEW tx \in Txs, AutomineWithOthers(tx) PROVE QueueInv'
  <2>1. Next
    BY <1>6 DEF AutomineWithOthers, Next
  <2>2. PoolInv'
    BY <1>1, <2>1, PoolStep
  <2>3. request' \in AddingType /\ baseFee' = baseFee /\ builder' = builder
    <3>1. nextSnapshotId \in Nat
      BY <1>1 DEF PoolInv, EntriesInv, TypeOK
    <3> QED
      BY <1>1, <1>6, <3>1 DEF AutomineWithOthers, AddingType
  <2> QED
    BY <1>1, <2>2, <2>3 DEF QueueInv, RequestInv, Building
<1>7. ASSUME NEW limit \in GasLimits, ChangeBlockGasLimit(limit) PROVE QueueInv'
  <2>1. Next
    BY <1>7 DEF ChangeBlockGasLimit, Next
  <2> QED
    BY <1>1, <1>2, <1>7, <2>1 DEF ChangeBlockGasLimit
<1>8. ASSUME NEW price \in MinGasPrices, SetMinGasPrice(price) PROVE QueueInv'
  BY <1>1, <1>2, <1>8 DEF SetMinGasPrice
<1>9. ASSUME NEW fee \in BaseFees, SetNextBlockBaseFee(fee) PROVE QueueInv'
  <2>1. fee \in Int
    BY QueueAssumption
  <2> QED
    BY <1>2, <1>9, <2>1 DEF SetNextBlockBaseFee
<1>10. ASSUME MineOne PROVE QueueInv'
  BY <1>3, <1>10 DEF MineOne, Once
<1>11. ~ Mining
  BY DEF Mining, AddAutomined, RefuseAutomined, PassOver, Include, Fail, Close
<1> QED
  BY <1>4, <1>5, <1>6, <1>7, <1>8, <1>9, <1>10, <1>11 DEF QueueNext

LEMMA QueueStep == QueueInv /\ [QueueNext]_queueVars => QueueInv'
<1> SUFFICES ASSUME QueueInv, [QueueNext]_queueVars PROVE QueueInv'
  OBVIOUS
<1>1. PoolInv /\ baseFee \in Int /\ RequestInv /\ Building
  BY DEF QueueInv
<1>2. CASE UNCHANGED queueVars
  <2>1. PoolInv'
    <3>1. UNCHANGED vars
      BY <1>2 DEF queueVars
    <3> QED
      BY <1>1, <3>1, PoolStep
  <2>2. Building'
    <3>1. UNCHANGED <<pool, account, london, mempoolOrder, minGasPrice, baseFee, builder>>
      BY <1>2 DEF queueVars, vars, config
    <3>2. ASSUME builder.open PROVE Building'
      BY <1>1, <3>1, <3>2, StillBuilding DEF Building
    <3> QED
      BY <3>1, <3>2 DEF Building
  <2> QED
    BY <1>1, <1>2, <2>1, <2>2 DEF QueueInv, RequestInv, queueVars
<1>3. CASE QueueNext /\ builder.open
  <2>1. request = Once \/ request \in UntilType
    BY <1>1, <1>3 DEF RequestInv
  <2>2. request.phase # "idle" /\ request.phase # "adding" /\ request # Idle
    BY <2>1 DEF Once, UntilType, Idle
  <2>3. PassOver \/ Include \/ Fail \/ Close
    BY <1>3, <2>2 DEF QueueNext, Send, Automine, AutomineWithOthers, ChangeBlockGasLimit,
          SetMinGasPrice, SetNextBlockBaseFee, MineOne, Mining, AddAutomined, RefuseAutomined
  <2>4. CASE PassOver \/ Include
    <3>1. Building'
      BY <2>4, PassOverBuilds, IncludeBuilds
    <3>2. UNCHANGED <<vars, baseFee, request>>
      BY <2>4 DEF PassOver, Include
    <3>3. PoolInv'
      BY <1>1, <3>2, PoolStep
    <3> QED
      BY <1>1, <2>1, <3>1, <3>2, <3>3 DEF QueueInv, RequestInv
  <2>5. CASE Fail
    <3>1. builder' = NotBuilding /\ ~ builder'.open
      BY <2>5 DEF Fail, NotBuilding
    <3>2. CASE request' = Idle /\ UNCHANGED <<vars, baseFee>>
      <4>1. PoolInv'
        BY <1>1, <3>2, PoolStep
      <4> QED
        BY <1>1, <3>1, <3>2, <4>1 DEF QueueInv, RequestInv, Building
    <3>3. CASE request.phase # "once" /\ GoBack
      <4>1. PoolInv'
        BY <1>1, <3>3, GoBackStep
      <4>2. baseFee' \in Int /\ request' = Idle
        BY <2>1, <3>3 DEF GoBack, UntilType, Once
      <4> QED
        BY <3>1, <4>1, <4>2 DEF QueueInv, RequestInv, Building
    <3> QED
      BY <2>5, <3>2, <3>3 DEF Fail
  <2> QED
    BY <2>3, <2>4, <2>5, CloseStep
<1>4. CASE QueueNext /\ ~ builder.open /\ request.phase # "adding"
  BY <1>4, OutsideABlock
<1>5. CASE QueueNext /\ ~ builder.open /\ request.phase = "adding"
  <2>1. request \in AddingType
    BY <1>1, <1>5 DEF RequestInv, Idle, Once, UntilType
  <2>5. request # Idle
    BY <1>5 DEF Idle
  <2>2. AddAutomined \/ RefuseAutomined
    BY <1>5, <2>5 DEF QueueNext, Send, Automine, AutomineWithOthers, ChangeBlockGasLimit,
          SetMinGasPrice, SetNextBlockBaseFee, MineOne, Mining, PassOver, Include, Fail, Close
  <2>3. CASE AddAutomined
    <3>1. Next
      BY <2>1, <2>3 DEF AddAutomined, AddTransaction, Next, AddingType
    <3>2. PoolInv'
      BY <1>1, <3>1, PoolStep
    <3>3. request' \in UntilType
      <4>1. nextOrderId \in Nat
        BY <1>1 DEF PoolInv, EntriesInv, TypeOK
      <4> QED
        BY <2>1, <2>3, <4>1 DEF AddAutomined, AddingType, UntilType
    <3>4. baseFee' \in Int /\ Begin
      BY <1>1, <2>3 DEF AddAutomined
    <3>5. Building'
      BY <3>2, <3>4, BeginBuilds
    <3> QED
      BY <3>2, <3>3, <3>4, <3>5 DEF QueueInv, RequestInv
  <2>4. CASE RefuseAutomined
    <3>1. GoBack /\ builder' = builder
      BY <2>4 DEF RefuseAutomined
    <3>2. PoolInv'
      BY <1>1, <3>1, GoBackStep
    <3>3. baseFee' \in Int /\ request' = Idle
      BY <2>1, <3>1 DEF GoBack, AddingType
    <3> QED
      BY <1>5, <3>1, <3>2, <3>3 DEF QueueInv, RequestInv, Building
  <2> QED
    BY <2>2, <2>3, <2>4
<1> QED
  BY <1>2, <1>3, <1>4, <1>5

LEMMA QueueBegins == QueueInit => QueueInv
<1> SUFFICES ASSUME QueueInit PROVE QueueInv
  OBVIOUS
<1>1. Init
  BY DEF QueueInit
<1>2. PoolInv
  BY <1>1, EntriesInit, SendersInit, GapFreeInit, QueuesInit DEF PoolInv, LimitsInv, Init
<1>3. baseFee \in Int
  BY QueueAssumption DEF QueueInit
<1>4. request = Idle /\ builder = NotBuilding /\ ~ builder.open
  BY DEF QueueInit, NotBuilding
<1> QED
  BY <1>2, <1>3, <1>4 DEF QueueInv, RequestInv, Building

\* Each transaction of a block is, of those that could come next in it, the one that pays best,
\* or of equal ones the first to arrive, and no block is done that has room for another: the
\* heap of TransactionQueue.ts and the loop of _mineBlockWithPendingTxs together are greedy.
THEOREM BlocksStayGreedy == QueueSpec => []BlocksAreGreedy
<1>1. QueueInv => BlocksAreGreedy
  BY BuildingIsGreedy DEF QueueInv
<1> QED
  BY <1>1, QueueBegins, QueueStep, PTL DEF QueueSpec


\* What the builder executes has the nonce of its sender: the queue keeps the order of the
\* pending list, also when other transactions of the sender are in the block already.
THEOREM ExecutedInNonceOrder ==
    QueueSpec => [](builder.open /\ builder.tx # NoTx =>
        builder.tx.data.nonce = builder.account[builder.tx.data.sender].nonce)
<1> DEFINE InOrder == builder.open /\ builder.tx # NoTx =>
        builder.tx.data.nonce = builder.account[builder.tx.data.sender].nonce
<1>1. QueueInv => InOrder
  <2> SUFFICES ASSUME QueueInv, builder.open, builder.tx # NoTx PROVE InOrder
    OBVIOUS
  <2> DEFINE tx == builder.tx
             s == tx.data.sender
             k == Count(builder.block, s, Len(builder.block))
  <2>1. /\ tx \in OrderedTx /\ builder.block \in Seq(BlockEntry) /\ InHand(s, k, tx, builder.queue)
    BY DEF QueueInv, Building, BuilderType, Chosen
  <2>2. /\ s \in Senders /\ k \in Nat /\ Len(Pending(pool, s)) \in Nat
    BY <2>1, TxTypes, CountType, LenProperties, ListedEntries, ListTypes DEF QueueInv
  <2>3. builder.account[s].nonce = account[s].nonce + k
    BY <2>2 DEF QueueInv, Building
  <2>4. account[s].nonce \in Nat /\ PendingIsGapFree(pool, account) /\ pool \in PoolState
    BY <2>2 DEF QueueInv, PoolInv, GapFreeInv, TypeOK, AccountType
  <2> HIDE DEF k, s
  <2>5. tx = Pending(pool, s)[k + 1] /\ k + 1 \in 1 .. Len(Pending(pool, s))
    BY <2>1, <2>2 DEF InHand
  <2>6. tx.data.nonce = account[s].nonce + (k + 1) - 1
    BY <2>2, <2>4, <2>5, ListTypes DEF PendingIsGapFree
  <2> QED
    BY <2>2, <2>3, <2>4, <2>6 DEF s
<1> HIDE DEF InOrder
<1>2. QueueSpec => []InOrder
  BY <1>1, QueueBegins, QueueStep, PTL DEF QueueSpec
<1> QED
  BY <1>2 DEF InOrder

\* The pool keeps its promises also when blocks are built of it transaction by transaction,
\* whatever is included, passed over or undone.
THEOREM BuildingKeepsThePool ==
    QueueSpec => [](/\ TypeOK /\ EntriesAreUnique /\ PendingIsExecutable
                    /\ Contracts = {} => QueuedCanBeMinedLater)
<1> DEFINE Promises == /\ TypeOK /\ EntriesAreUnique /\ PendingIsExecutable
                       /\ Contracts = {} => QueuedCanBeMinedLater
<1>1. QueueInv => Promises
  <2>1. QueueInv => TypeOK /\ EntriesAreUnique /\ PendingIsExecutable
    BY DEF QueueInv, PoolInv, EntriesInv, GapFreeInv, EntriesAreRight, EntriesAreUnique,
           IndexedIsListed, ArrivalNumbersAreUnique, PendingIsExecutable
  <2>2. QueueInv /\ Contracts = {} => QueuedCanBeMinedLater
    BY DEF QueueInv, PoolInv, QueuesInv, QueuesAreOrdered, FitsABlock, QueuedCanBeMinedLater,
           NothingExecutableIsQueued, QueuedNoncesAreDistinct, EveryTransactionFitsABlock
  <2> QED
    BY <2>1, <2>2
<1> HIDE DEF Promises
<1>2. QueueSpec => []Promises
  BY <1>1, QueueBegins, QueueStep, PTL DEF QueueSpec
<1> QED
  BY <1>2 DEF Promises


\* What a step of the queue is to the pool.
LEMMA StepOfThePool ==
    ASSUME QueueInv, [QueueNext]_queueVars
    PROVE  \/ [Next]_vars
           \/ /\ pool' = UpdatedPool(pool, account')
              /\ account' \in [Senders -> AccountType]
<1>1. CASE UNCHANGED queueVars
  BY <1>1 DEF queueVars
<1>2. ASSUME NEW tx \in Txs, Send(tx) \/ Automine(tx) \/ AutomineWithOthers(tx) PROVE Next
  BY <1>2 DEF Send, Automine, AutomineWithOthers, AddTransaction, Next
<1>3. ASSUME NEW limit \in GasLimits, ChangeBlockGasLimit(limit) PROVE Next
  BY <1>3 DEF ChangeBlockGasLimit, Next
<1>4. ASSUME \/ \E price \in MinGasPrices : SetMinGasPrice(price)
             \/ \E fee \in BaseFees : SetNextBlockBaseFee(fee)
             \/ MineOne \/ PassOver \/ Include
      PROVE  UNCHANGED vars
  BY <1>4 DEF SetMinGasPrice, SetNextBlockBaseFee, MineOne, PassOver, Include
<1>5. GoBack => Next
  BY DEF GoBack, Revert, Next
<1>6. CASE AddAutomined
  <2>1. request.phase = "adding"
    BY <1>6 DEF AddAutomined
  <2>2. request \in AddingType
    BY <2>1 DEF QueueInv, RequestInv, Idle, Once, UntilType
  <2> QED
    BY <1>6, <2>2 DEF AddAutomined, AddTransaction, Next, AddingType
<1>7. CASE RefuseAutomined \/ Fail
  BY <1>5, <1>7 DEF RefuseAutomined, Fail
<1>8. CASE Close
  <2>1. builder.account \in [Senders -> AccountType]
    BY <1>8 DEF Close, QueueInv, Building, BuilderType
  <2>2. GoBack \/ (pool' = UpdatedPool(pool, builder.account) /\ account' = builder.account)
    BY <1>8 DEF Close
  <2> QED
    BY <1>5, <2>1, <2>2
<1>9. CASE QueueNext
  BY <1>2, <1>3, <1>4, <1>6, <1>7, <1>8, <1>9 DEF QueueNext, Mining
<1> QED
  BY <1>1, <1>9

\* Also from block to block a transaction leaves the pool only for one of the reasons.
THEOREM NothingGetsLostInBlocks == QueueSpec => NothingIsLost
<1> DEFINE Reasons == \A e \in AllListed(pool) \ AllListed(pool') : Reason(e)
<1>1. QueueInv /\ QueueInv' /\ [QueueNext]_queueVars => [Reasons]_vars
  <2> SUFFICES ASSUME QueueInv, QueueInv', [QueueNext]_queueVars,
                      NEW e \in AllListed(pool) \ AllListed(pool')
               PROVE  Reason(e)
    OBVIOUS
  <2>1. SendersInv /\ TypeOK' /\ pool \in PoolState
    BY DEF QueueInv, PoolInv, SendersInv, TypeOK
  <2>2. CASE [Next]_vars
    BY <2>1, <2>2, LeavesForAReason
  <2>3. CASE pool' = UpdatedPool(pool, account') /\ account' \in [Senders -> AccountType]
    <3>1. PICK s \in Senders : e \in Listed(pool, s)
      BY DEF AllListed
    <3>2. e.data.sender = s
      BY <2>1, <3>1 DEF SendersInv, OwnLists
    <3>3. e \in Listed(pool, e.data.sender) /\ e \notin Listed(pool', e.data.sender) /\ e.data.sender \in Senders
      BY <3>1, <3>2 DEF AllListed
    <3>4. e.data.nonce < account'[e.data.sender].nonce \/ ~ IsTxValid(pool, account', e.data)
      BY <2>1, <2>3, <3>2, <3>3, DroppedByUpdate
    <3>5. pool'.blockGasLimit = pool.blockGasLimit
      BY <2>1, <2>3, UpdateContents
    <3> QED
      BY <3>4, <3>5 DEF Reason, IsTxValid
  <2> QED
    BY <2>2, <2>3, StepOfThePool
<1>2. [][Reasons]_vars => NothingIsLost
  BY DEF NothingIsLost, Reason
<1> HIDE DEF Reasons
<1> QED
  BY <1>1, <1>2, QueueBegins, QueueStep, PTL DEF QueueSpec

=============================================================================
