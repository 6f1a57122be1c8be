---------------------- MODULE HardhatBlockchainProofs -----------------------
(***************************************************************************)
(* What TLAPS proves of module HardhatBlockchain, for chains and           *)
(* reservations of any length.                                             *)
(***************************************************************************)
EXTENDS HardhatBlockchain, SequenceTheorems, TLAPS

(* The inductive invariant, in the form the provers use: B are the blocks by  *)
(* number, R the reservations.                                                *)

Tiled(B, R, len) ==
    /\ \A n \in 0 .. len - 1 : (\E r \in R : Reserves(r, n)) \/ (\E b \in B : b.number = n)
    /\ \A r \in R, b \in B : ~ Reserves(r, b.number)
    /\ \A b, c \in B : b.number = c.number => b = c
    /\ \A r, s \in R : r.first <= s.last /\ s.first <= r.last => r = s
    /\ \A b \in B : b.number < len
    /\ \A r \in R : r.last < len /\ r.first <= r.last

Follow(B, R) == \A r \in R : \E b \in B : b.number = r.first - 1

TypedSets(B, R, len) == B \subseteq Block /\ R \subseteq Reservation /\ len \in Nat \ {0}

Shape(B, R, len) == TypedSets(B, R, len) /\ Tiled(B, R, len) /\ Follow(B, R)

Sound(D, len) ==
    /\ D \in BlockchainData
    /\ D.blocksByHash = D.blocksByNumber
    /\ Shape(D.blocksByNumber, D.blockReservations, len)

Inv == Sound(data, length)

(* The operations, as relations between the maps before and after.  What is   *)
(* proved of them in this form also holds of the chain of a fork.             *)

Getting(D, E, n) ==
    \E r \in D.blockReservations :
        /\ Reserves(r, n)
        /\ \E before \in Numbered(D, r.first - 1) : E = Fulfilled(D, before, r, n)

Adding(D, E, len, interval, state, txs) ==
    /\ \A e \in D.blocksByTransactions : e.tx \notin txs
    /\ \E parent \in Numbered(D, len - 1), e \in D.totalDifficulty :
        /\ e.block = parent
        /\ E = [WithBlock(D,
                    [number |-> len, timestamp |-> parent.timestamp + interval,
                     state |-> state, txs |-> txs, difficulty |-> Difficulty],
                    e.td + Difficulty)
                 EXCEPT !.transactionReceipts = @ \union txs]

Reserving(D, E, len, count, interval) ==
    \E latest \in Numbered(D, len - 1), e \in D.totalDifficulty :
        /\ e.block = latest
        /\ E = [D EXCEPT !.blockReservations = @ \union
            {[first |-> len, last |-> len + count - 1, interval |-> interval,
              previousBlockState |-> latest.state,
              previousBlockTotalDifficulty |-> e.td]}]

Deleting(D, E, block) ==
    E = [WithoutBlocks(D, {b \in D.blocksByNumber :
                b.number > block.number /\ ~ IsReservedBlock(D, b.number)})
         EXCEPT !.blockReservations = {r \in @ : r.last <= block.number}]

-----------------------------------------------------------------------------
(* How each operation changes the shape of the chain.                         *)

LEMMA AppendShape ==
    ASSUME NEW B, NEW R, NEW len, Shape(B, R, len),
           NEW block \in Block, block.number = len
    PROVE  Shape({b \in B : b.number # len} \union {block}, R, len + 1)
<1> DEFINE C == {b \in B : b.number # len} \union {block}
<1>1. C = B \union {block}
  BY DEF Shape, Tiled, TypedSets, Block
<1> HIDE DEF C
<1>2. len \in Nat \ {0} /\ B \subseteq Block /\ R \subseteq Reservation
  BY DEF Shape, TypedSets
<1>3. \A b \in B : b.number \in Nat /\ b.number < len
  BY <1>2 DEF Shape, Tiled, Block
<1>4. \A r \in R : r.first \in Nat /\ r.last \in Nat /\ r.last < len
  BY <1>2 DEF Shape, Tiled, Reservation
<1>5. TypedSets(C, R, len + 1)
  BY <1>1, <1>2 DEF TypedSets
<1>6. \A n \in 0 .. (len + 1) - 1 :
        (\E r \in R : Reserves(r, n)) \/ (\E b \in C : b.number = n)
  <2> SUFFICES ASSUME NEW n \in 0 .. (len + 1) - 1
               PROVE  (\E r \in R : Reserves(r, n)) \/ (\E b \in C : b.number = n)
    OBVIOUS
  <2>1. CASE n = len
    BY <1>1, <2>1
  <2>2. CASE n # len
    <3>1. n \in 0 .. len - 1
      BY <1>2, <2>2
    <3> QED
      BY <1>1, <3>1 DEF Shape, Tiled
  <2> QED
    BY <2>1, <2>2
<1>7. \A r \in R, b \in C : ~ Reserves(r, b.number)
  BY <1>1, <1>2, <1>4 DEF Shape, Tiled, Reserves
<1>8. \A b, c \in C : b.number = c.number => b = c
  BY <1>1, <1>2, <1>3 DEF Shape, Tiled
<1>9. \A b \in C : b.number < len + 1
  BY <1>1, <1>2, <1>3
<1>10. \A r \in R : r.last < len + 1
  BY <1>2, <1>4
<1>11. Tiled(C, R, len + 1)
  BY <1>6, <1>7, <1>8, <1>9, <1>10 DEF Tiled, Shape
<1>12. Follow(C, R)
  BY <1>1 DEF Follow, Shape
<1> QED
  BY <1>5, <1>11, <1>12 DEF Shape, C

LEMMA ReserveShape ==
    ASSUME NEW B, NEW R, NEW len, Shape(B, R, len),
           NEW latest \in B, latest.number = len - 1,
           NEW count \in Nat \ {0},
           NEW new \in Reservation, new.first = len, new.last = len + count - 1
    PROVE  Shape(B, R \union {new}, len + count)
<1> DEFINE S == R \union {new}
<1>2. len \in Nat \ {0} /\ B \subseteq Block /\ R \subseteq Reservation
  BY DEF Shape, TypedSets
<1>3. \A b \in B : b.number \in Nat /\ b.number < len
  BY <1>2 DEF Shape, Tiled, Block
<1>4. \A r \in R : /\ r.first \in Nat /\ r.last \in Nat /\ r.last < len
                   /\ r.first <= r.last
  BY <1>2 DEF Shape, Tiled, Reservation
<1>5. TypedSets(B, S, len + count)
  BY <1>2 DEF TypedSets
<1>6. \A n \in 0 .. (len + count) - 1 :
        (\E r \in S : Reserves(r, n)) \/ (\E b \in B : b.number = n)
  <2> SUFFICES ASSUME NEW n \in 0 .. (len + count) - 1
               PROVE  (\E r \in S : Reserves(r, n)) \/ (\E b \in B : b.number = n)
    OBVIOUS
  <2>1. CASE n >= len
    <3>1. Reserves(new, n)
      BY <1>2, <2>1 DEF Reserves
    <3> QED
      BY <3>1
  <2>2. CASE ~ (n >= len)
    <3>1. n \in 0 .. len - 1
      BY <1>2, <2>2
    <3> QED
      BY <3>1 DEF Shape, Tiled
  <2> QED
    BY <2>1, <2>2
<1>7. \A r \in S, b \in B : ~ Reserves(r, b.number)
  BY <1>2, <1>3 DEF Shape, Tiled, Reserves
<1>8. \A r, s \in S : r.first <= s.last /\ s.first <= r.last => r = s
  <2>1. \A r \in R : ~ (new.first <= r.last)
    BY <1>2, <1>4
  <2> QED
    BY <2>1 DEF Shape, Tiled
<1>9. \A b \in B : b.number < len + count
  BY <1>2, <1>3
<1>10. \A r \in S : r.last < len + count /\ r.first <= r.last
  BY <1>2, <1>4
<1>11. Tiled(B, S, len + count)
  BY <1>6, <1>7, <1>8, <1>9, <1>10 DEF Tiled, Shape
<1>12. Follow(B, S)
  BY DEF Follow, Shape
<1> QED
  BY <1>5, <1>11, <1>12 DEF Shape

LEMMA SplitShape ==
    ASSUME NEW B, NEW R, NEW len, Shape(B, R, len),
           NEW r \in R, NEW n \in Nat, Reserves(r, n),
           NEW block \in Block, block.number = n
    PROVE  Shape({b \in B : b.number # n} \union {block}, (R \ {r}) \union SplitAt(r, n), len)
<1> DEFINE C == {b \in B : b.number # n} \union {block}
           S == (R \ {r}) \union SplitAt(r, n)
<1>1. len \in Nat \ {0} /\ B \subseteq Block /\ R \subseteq Reservation
  BY DEF Shape, TypedSets
<1>2. \A b \in B : b.number \in Nat /\ b.number < len
  BY <1>1 DEF Shape, Tiled, Block
<1>3. \A s \in R : /\ s.first \in Nat /\ s.last \in Nat /\ s.last < len
                   /\ s.first <= s.last
  BY <1>1 DEF Shape, Tiled, Reservation
<1>4. \A s \in SplitAt(r, n) :
        /\ s \in Reservation
        /\ s.first <= s.last
        /\ \/ s.first = r.first /\ s.last = n - 1
           \/ s.first = n + 1 /\ s.last = r.last
        /\ s.previousBlockState = r.previousBlockState
  <2>1. r \in Reservation
    BY <1>1
  <2>2. r.first \in Nat /\ r.last \in Nat /\ r.first <= n /\ n <= r.last
    BY <2>1 DEF Reservation, Reserves
  <2>3. ASSUME n # r.first
        PROVE  LET s == [r EXCEPT !.last = n - 1]
               IN  /\ s \in Reservation /\ s.first <= s.last
                   /\ s.first = r.first /\ s.last = n - 1
                   /\ s.previousBlockState = r.previousBlockState
    BY <2>1, <2>2, <2>3 DEF Reservation
  <2>4. ASSUME n # r.last
        PROVE  LET s == [r EXCEPT !.first = n + 1]
               IN  /\ s \in Reservation /\ s.first <= s.last
                   /\ s.first = n + 1 /\ s.last = r.last
                   /\ s.previousBlockState = r.previousBlockState
    BY <2>1, <2>2, <2>4 DEF Reservation
  <2> QED
    BY <2>3, <2>4 DEF SplitAt
<1>5. r.first \in Nat /\ r.last \in Nat /\ r.first <= n /\ n <= r.last /\ r.last < len
  BY <1>3 DEF Reserves
<1>6. C = B \union {block}
  BY DEF Shape, Tiled
<1>7. \A s \in R : s # r => ~ Reserves(s, n)
  BY <1>3, <1>5 DEF Shape, Tiled, Reserves
<1>8. \A k \in Nat : Reserves(r, k) => k = n \/ \E s \in SplitAt(r, n) : Reserves(s, k)
  <2> SUFFICES ASSUME NEW k \in Nat, Reserves(r, k), k # n
               PROVE  \E s \in SplitAt(r, n) : Reserves(s, k)
    OBVIOUS
  <2>0. r \in Reservation /\ r.first <= k /\ k <= r.last
    BY <1>1 DEF Reserves
  <2>1. CASE k < n
    <3>1. [r EXCEPT !.last = n - 1] \in SplitAt(r, n)
      BY <2>0, <2>1, <1>5 DEF SplitAt
    <3>2. Reserves([r EXCEPT !.last = n - 1], k)
      BY <2>0, <2>1, <1>5 DEF Reserves, Reservation
    <3> QED
      BY <3>1, <3>2
  <2>2. CASE k > n
    <3>1. [r EXCEPT !.first = n + 1] \in SplitAt(r, n)
      BY <2>0, <2>2, <1>5 DEF SplitAt
    <3>2. Reserves([r EXCEPT !.first = n + 1], k)
      BY <2>0, <2>2, <1>5 DEF Reserves, Reservation
    <3> QED
      BY <3>1, <3>2
  <2> QED
    BY <2>1, <2>2
<1>9. \A s \in SplitAt(r, n), k \in Nat : Reserves(s, k) => Reserves(r, k) /\ k # n
  BY <1>4, <1>5 DEF Reserves, Reservation
<1> DEFINE P == SplitAt(r, n)
<1>10. S = (R \ {r}) \union P
  OBVIOUS
<1> HIDE DEF C, P, S
<1>11. TypedSets(C, S, len)
  BY <1>1, <1>4, <1>6, <1>10 DEF TypedSets, P
<1>12. \A k \in 0 .. len - 1 : (\E s \in S : Reserves(s, k)) \/ (\E b \in C : b.number = k)
  <2> SUFFICES ASSUME NEW k \in 0 .. len - 1
               PROVE  (\E s \in S : Reserves(s, k)) \/ (\E b \in C : b.number = k)
    OBVIOUS
  <2>1. (\E s \in R : Reserves(s, k)) \/ (\E b \in B : b.number = k)
    BY DEF Shape, Tiled
  <2>2. k \in Nat
    BY <1>1
  <2>3. CASE Reserves(r, k)
    BY <1>6, <1>8, <1>10, <2>2, <2>3 DEF P
  <2>4. CASE ~ Reserves(r, k)
    BY <1>6, <1>10, <2>1, <2>4
  <2> QED
    BY <2>3, <2>4
<1>13. \A s \in S, b \in C : ~ Reserves(s, b.number)
  <2>1. \A s \in P, b \in B : ~ Reserves(s, b.number)
    BY <1>2, <1>9 DEF P, Shape, Tiled
  <2>2. \A s \in P : ~ Reserves(s, n)
    BY <1>9 DEF P
  <2> QED
    BY <1>6, <1>7, <1>10, <2>1, <2>2 DEF Shape, Tiled
<1>14. \A b, c \in C : b.number = c.number => b = c
  <2>1. \A b \in B : b.number # n
    BY DEF Shape, Tiled
  <2> QED
    BY <1>6, <2>1 DEF Shape, Tiled
<1>15. \A s, t \in S : s.first <= t.last /\ t.first <= s.last => s = t
  <2> SUFFICES ASSUME NEW s \in S, NEW t \in S, s.first <= t.last, t.first <= s.last
               PROVE  s = t
    OBVIOUS
  <2>0. \A x \in P : /\ x.first \in Nat /\ x.last \in Nat /\ x.first <= x.last
                     /\ r.first <= x.first /\ x.last <= r.last
    BY <1>4, <1>5 DEF P, Reservation
  <2>1. CASE s \in R /\ t \in R
    BY <2>1 DEF Shape, Tiled
  <2>2. ASSUME NEW x \in P, NEW y \in R, y # r
        PROVE  ~ (x.first <= y.last /\ y.first <= x.last)
    <3>1. ~ (r.first <= y.last /\ y.first <= r.last)
      BY <2>2 DEF Shape, Tiled
    <3>2. y.first \in Nat /\ y.last \in Nat
      BY <1>3
    <3> QED
      BY <2>0, <3>1, <3>2, <1>5
  <2>3. CASE s \in P /\ t \in P
    <3> DEFINE before == [r EXCEPT !.last = n - 1]
               after == [r EXCEPT !.first = n + 1]
    <3>1. s \in {before, after} /\ t \in {before, after}
      BY <2>3 DEF P, SplitAt
    <3>2. r \in Reservation
      BY <1>1
    <3>3. before.last = n - 1 /\ after.first = n + 1
      BY <3>2 DEF Reservation
    <3> HIDE DEF before, after
    <3>4. ~ (after.first <= before.last)
      BY <3>3
    <3> QED
      BY <3>1, <3>4
  <2> QED
    BY <1>10, <2>1, <2>2, <2>3
<1>16. \A b \in C : b.number < len
  BY <1>2, <1>5, <1>6, <1>1
<1>17. \A s \in S : s.last < len /\ s.first <= s.last
  BY <1>3, <1>4, <1>5, <1>10, <1>1 DEF P
<1>18. Tiled(C, S, len)
  BY <1>12, <1>13, <1>14, <1>15, <1>16, <1>17 DEF Tiled
<1>19. Follow(C, S)
  <2> SUFFICES ASSUME NEW s \in S
               PROVE  \E b \in C : b.number = s.first - 1
    BY DEF Follow
  <2>1. CASE s \in R
    BY <1>6, <2>1 DEF Shape, Follow
  <2>2. CASE s \in P /\ s.first = r.first
    BY <1>6, <2>2 DEF Shape, Follow
  <2>3. CASE s \in P /\ s.first = n + 1
    BY <1>6, <2>3
  <2> QED
    BY <1>4, <1>10, <2>1, <2>2, <2>3 DEF P
<1> QED
  BY <1>11, <1>18, <1>19 DEF Shape, C, S

LEMMA DeleteShape ==
    ASSUME NEW B, NEW R, NEW len, Shape(B, R, len),
           NEW last \in B
    PROVE  Shape(B \ {b \in B : /\ b.number > last.number
                                /\ ~ \E r \in R : Reserves(r, b.number)},
                 {r \in R : r.last <= last.number}, last.number + 1)
<1> DEFINE C == B \ {b \in B : b.number > last.number /\ ~ \E r \in R : Reserves(r, b.number)}
           S == {r \in R : r.last <= last.number}
           k == last.number
<1>1. len \in Nat \ {0} /\ B \subseteq Block /\ R \subseteq Reservation
  BY DEF Shape, TypedSets
<1>2. \A b \in B : b.number \in Nat /\ b.number < len
  BY <1>1 DEF Shape, Tiled, Block
<1>3. \A s \in R : /\ s.first \in Nat /\ s.last \in Nat /\ s.first <= s.last
  BY <1>1 DEF Shape, Tiled, Reservation
<1>4. C = {b \in B : b.number <= k}
  <2>1. \A b \in B : ~ \E r \in R : Reserves(r, b.number)
    BY DEF Shape, Tiled
  <2> QED
    BY <1>2, <2>1
<1>5. k \in Nat /\ k < len
  BY <1>2
<1>6. S = {r \in R : r.last <= k}
  OBVIOUS
<1>7. \A r \in R : r.first <= k => r.last <= k
  BY <1>3, <1>5 DEF Shape, Tiled, Reserves
<1> HIDE DEF C, S, k
<1>8. TypedSets(C, S, k + 1)
  BY <1>1, <1>4, <1>5, <1>6 DEF TypedSets
<1>9. \A n \in 0 .. (k + 1) - 1 : (\E r \in S : Reserves(r, n)) \/ (\E b \in C : b.number = n)
  <2> SUFFICES ASSUME NEW n \in 0 .. (k + 1) - 1
               PROVE  (\E r \in S : Reserves(r, n)) \/ (\E b \in C : b.number = n)
    OBVIOUS
  <2>1. n \in 0 .. len - 1 /\ n <= k
    BY <1>1, <1>5
  <2>2. (\E r \in R : Reserves(r, n)) \/ (\E b \in B : b.number = n)
    BY <2>1 DEF Shape, Tiled
  <2>3. \A r \in R : Reserves(r, n) => r \in S
    BY <1>3, <1>5, <1>6, <1>7, <2>1 DEF Reserves
  <2> QED
    BY <1>4, <2>1, <2>2, <2>3
<1>10. \A b \in C : b.number < k + 1
  BY <1>2, <1>4, <1>5
<1>11. \A r \in S : r.last < k + 1 /\ r.first <= r.last
  BY <1>3, <1>5, <1>6
<1>12. Tiled(C, S, k + 1)
  BY <1>4, <1>6, <1>9, <1>10, <1>11 DEF Tiled, Shape
<1>13. Follow(C, S)
  <2> SUFFICES ASSUME NEW r \in S
               PROVE  \E b \in C : b.number = r.first - 1
    BY DEF Follow
  <2>1. PICK b \in B : b.number = r.first - 1
    BY <1>6 DEF Shape, Follow
  <2>2. b.number <= k
    BY <1>3, <1>5, <1>6, <2>1
  <2> QED
    BY <1>4, <2>1, <2>2
<1> QED
  BY <1>8, <1>12, <1>13 DEF Shape, C, S, k

-----------------------------------------------------------------------------
(* The invariant is inductive.                                                *)

LEMMA WithBlockData ==
    ASSUME NEW d \in BlockchainData, NEW block \in Block, NEW td \in Nat
    PROVE  /\ WithBlock(d, block, td) \in BlockchainData
           /\ WithBlock(d, block, td).blocksByNumber =
                {b \in d.blocksByNumber : b.number # block.number} \union {block}
           /\ WithBlock(d, block, td).blocksByHash = d.blocksByHash \union {block}
           /\ WithBlock(d, block, td).blockReservations = d.blockReservations
<1>1. {[tx |-> tx, block |-> block] : tx \in block.txs} \subseteq [tx : Txs, block : Block]
  BY DEF Block
<1>2. [block |-> block, td |-> td] \in [block : Block, td : Nat]
  OBVIOUS
<1> QED
  BY <1>1, <1>2 DEF WithBlock, BlockchainData

LEMMA InvInit == BlockchainInit => Inv
<1> SUFFICES ASSUME NEW state \in States,
                    data = WithBlock(NoData, GenesisBlock(state), Difficulty), length = 1
             PROVE  Inv
  BY DEF BlockchainInit
<1>1. GenesisBlock(state) \in Block /\ GenesisBlock(state).number = 0
  BY IntervalsAssumption DEF GenesisBlock, Block
<1>2. NoData \in BlockchainData
  BY DEF NoData, BlockchainData
<1>3. /\ data \in BlockchainData
      /\ data.blocksByNumber = {GenesisBlock(state)}
      /\ data.blocksByHash = {GenesisBlock(state)}
      /\ data.blockReservations = {}
  BY <1>1, <1>2, WithBlockData, IntervalsAssumption DEF NoData
<1>4. Shape({GenesisBlock(state)}, {}, 1)
  BY <1>1 DEF Shape, Tiled, TypedSets, Follow
<1> QED
  BY <1>3, <1>4 DEF Inv, Sound

LEMMA GetBlockStep ==
    ASSUME NEW D, NEW E, NEW len, Sound(D, len), NEW n \in Nat, Getting(D, E, n)
    PROVE  Sound(E, len)
<1> DEFINE B == D.blocksByNumber
           R == D.blockReservations
<1>1. PICK r \in R : /\ Reserves(r, n)
                     /\ \E before \in Numbered(D, r.first - 1) :
                          E = Fulfilled(D, before, r, n)
  BY DEF Getting
<1>2. PICK before \in Numbered(D, r.first - 1) : E = Fulfilled(D, before, r, n)
  BY <1>1
<1> DEFINE block == ReservedBlock(before, r, n)
           split == [D EXCEPT !.blockReservations = (@ \ {r}) \union SplitAt(r, n)]
<1>3. D \in BlockchainData /\ R \subseteq Reservation /\ B \subseteq Block
  BY DEF Sound, Shape, TypedSets
<1>4. before \in Block /\ r \in Reservation
  BY <1>3 DEF Numbered
<1>5. n - r.first + 1 \in Nat
  BY <1>1, <1>4 DEF Reserves, Reservation
<1>6. r.interval * (n - r.first + 1) \in Nat
  <2>1. \A i, j \in Nat : i * j \in Nat
    OBVIOUS
  <2>2. r.interval \in Nat
    BY <1>4 DEF Reservation
  <2> DEFINE k == n - r.first + 1
  <2>3. k \in Nat
    BY <1>5
  <2> HIDE DEF k
  <2>4. r.interval * k \in Nat
    BY <2>1, <2>2, <2>3
  <2> QED
    BY <2>4 DEF k
<1>7. block \in Block /\ block.number = n
  <2>1. before.timestamp + r.interval * (n - r.first + 1) \in Nat
    BY <1>4, <1>6 DEF Block
  <2>2. ReservedTimestamp(before, r, n) \in Nat
    BY <2>1 DEF ReservedTimestamp
  <2>3. r.previousBlockState \in States
    BY <1>4 DEF Reservation
  <2> QED
    BY <2>2, <2>3 DEF ReservedBlock, Block
<1>8. Shape({b \in B : b.number # n} \union {block}, (R \ {r}) \union SplitAt(r, n), len)
  <2>1. Shape(B, R, len)
    BY DEF Sound
  <2> HIDE DEF B, R, block
  <2> QED
    BY <1>1, <1>7, <2>1, SplitShape
<1>9. split \in BlockchainData /\ split.blocksByNumber = B /\ split.blocksByHash = D.blocksByHash
        /\ split.blockReservations = (R \ {r}) \union SplitAt(r, n)
  <2>1. (R \ {r}) \union SplitAt(r, n) \subseteq Reservation
    BY <1>8 DEF Shape, TypedSets
  <2> QED
    BY <1>3, <2>1 DEF BlockchainData
<1>10. \A b \in B : b.number # n
  BY <1>1 DEF Sound, Shape, Tiled
<1>11. r.previousBlockTotalDifficulty \in Nat
  BY <1>4 DEF Reservation
<1>12. E = WithBlock(split, block, r.previousBlockTotalDifficulty)
  BY <1>2 DEF Fulfilled
<1> HIDE DEF split, block
<1>13. /\ E \in BlockchainData
       /\ E.blocksByNumber = {b \in B : b.number # n} \union {block}
       /\ E.blocksByHash = D.blocksByHash \union {block}
       /\ E.blockReservations = (R \ {r}) \union SplitAt(r, n)
  <2> DEFINE td == r.previousBlockTotalDifficulty
             fulfilled == WithBlock(split, block, td)
  <2>1. td \in Nat
    BY <1>11
  <2> HIDE DEF td
  <2>2. /\ fulfilled \in BlockchainData
        /\ fulfilled.blocksByNumber = {b \in split.blocksByNumber : b.number # block.number} \union {block}
        /\ fulfilled.blocksByHash = split.blocksByHash \union {block}
        /\ fulfilled.blockReservations = split.blockReservations
    BY <1>7, <1>9, <2>1, WithBlockData
  <2>3. E = fulfilled
    BY <1>12 DEF td
  <2> HIDE DEF fulfilled
  <2>4. {b \in split.blocksByNumber : b.number # block.number} = {b \in B : b.number # n}
    BY <1>7, <1>9
  <2> QED
    BY <1>9, <2>2, <2>3, <2>4
<1> QED
  BY <1>8, <1>10, <1>13 DEF Sound

LEMMA AddBlockStep ==
    ASSUME NEW D, NEW E, NEW len, Sound(D, len), NEW interval \in Intervals, NEW state \in States,
           NEW txs \in SUBSET Txs, Adding(D, E, len, interval, state, txs)
    PROVE  Sound(E, len + 1)
<1> DEFINE B == D.blocksByNumber
           R == D.blockReservations
<1>1. PICK parent \in Numbered(D, len - 1), e \in D.totalDifficulty :
        E = [WithBlock(D,
                    [number |-> len, timestamp |-> parent.timestamp + interval,
                     state |-> state, txs |-> txs, difficulty |-> Difficulty],
                    e.td + Difficulty)
                 EXCEPT !.transactionReceipts = @ \union txs]
  BY DEF Adding
<1> DEFINE block == [number |-> len, timestamp |-> parent.timestamp + interval,
                     state |-> state, txs |-> txs, difficulty |-> Difficulty]
<1>2. D \in BlockchainData /\ B \subseteq Block /\ len \in Nat \ {0}
  BY DEF Sound, Shape, TypedSets
<1>3. parent.timestamp \in Nat /\ e.td + Difficulty \in Nat /\ interval \in Nat
  BY <1>2, IntervalsAssumption DEF Numbered, Block, BlockchainData
<1>4. block \in Block /\ block.number = len
  BY <1>2, <1>3, IntervalsAssumption DEF Block
<1> HIDE DEF block
<1>5. \A d \in BlockchainData :
        LET f == [d EXCEPT !.transactionReceipts = @ \union txs]
        IN  /\ f \in BlockchainData /\ f.blocksByNumber = d.blocksByNumber
            /\ f.blocksByHash = d.blocksByHash /\ f.blockReservations = d.blockReservations
  BY DEF BlockchainData
<1>6. E = [WithBlock(D, block, e.td + Difficulty)
               EXCEPT !.transactionReceipts = @ \union txs]
  BY <1>1 DEF block
<1>7. /\ E \in BlockchainData
      /\ E.blocksByNumber = {b \in B : b.number # len} \union {block}
      /\ E.blocksByHash = D.blocksByHash \union {block}
      /\ E.blockReservations = R
  <2> DEFINE d == WithBlock(D, block, e.td + Difficulty)
  <2>0. /\ d \in BlockchainData
        /\ d.blocksByNumber = {b \in B : b.number # block.number} \union {block}
        /\ d.blocksByHash = D.blocksByHash \union {block}
        /\ d.blockReservations = R
    <3> DEFINE td == e.td + Difficulty
    <3>1. td \in Nat
      BY <1>3
    <3> HIDE DEF td
    <3>2. /\ WithBlock(D, block, td) \in BlockchainData
          /\ WithBlock(D, block, td).blocksByNumber =
               {b \in B : b.number # block.number} \union {block}
          /\ WithBlock(D, block, td).blocksByHash = D.blocksByHash \union {block}
          /\ WithBlock(D, block, td).blockReservations = R
      BY <1>2, <1>4, <3>1, WithBlockData
    <3> QED
      BY <3>2 DEF td
  <2> HIDE DEF d
  <2>1. /\ d \in BlockchainData
        /\ d.blocksByNumber = {b \in B : b.number # len} \union {block}
        /\ d.blocksByHash = D.blocksByHash \union {block}
        /\ d.blockReservations = R
    BY <1>4, <2>0
  <2> USE DEF d
  <2>2. E = [d EXCEPT !.transactionReceipts = @ \union txs]
    BY <1>6
  <2> HIDE DEF d
  <2> QED
    BY <1>5, <2>1, <2>2
<1>9. \A b \in B : b.number # len
  BY <1>2 DEF Sound, Shape, Tiled, Block
<1>10. Shape({b \in B : b.number # len} \union {block}, R, len + 1)
  <2>1. Shape(B, R, len)
    BY DEF Sound
  <2> HIDE DEF B, R
  <2> QED
    BY <1>4, <2>1, AppendShape
<1> QED
  BY <1>7, <1>9, <1>10 DEF Sound

LEMMA ReserveBlocksStep ==
    ASSUME NEW D, NEW E, NEW len, Sound(D, len), NEW count \in Counts, NEW interval \in Intervals,
           Reserving(D, E, len, count, interval)
    PROVE  Sound(E, len + count)
<1> DEFINE B == D.blocksByNumber
           R == D.blockReservations
<1>1. PICK latest \in Numbered(D, len - 1), e \in D.totalDifficulty :
        E = [D EXCEPT !.blockReservations = @ \union
            {[first |-> len, last |-> len + count - 1, interval |-> interval,
              previousBlockState |-> latest.state,
              previousBlockTotalDifficulty |-> e.td]}]
  BY DEF Reserving
<1> DEFINE new == [first |-> len, last |-> len + count - 1, interval |-> interval,
                   previousBlockState |-> latest.state,
                   previousBlockTotalDifficulty |-> e.td]
<1>2. D \in BlockchainData /\ B \subseteq Block /\ len \in Nat \ {0}
  BY DEF Sound, Shape, TypedSets
<1>3. /\ latest \in B /\ latest.number = len - 1 /\ latest.state \in States
      /\ e.td \in Nat /\ interval \in Nat
      /\ count \in Nat \ {0}
  BY <1>2, IntervalsAssumption, CountsAssumption DEF Numbered, Block, BlockchainData
<1>4. new \in Reservation /\ new.first = len /\ new.last = len + count - 1
  BY <1>2, <1>3 DEF Reservation
<1>5. E = [D EXCEPT !.blockReservations = @ \union {new}]
  BY <1>1
<1> HIDE DEF new
<1>6. /\ E \in BlockchainData
      /\ E.blocksByNumber = B
      /\ E.blocksByHash = D.blocksByHash
      /\ E.blockReservations = R \union {new}
  BY <1>2, <1>4, <1>5 DEF BlockchainData
<1>8. Shape(B, R \union {new}, len + count)
  <2>1. Shape(B, R, len)
    BY DEF Sound
  <2> HIDE DEF B, R
  <2> QED
    BY <1>3, <1>4, <2>1, ReserveShape
<1> QED
  BY <1>6, <1>8 DEF Sound

LEMMA DeleteLaterBlocksStep ==
    ASSUME NEW D, NEW E, NEW len, Sound(D, len), NEW block \in D.blocksByHash, Deleting(D, E, block)
    PROVE  Sound(E, block.number + 1)
<1> DEFINE B == D.blocksByNumber
           R == D.blockReservations
           gone == {b \in B : b.number > block.number /\ ~ IsReservedBlock(D, b.number)}
<1>1. E = [WithoutBlocks(D, gone)
               EXCEPT !.blockReservations = {r \in @ : r.last <= block.number}]
  BY DEF Deleting
<1>2. D \in BlockchainData /\ block \in B
  BY DEF Sound
<1>3. /\ E \in BlockchainData
      /\ E.blocksByNumber = B \ gone
      /\ E.blocksByHash = D.blocksByHash \ gone
      /\ E.blockReservations = {r \in R : r.last <= block.number}
  <2> HIDE DEF gone
  <2> QED
    BY <1>1, <1>2 DEF WithoutBlocks, BlockchainData
<1>5. gone = {b \in B : /\ b.number > block.number
                        /\ ~ \E r \in R : Reserves(r, b.number)}
  BY DEF IsReservedBlock
<1>6. Shape(B \ gone, {r \in R : r.last <= block.number}, block.number + 1)
  <2>1. Shape(B, R, len)
    BY DEF Sound
  <2> HIDE DEF B, R, gone
  <2> QED
    BY <1>2, <1>5, <2>1, DeleteShape
<1> QED
  BY <1>3, <1>6 DEF Sound

LEMMA Relations ==
    /\ \A n : GetBlock(n) => Getting(data, data', n) /\ length' = length
    /\ \A interval, state, txs : AddBlock(interval, state, txs) =>
        Adding(data, data', length, interval, state, txs) /\ length' = length + 1
    /\ \A count, interval : ReserveBlocks(count, interval) =>
        Reserving(data, data', length, count, interval) /\ length' = length + count
    /\ \A block : DeleteLaterBlocks(block) =>
        Deleting(data, data', block) /\ length' = block.number + 1
<1>1. \A n : GetBlock(n) => Getting(data, data', n) /\ length' = length
  BY DEF GetBlock, Getting
<1>2. \A interval, state, txs : AddBlock(interval, state, txs) =>
        Adding(data, data', length, interval, state, txs) /\ length' = length + 1
  BY DEF AddBlock, Adding
<1>3. \A count, interval : ReserveBlocks(count, interval) =>
        Reserving(data, data', length, count, interval) /\ length' = length + count
  BY DEF ReserveBlocks, Reserving
<1>4. \A block : DeleteLaterBlocks(block) =>
        Deleting(data, data', block) /\ length' = block.number + 1
  BY DEF DeleteLaterBlocks, Deleting
<1> QED
  BY <1>1, <1>2, <1>3, <1>4

LEMMA InvStep == Inv /\ [BlockchainNext]_blockchainVars => Inv'
<1> SUFFICES ASSUME Sound(data, length), [BlockchainNext]_blockchainVars
             PROVE  Sound(data', length')
  BY DEF Inv
<1>1. ASSUME NEW n \in 0 .. MaxLength - 1, GetBlock(n)
      PROVE  Sound(data', length')
  BY <1>1, Relations, GetBlockStep, MaxLengthAssumption
<1>2. ASSUME NEW interval \in Intervals, NEW state \in States, NEW txs \in SUBSET Txs,
             AddBlock(interval, state, txs)
      PROVE  Sound(data', length')
  BY <1>2, Relations, AddBlockStep
<1>3. ASSUME NEW count \in Counts, NEW interval \in Intervals, ReserveBlocks(count, interval)
      PROVE  Sound(data', length')
  BY <1>3, Relations, ReserveBlocksStep
<1>4. ASSUME NEW block \in data.blocksByHash, DeleteLaterBlocks(block)
      PROVE  Sound(data', length')
  BY <1>4, Relations, DeleteLaterBlocksStep
<1>5. CASE UNCHANGED blockchainVars
  BY <1>5 DEF blockchainVars
<1> QED
  BY <1>1, <1>2, <1>3, <1>4, <1>5 DEF BlockchainNext

-----------------------------------------------------------------------------
(* The copies of a block agree.  T are the total difficulties, X the blocks by *)
(* transaction, C the transactions with a receipt.                            *)

Valued(B, T) ==
    /\ T \subseteq [block : Block, td : Nat]
    /\ \A e \in T : e.block \in B
    /\ \A b \in B : \E e \in T : e.block = b
    /\ \A e, f \in T : e.block = f.block => e = f

Indexed(B, X, C) ==
    /\ X \subseteq [tx : Txs, block : Block]
    /\ \A x \in X : x.block \in B /\ x.tx \in x.block.txs
    /\ \A b \in B : \A tx \in b.txs : [tx |-> tx, block |-> b] \in X
    /\ \A b, c \in B : b.txs \cap c.txs # {} => b = c
    /\ C = TxsOf(B)

\* What a block, and a reservation, adds to what comes before it.
Adds(T, R) ==
    /\ \A e, f \in T : f.block.number = e.block.number - 1 => e.td = f.td + e.block.difficulty
    /\ \A e \in T, r \in R : r.last = e.block.number - 1 =>
        e.td = r.previousBlockTotalDifficulty + e.block.difficulty
    /\ \A e \in T, r \in R : e.block.number = r.first - 1 => e.td = r.previousBlockTotalDifficulty

Mapped(D) ==
    /\ Valued(D.blocksByNumber, D.totalDifficulty)
    /\ Indexed(D.blocksByNumber, D.blocksByTransactions, D.transactionReceipts)
    /\ Adds(D.totalDifficulty, D.blockReservations)

MapsInv == Mapped(data)

LEMMA ValuedWith ==
    ASSUME NEW B, NEW T, Valued(B, T), NEW block \in Block, NEW td \in Nat, block \notin B
    PROVE  Valued(B \union {block}, T \union {[block |-> block, td |-> td]})
<1> DEFINE new == [block |-> block, td |-> td]
<1>1. new \in [block : Block, td : Nat] /\ new.block = block
  OBVIOUS
<1> HIDE DEF new
<1>2. Valued(B \union {block}, T \union {new})
  BY <1>1 DEF Valued
<1> QED
  BY <1>2 DEF new

LEMMA ValuedWithout ==
    ASSUME NEW B, NEW T, Valued(B, T), NEW gone
    PROVE  Valued(B \ gone, {e \in T : e.block \notin gone})
BY DEF Valued

LEMMA IndexedWith ==
    ASSUME NEW B, NEW X, NEW C, Indexed(B, X, C), NEW block \in Block, block \notin B,
           \A x \in X : x.tx \notin block.txs
    PROVE  Indexed(B \union {block},
                   X \union {[tx |-> tx, block |-> block] : tx \in block.txs}, C \union block.txs)
<1>1. block.txs \subseteq Txs
  BY DEF Block
<1>2. \A b \in B : b.txs \cap block.txs = {}
  <2> SUFFICES ASSUME NEW b \in B, NEW tx \in b.txs, tx \in block.txs PROVE FALSE
    OBVIOUS
  <2>1. [tx |-> tx, block |-> b] \in X
    BY DEF Indexed
  <2> QED
    BY <2>1
<1>3. TxsOf(B \union {block}) = TxsOf(B) \union block.txs
  BY DEF TxsOf
<1> QED
  BY <1>1, <1>2, <1>3 DEF Indexed

LEMMA IndexedWithout ==
    ASSUME NEW B, NEW X, NEW C, Indexed(B, X, C), NEW gone \in SUBSET B
    PROVE  Indexed(B \ gone, {x \in X : x.tx \notin TxsOf(gone)}, C \ TxsOf(gone))
<1>1. \A b \in B \ gone : \A tx \in b.txs : tx \notin TxsOf(gone)
  BY DEF Indexed, TxsOf
<1>2. TxsOf(B \ gone) = TxsOf(B) \ TxsOf(gone)
  BY <1>1 DEF TxsOf
<1>3. \A x \in X : x.tx \notin TxsOf(gone) => x.block \notin gone
  BY DEF Indexed, TxsOf
<1> QED
  BY <1>1, <1>2, <1>3 DEF Indexed

\* All that addBlock does to the maps.
LEMMA WithBlockMaps ==
    ASSUME NEW d \in BlockchainData, NEW block \in Block, NEW td \in Nat
    PROVE  /\ WithBlock(d, block, td).totalDifficulty =
                {e \in d.totalDifficulty : e.block # block} \union {[block |-> block, td |-> td]}
           /\ WithBlock(d, block, td).blocksByTransactions =
                {x \in d.blocksByTransactions : x.tx \notin block.txs} \union
                {[tx |-> tx, block |-> block] : tx \in block.txs}
           /\ WithBlock(d, block, td).transactionReceipts = d.transactionReceipts
BY DEF WithBlock, BlockchainData

LEMMA MapsInit == BlockchainInit => MapsInv
<1> SUFFICES ASSUME NEW state \in States,
                    data = WithBlock(NoData, GenesisBlock(state), Difficulty)
             PROVE  MapsInv
  BY DEF BlockchainInit
<1> DEFINE block == GenesisBlock(state)
<1>1. block \in Block /\ block.number = 0 /\ block.txs = {}
  BY IntervalsAssumption DEF GenesisBlock, Block
<1>2. NoData \in BlockchainData
  BY DEF NoData, BlockchainData
<1> HIDE DEF block
<1>3. /\ data.blocksByNumber = {block} /\ data.blockReservations = {}
      /\ data.totalDifficulty = {[block |-> block, td |-> Difficulty]}
      /\ data.blocksByTransactions = {} /\ data.transactionReceipts = {}
  <2>1. data = WithBlock(NoData, block, Difficulty)
    BY DEF block
  <2> QED
    BY <1>1, <1>2, <2>1, WithBlockData, WithBlockMaps, IntervalsAssumption DEF NoData
<1>4. Valued({block}, {[block |-> block, td |-> Difficulty]})
  BY <1>1, IntervalsAssumption DEF Valued
<1>5. Indexed({block}, {}, {})
  BY <1>1 DEF Indexed, TxsOf
<1>6. Adds({[block |-> block, td |-> Difficulty]}, {})
  BY <1>1 DEF Adds
<1> QED
  BY <1>3, <1>4, <1>5, <1>6 DEF MapsInv, Mapped

\* All that each action does to the maps.
LEMMA GetBlockMaps ==
    ASSUME NEW D, NEW E, NEW len, Sound(D, len), NEW n \in Nat, Getting(D, E, n)
    PROVE  \E r \in D.blockReservations, before \in D.blocksByNumber, block \in Block :
            /\ Reserves(r, n) /\ before.number = r.first - 1
            /\ block = ReservedBlock(before, r, n)
            /\ E.blocksByNumber = D.blocksByNumber \union {block}
            /\ E.totalDifficulty = {e \in D.totalDifficulty : e.block # block} \union
                                       {[block |-> block, td |-> r.previousBlockTotalDifficulty]}
            /\ E.blocksByTransactions = D.blocksByTransactions
            /\ E.transactionReceipts = D.transactionReceipts
            /\ E.blockReservations = (D.blockReservations \ {r}) \union SplitAt(r, n)
<1> DEFINE B == D.blocksByNumber
           R == D.blockReservations
<1>0. PICK r \in R : /\ Reserves(r, n)
                     /\ \E before \in Numbered(D, r.first - 1) :
                          E = Fulfilled(D, before, r, n)
  BY DEF Getting
<1>1. PICK before \in Numbered(D, r.first - 1) :
        Reserves(r, n) /\ E = Fulfilled(D, before, r, n)
  BY <1>0
<1> DEFINE block == ReservedBlock(before, r, n)
           split == [D EXCEPT !.blockReservations = (@ \ {r}) \union SplitAt(r, n)]
           td == r.previousBlockTotalDifficulty
<1>2. D \in BlockchainData /\ R \subseteq Reservation /\ B \subseteq Block
  BY DEF Sound, Shape, TypedSets
<1>3. before \in Block /\ before \in B /\ before.number = r.first - 1 /\ r \in Reservation
  BY <1>2 DEF Numbered
<1>4. block \in Block
  <2>1. n - r.first + 1 \in Nat /\ r.interval \in Nat /\ before.timestamp \in Nat /\ r.previousBlockState \in States
    BY <1>1, <1>3 DEF Reserves, Reservation, Block
  <2> DEFINE k == n - r.first + 1
  <2> HIDE DEF k
  <2>2. \A i, j \in Nat : i * j \in Nat
    OBVIOUS
  <2>3. r.interval * k \in Nat
    BY <2>1, <2>2 DEF k
  <2> DEFINE t == r.interval * k
  <2> HIDE DEF t
  <2>4. before.timestamp + t \in Nat
    BY <2>1, <2>3 DEF t
  <2> QED
    BY <2>1, <2>4 DEF ReservedBlock, ReservedTimestamp, Block, k, t
<1>5. block.number = n /\ block.txs = {}
  BY DEF ReservedBlock
<1>6. SplitAt(r, n) \subseteq Reservation
  BY <1>1, <1>3 DEF SplitAt, Reserves, Reservation
<1>7. /\ split \in BlockchainData /\ split.blocksByNumber = B
      /\ split.totalDifficulty = D.totalDifficulty
      /\ split.blocksByTransactions = D.blocksByTransactions
      /\ split.transactionReceipts = D.transactionReceipts
      /\ split.blockReservations = (R \ {r}) \union SplitAt(r, n)
  BY <1>2, <1>6 DEF BlockchainData
<1>8. td \in Nat
  BY <1>3 DEF Reservation
<1>9. E = WithBlock(split, block, td)
  BY <1>1 DEF Fulfilled
<1>10. \A b \in B : b.number # n
  BY <1>1 DEF Sound, Shape, Tiled
<1> HIDE DEF split, block, td
<1>11. /\ E.blocksByNumber = {b \in split.blocksByNumber : b.number # block.number} \union {block}
       /\ E.blockReservations = split.blockReservations
  BY <1>4, <1>7, <1>8, <1>9, WithBlockData
<1>12. /\ E.totalDifficulty = {e \in split.totalDifficulty : e.block # block} \union {[block |-> block, td |-> td]}
       /\ E.blocksByTransactions =
            {x \in split.blocksByTransactions : x.tx \notin block.txs} \union
            {[tx |-> tx, block |-> block] : tx \in block.txs}
       /\ E.transactionReceipts = split.transactionReceipts
  BY <1>4, <1>7, <1>8, <1>9, WithBlockMaps
<1>13. E.blocksByNumber = B \union {block}
  BY <1>5, <1>7, <1>10, <1>11
<1>14. E.blocksByTransactions = D.blocksByTransactions
  BY <1>5, <1>7, <1>12
<1>15. block = ReservedBlock(before, r, n) /\ td = r.previousBlockTotalDifficulty
  BY DEF block, td
<1> QED
  BY <1>1, <1>3, <1>4, <1>7, <1>11, <1>12, <1>13, <1>14, <1>15

LEMMA AddBlockMaps ==
    ASSUME NEW D, NEW E, NEW len, Sound(D, len), NEW interval \in Intervals, NEW state \in States,
           NEW txs \in SUBSET Txs, Adding(D, E, len, interval, state, txs)
    PROVE  \E parent \in D.blocksByNumber, e \in D.totalDifficulty, block \in Block :
            /\ parent.number = len - 1 /\ e.block = parent
            /\ block = [number |-> len, timestamp |-> parent.timestamp + interval,
                        state |-> state, txs |-> txs, difficulty |-> Difficulty]
            /\ \A x \in D.blocksByTransactions : x.tx \notin txs
            /\ E.blocksByNumber = D.blocksByNumber \union {block}
            /\ E.totalDifficulty = {f \in D.totalDifficulty : f.block # block} \union
                                       {[block |-> block, td |-> e.td + Difficulty]}
            /\ E.blocksByTransactions = D.blocksByTransactions \union
                                            {[tx |-> tx, block |-> block] : tx \in txs}
            /\ E.transactionReceipts = D.transactionReceipts \union txs
            /\ E.blockReservations = D.blockReservations
<1> DEFINE B == D.blocksByNumber
<1>1. PICK parent \in Numbered(D, len - 1), e \in D.totalDifficulty :
        /\ e.block = parent
        /\ E = [WithBlock(D,
                    [number |-> len, timestamp |-> parent.timestamp + interval,
                     state |-> state, txs |-> txs, difficulty |-> Difficulty],
                    e.td + Difficulty)
                 EXCEPT !.transactionReceipts = @ \union txs]
  BY DEF Adding
<1> DEFINE block == [number |-> len, timestamp |-> parent.timestamp + interval,
                     state |-> state, txs |-> txs, difficulty |-> Difficulty]
           td == e.td + Difficulty
           d == WithBlock(D, block, td)
<1>2. D \in BlockchainData /\ B \subseteq Block /\ len \in Nat \ {0}
  BY DEF Sound, Shape, TypedSets
<1>3. parent.timestamp \in Nat /\ e.td \in Nat /\ interval \in Nat
  BY <1>2, IntervalsAssumption DEF Numbered, Block, BlockchainData
<1>4. block \in Block /\ block.number = len /\ block.txs = txs
  BY <1>2, <1>3, IntervalsAssumption DEF Block
<1>5. td \in Nat
  BY <1>3, IntervalsAssumption
<1>6. \A b \in B : b.number # len
  BY <1>2 DEF Sound, Shape, Tiled, Block
<1>7. E = [d EXCEPT !.transactionReceipts = @ \union txs]
  BY <1>1
<1>8. \A x \in D.blocksByTransactions : x.tx \notin txs
  BY DEF Adding
<1> HIDE DEF block, td
<1>9. d \in BlockchainData /\ d.blocksByNumber = {b \in B : b.number # block.number} \union {block}
      /\ d.blockReservations = D.blockReservations
  BY <1>2, <1>4, <1>5, WithBlockData
<1>10. /\ d.totalDifficulty = {f \in D.totalDifficulty : f.block # block} \union {[block |-> block, td |-> td]}
       /\ d.blocksByTransactions =
            {x \in D.blocksByTransactions : x.tx \notin block.txs} \union
            {[tx |-> tx, block |-> block] : tx \in block.txs}
       /\ d.transactionReceipts = D.transactionReceipts
  BY <1>2, <1>4, <1>5, WithBlockMaps
<1> HIDE DEF d
<1>11. /\ E.blocksByNumber = d.blocksByNumber /\ E.blockReservations = d.blockReservations
       /\ E.totalDifficulty = d.totalDifficulty /\ E.blocksByTransactions = d.blocksByTransactions
       /\ E.transactionReceipts = d.transactionReceipts \union txs
  BY <1>7, <1>9 DEF BlockchainData
<1>12. E.blocksByNumber = B \union {block}
  BY <1>4, <1>6, <1>9, <1>11
<1>13. E.blocksByTransactions = D.blocksByTransactions \union {[tx |-> tx, block |-> block] : tx \in txs}
  BY <1>4, <1>8, <1>10, <1>11
<1>14. /\ block = [number |-> len, timestamp |-> parent.timestamp + interval,
                   state |-> state, txs |-> txs, difficulty |-> Difficulty]
       /\ td = e.td + Difficulty
  BY DEF block, td
<1>15. parent \in B /\ parent.number = len - 1
  BY DEF Numbered
<1> QED
  BY <1>1, <1>4, <1>8, <1>9, <1>10, <1>11, <1>12, <1>13, <1>14, <1>15

LEMMA MapsStepGet ==
    ASSUME NEW D, NEW E, NEW len, Sound(D, len), Mapped(D), NEW n \in Nat, Getting(D, E, n)
    PROVE  Mapped(E)
<1> DEFINE B == D.blocksByNumber
           T == D.totalDifficulty
           R == D.blockReservations
<1>1. PICK r \in R, before \in B, block \in Block :
        /\ Reserves(r, n) /\ before.number = r.first - 1
        /\ block = ReservedBlock(before, r, n)
        /\ E.blocksByNumber = B \union {block}
        /\ E.totalDifficulty = {e \in T : e.block # block} \union {[block |-> block, td |-> r.previousBlockTotalDifficulty]}
        /\ E.blocksByTransactions = D.blocksByTransactions
        /\ E.transactionReceipts = D.transactionReceipts
        /\ E.blockReservations = (R \ {r}) \union SplitAt(r, n)
  BY GetBlockMaps
<1> DEFINE new == [block |-> block, td |-> r.previousBlockTotalDifficulty]
<1>2. block.number = n /\ block.txs = {} /\ block.difficulty = 0
  BY <1>1 DEF ReservedBlock
<1>3. R \subseteq Reservation /\ B \subseteq Block /\ T \subseteq [block : Block, td : Nat]
  BY DEF Sound, Shape, TypedSets, Mapped, Valued
<1>4. block \notin B
  BY <1>1, <1>2 DEF Sound, Shape, Tiled
<1>5. E.totalDifficulty = T \union {new}
  BY <1>1, <1>4 DEF Mapped, Valued
<1>6. Valued(E.blocksByNumber, E.totalDifficulty)
  <2>1. r.previousBlockTotalDifficulty \in Nat
    BY <1>3 DEF Reservation
  <2>2. Valued(B, T)
    BY DEF Mapped
  <2> HIDE DEF B, T
  <2> QED
    BY <1>1, <1>4, <1>5, <2>1, <2>2, ValuedWith
<1>7. Indexed(E.blocksByNumber, E.blocksByTransactions, E.transactionReceipts)
  <2> DEFINE X == D.blocksByTransactions
             C == D.transactionReceipts
  <2>1. Indexed(B, X, C)
    BY DEF Mapped
  <2> HIDE DEF B, X, C
  <2>2. Indexed(B \union {block}, X \union {[tx |-> tx, block |-> block] : tx \in block.txs}, C \union block.txs)
    BY <1>2, <1>4, <2>1, IndexedWith
  <2>3. X \union {[tx |-> tx, block |-> block] : tx \in block.txs} = X /\ C \union block.txs = C
    BY <1>2
  <2>4. Indexed(B \union {block}, X, C)
    BY <2>2, <2>3
  <2> QED
    BY <1>1, <2>4 DEF X, C
<1>8. Adds(E.totalDifficulty, E.blockReservations)
  <2>1. /\ r \in Reservation /\ r.first <= n /\ n <= r.last /\ n \in Nat
        /\ r.first \in Nat /\ r.last \in Nat /\ r.previousBlockTotalDifficulty \in Nat
    BY <1>1, <1>3 DEF Reserves, Reservation
  <2>2. \A s \in SplitAt(r, n) :
          /\ s.previousBlockTotalDifficulty = r.previousBlockTotalDifficulty
          /\ \/ s.first = r.first /\ s.last = n - 1 /\ n # r.first
             \/ s.first = n + 1 /\ s.last = r.last /\ n # r.last
    BY <2>1 DEF SplitAt, Reservation
  <2>3. \A e \in T : e.block \in B /\ e.block \in Block /\ e.block.number \in Nat /\ ~ Reserves(r, e.block.number)
    BY <1>1, <1>3 DEF Mapped, Valued, Sound, Shape, Tiled, Block
  <2>4. \A s \in R : s # r => s.first # n + 1
    <3> SUFFICES ASSUME NEW s \in R, s # r, s.first = n + 1 PROVE FALSE
      OBVIOUS
    <3>1. PICK b \in B : b.number = s.first - 1
      BY DEF Sound, Shape, Follow
    <3> QED
      BY <1>1, <2>1, <3>1 DEF Sound, Shape, Tiled
  <2>5. \A s \in R : s # r => s.last # n - 1 \/ n = r.first
    <3> SUFFICES ASSUME NEW s \in R, s # r, s.last = n - 1, n # r.first PROVE FALSE
      OBVIOUS
    <3>1. s.first <= s.last /\ s.first \in Nat /\ s.last \in Nat
      BY <1>3 DEF Sound, Shape, Tiled, Reservation
    <3>2. s.first <= r.last /\ r.first <= s.last
      BY <2>1, <3>1
    <3> QED
      BY <3>2 DEF Sound, Shape, Tiled
  <2>6. \A s \in R : s # r => s.last # n - 1
    <3> SUFFICES ASSUME NEW s \in R, s.last = n - 1, s # r, n = r.first PROVE FALSE
      BY <2>5
    <3>1. s.first <= s.last /\ s.first \in Nat
      BY <1>3 DEF Sound, Shape, Tiled, Reservation
    <3>2. Reserves(s, before.number)
      BY <1>1, <2>1, <3>1 DEF Reserves
    <3> QED
      BY <3>2 DEF Sound, Shape, Tiled
  <2>7. Adds(T, R)
    BY DEF Mapped
  <2>8. new.block = block /\ new.td = r.previousBlockTotalDifficulty
    OBVIOUS
  <2> HIDE DEF B, T, R, new
  <2>9. ASSUME NEW e \in T \union {new}, NEW f \in T \union {new}, f.block.number = e.block.number - 1
        PROVE  e.td = f.td + e.block.difficulty
    <3>1. CASE e = new /\ f = new
      BY <1>2, <2>1, <2>8, <2>9, <3>1
    <3>2. CASE e = new /\ f \in T
      <4>1. f.block.number = n - 1
        BY <1>2, <2>8, <2>9, <3>2
      <4>2. r.first = n
        BY <2>1, <2>3, <3>2, <4>1 DEF Reserves
      <4>3. f.td = r.previousBlockTotalDifficulty
        BY <1>1, <2>7, <3>2, <4>1, <4>2 DEF Adds
      <4> QED
        BY <1>2, <2>1, <2>8, <3>2, <4>3
    <3>3. CASE e \in T /\ f = new
      <4>1. e.block.number = n + 1
        BY <1>2, <2>1, <2>3, <2>8, <2>9, <3>3
      <4>2. r.last = n
        BY <2>1, <2>3, <3>3, <4>1 DEF Reserves
      <4>3. r.last = e.block.number - 1
        BY <2>1, <4>1, <4>2
      <4> QED
        BY <1>1, <2>7, <2>8, <3>3, <4>3 DEF Adds
    <3>4. CASE e \in T /\ f \in T
      BY <2>7, <2>9, <3>4 DEF Adds
    <3> QED
      BY <3>1, <3>2, <3>3, <3>4
  <2>10. ASSUME NEW e \in T \union {new}, NEW s \in (R \ {r}) \union SplitAt(r, n), s.last = e.block.number - 1
         PROVE  e.td = s.previousBlockTotalDifficulty + e.block.difficulty
    <3>1. CASE e = new /\ s \in R \ {r}
      BY <1>2, <2>6, <2>8, <2>10, <3>1
    <3>2. CASE e = new /\ s \in SplitAt(r, n)
      BY <1>2, <2>1, <2>2, <2>8, <3>2
    <3>3. CASE e \in T /\ s \in R \ {r}
      BY <2>7, <2>10, <3>3 DEF Adds
    <3>4. CASE e \in T /\ s \in SplitAt(r, n)
      <4>1. s.last = r.last
        BY <2>1, <2>2, <2>3, <2>10, <3>4 DEF Reserves
      <4> QED
        BY <1>1, <2>2, <2>7, <2>10, <3>4, <4>1 DEF Adds
    <3> QED
      BY <3>1, <3>2, <3>3, <3>4
  <2>11. ASSUME NEW e \in T \union {new}, NEW s \in (R \ {r}) \union SplitAt(r, n), e.block.number = s.first - 1
         PROVE  e.td = s.previousBlockTotalDifficulty
    <3>1. CASE e = new /\ s \in R \ {r}
      <4>1. s.first \in Nat
        BY <1>3, <3>1 DEF R, Reservation
      <4> QED
        BY <1>2, <2>1, <2>4, <2>8, <2>11, <3>1, <4>1
    <3>2. CASE e = new /\ s \in SplitAt(r, n)
      BY <2>2, <2>8, <3>2
    <3>3. CASE e \in T /\ s \in R \ {r}
      BY <2>7, <2>11, <3>3 DEF Adds
    <3>4. CASE e \in T /\ s \in SplitAt(r, n)
      <4>1. s.first = r.first
        BY <2>1, <2>2, <2>3, <2>11, <3>4 DEF Reserves
      <4> QED
        BY <1>1, <2>2, <2>7, <2>11, <3>4, <4>1 DEF Adds
    <3> QED
      BY <3>1, <3>2, <3>3, <3>4
  <2>12. Adds(T \union {new}, (R \ {r}) \union SplitAt(r, n))
    BY <2>9, <2>10, <2>11 DEF Adds
  <2> QED
    BY <1>1, <1>5, <2>12
<1> QED
  BY <1>6, <1>7, <1>8 DEF Mapped

LEMMA MapsStepAdd ==
    ASSUME NEW D, NEW E, NEW len, Sound(D, len), Mapped(D), NEW interval \in Intervals, NEW state \in States,
           NEW txs \in SUBSET Txs, Adding(D, E, len, interval, state, txs)
    PROVE  Mapped(E)
<1> DEFINE B == D.blocksByNumber
           T == D.totalDifficulty
           X == D.blocksByTransactions
           C == D.transactionReceipts
           R == D.blockReservations
<1>1. PICK parent \in B, e \in T, block \in Block :
        /\ parent.number = len - 1 /\ e.block = parent
        /\ block = [number |-> len, timestamp |-> parent.timestamp + interval,
                    state |-> state, txs |-> txs, difficulty |-> Difficulty]
        /\ \A x \in X : x.tx \notin txs
        /\ E.blocksByNumber = B \union {block}
        /\ E.totalDifficulty = {f \in T : f.block # block} \union {[block |-> block, td |-> e.td + Difficulty]}
        /\ E.blocksByTransactions = X \union {[tx |-> tx, block |-> block] : tx \in txs}
        /\ E.transactionReceipts = C \union txs
        /\ E.blockReservations = R
  BY AddBlockMaps
<1> DEFINE new == [block |-> block, td |-> e.td + Difficulty]
<1>2. block.number = len /\ block.txs = txs /\ block.difficulty = Difficulty
  BY <1>1
<1>3. /\ R \subseteq Reservation /\ B \subseteq Block /\ T \subseteq [block : Block, td : Nat]
      /\ len \in Nat \ {0}
  BY DEF Sound, Shape, TypedSets, Mapped, Valued
<1>4. block \notin B
  BY <1>2, <1>3 DEF Sound, Shape, Tiled, Block
<1>5. E.totalDifficulty = T \union {new}
  BY <1>1, <1>4 DEF Mapped, Valued
<1>6. Valued(E.blocksByNumber, E.totalDifficulty)
  <2>1. e.td + Difficulty \in Nat
    BY <1>3, IntervalsAssumption
  <2>2. Valued(B, T)
    BY DEF Mapped
  <2> HIDE DEF B, T
  <2> QED
    BY <1>1, <1>4, <1>5, <2>1, <2>2, ValuedWith
<1>7. Indexed(E.blocksByNumber, E.blocksByTransactions, E.transactionReceipts)
  <2>1. Indexed(B, X, C)
    BY DEF Mapped
  <2> HIDE DEF B, X, C
  <2>2. \A x \in X : x.tx \notin block.txs
    BY <1>1, <1>2
  <2>3. Indexed(B \union {block}, X \union {[tx |-> tx, block |-> block] : tx \in block.txs}, C \union block.txs)
    BY <1>4, <2>1, <2>2, IndexedWith
  <2> QED
    BY <1>1, <1>2, <2>3
<1>8. Adds(E.totalDifficulty, E.blockReservations)
  <2>1. \A f \in T : f.block \in B /\ f.block.number \in Nat /\ f.block.number < len
    BY <1>3 DEF Mapped, Valued, Sound, Shape, Tiled, Block
  <2>2. \A s \in R : s.last < len - 1 /\ s.first <= s.last /\ s.last \in Nat /\ s.first \in Nat
    <3> TAKE s \in R
    <3>1. s.last < len /\ s.first <= s.last /\ s.last \in Nat /\ s.first \in Nat
      BY <1>3 DEF Sound, Shape, Tiled, Reservation
    <3>2. ~ Reserves(s, parent.number)
      BY DEF Sound, Shape, Tiled
    <3> QED
      BY <1>1, <1>3, <3>1, <3>2 DEF Reserves
  <2>3. \A f \in T : f.block.number = len - 1 => f = e
    <3> TAKE f \in T
    <3> HAVE f.block.number = len - 1
    <3>1. f.block = parent
      BY <1>1, <2>1 DEF Sound, Shape, Tiled
    <3> QED
      BY <1>1, <3>1 DEF Mapped, Valued
  <2>4. Adds(T, R)
    BY DEF Mapped
  <2>5. new.block = block /\ new.td = e.td + Difficulty
    OBVIOUS
  <2> HIDE DEF B, T, R, new
  <2>6. ASSUME NEW f \in T \union {new}, NEW g \in T \union {new}, g.block.number = f.block.number - 1
        PROVE  f.td = g.td + f.block.difficulty
    <3>1. CASE g = new
      BY <1>2, <1>3, <2>1, <2>5, <2>6, <3>1
    <3>2. CASE f = new /\ g \in T
      BY <1>2, <2>3, <2>5, <2>6, <3>2
    <3>3. CASE f \in T /\ g \in T
      BY <2>4, <2>6, <3>3 DEF Adds
    <3> QED
      BY <3>1, <3>2, <3>3
  <2>7. ASSUME NEW f \in T \union {new}, NEW s \in R, s.last = f.block.number - 1
        PROVE  f.td = s.previousBlockTotalDifficulty + f.block.difficulty
    <3>1. CASE f = new
      BY <1>2, <1>3, <2>2, <2>5, <2>7, <3>1
    <3> QED
      BY <2>4, <2>7, <3>1 DEF Adds
  <2>8. ASSUME NEW f \in T \union {new}, NEW s \in R, f.block.number = s.first - 1
        PROVE  f.td = s.previousBlockTotalDifficulty
    <3>1. CASE f = new
      BY <1>2, <1>3, <2>2, <2>5, <2>8, <3>1
    <3> QED
      BY <2>4, <2>8, <3>1 DEF Adds
  <2>9. Adds(T \union {new}, R)
    BY <2>6, <2>7, <2>8 DEF Adds
  <2> QED
    BY <1>1, <1>5, <2>9
<1> QED
  BY <1>6, <1>7, <1>8 DEF Mapped

LEMMA MapsStepReserve ==
    ASSUME NEW D, NEW E, NEW len, Sound(D, len), Mapped(D), NEW count \in Counts, NEW interval \in Intervals,
           Reserving(D, E, len, count, interval)
    PROVE  Mapped(E)
<1> DEFINE B == D.blocksByNumber
           T == D.totalDifficulty
           R == D.blockReservations
<1>1. PICK latest \in Numbered(D, len - 1), e \in T :
        /\ e.block = latest
        /\ E = [D EXCEPT !.blockReservations = @ \union
            {[first |-> len, last |-> len + count - 1, interval |-> interval,
              previousBlockState |-> latest.state,
              previousBlockTotalDifficulty |-> e.td]}]
  BY DEF Reserving
<1> DEFINE new == [first |-> len, last |-> len + count - 1, interval |-> interval,
                   previousBlockState |-> latest.state,
                   previousBlockTotalDifficulty |-> e.td]
<1>2. /\ D \in BlockchainData /\ B \subseteq Block /\ T \subseteq [block : Block, td : Nat]
      /\ len \in Nat \ {0} /\ count \in Nat \ {0}
  BY CountsAssumption DEF Sound, Shape, TypedSets, Mapped, Valued
<1>3. E = [D EXCEPT !.blockReservations = @ \union {new}]
  BY <1>1
<1>4. new.first = len /\ new.last = len + count - 1 /\ new.previousBlockTotalDifficulty = e.td
  OBVIOUS
<1> HIDE DEF new
<1>5. /\ E.blocksByNumber = B /\ E.totalDifficulty = T /\ E.blockReservations = R \union {new}
      /\ E.blocksByTransactions = D.blocksByTransactions
      /\ E.transactionReceipts = D.transactionReceipts
  BY <1>2, <1>3 DEF BlockchainData
<1>6. Adds(T, R \union {new})
  <2>1. \A f \in T : f.block \in B /\ f.block.number \in Nat /\ f.block.number < len
    BY <1>2 DEF Mapped, Valued, Sound, Shape, Tiled, Block
  <2>2. \A f \in T : f.block.number = len - 1 => f = e
    <3> TAKE f \in T
    <3> HAVE f.block.number = len - 1
    <3>1. f.block = latest
      BY <1>1, <2>1 DEF Sound, Shape, Tiled, Numbered
    <3> QED
      BY <1>1, <3>1 DEF Mapped, Valued
  <2>3. Adds(T, R)
    BY DEF Mapped
  <2> HIDE DEF B, T, R
  <2>4. \A f \in T : new.last # f.block.number - 1
    BY <1>2, <1>4, <2>1
  <2>5. \A f \in T : f.block.number = new.first - 1 => f.td = new.previousBlockTotalDifficulty
    BY <1>4, <2>2
  <2> QED
    BY <2>3, <2>4, <2>5 DEF Adds
<1> QED
  BY <1>5, <1>6 DEF Mapped

LEMMA MapsStepDelete ==
    ASSUME NEW D, NEW E, NEW len, Sound(D, len), Mapped(D), NEW block \in D.blocksByHash, Deleting(D, E, block)
    PROVE  Mapped(E)
<1> DEFINE B == D.blocksByNumber
           T == D.totalDifficulty
           X == D.blocksByTransactions
           C == D.transactionReceipts
           R == D.blockReservations
           gone == {b \in B : b.number > block.number /\ ~ IsReservedBlock(D, b.number)}
<1>1. E = [WithoutBlocks(D, gone)
               EXCEPT !.blockReservations = {r \in @ : r.last <= block.number}]
  BY DEF Deleting
<1>2. D \in BlockchainData
  BY DEF Sound
<1>3. gone \subseteq B
  OBVIOUS
<1> HIDE DEF gone
<1>4. /\ E.blocksByNumber = B \ gone
      /\ E.totalDifficulty = {e \in T : e.block \notin gone}
      /\ E.blocksByTransactions = {x \in X : x.tx \notin TxsOf(gone)}
      /\ E.transactionReceipts = C \ TxsOf(gone)
      /\ E.blockReservations = {r \in R : r.last <= block.number}
  BY <1>1, <1>2 DEF WithoutBlocks, BlockchainData
<1>5. Valued(B, T) /\ Indexed(B, X, C) /\ Adds(T, R)
  BY DEF Mapped
<1> HIDE DEF B, T, X, C, R
<1>6. Valued(B \ gone, {e \in T : e.block \notin gone})
  BY <1>5, ValuedWithout
<1>7. Indexed(B \ gone, {x \in X : x.tx \notin TxsOf(gone)}, C \ TxsOf(gone))
  BY <1>3, <1>5, IndexedWithout
<1>8. Adds({e \in T : e.block \notin gone}, {r \in R : r.last <= block.number})
  BY <1>5 DEF Adds
<1> QED
  BY <1>4, <1>6, <1>7, <1>8 DEF Mapped

LEMMA MapsStep == Inv /\ MapsInv /\ [BlockchainNext]_blockchainVars => MapsInv'
<1> SUFFICES ASSUME Sound(data, length), Mapped(data), [BlockchainNext]_blockchainVars
             PROVE  Mapped(data')
  BY DEF Inv, MapsInv
<1>1. ASSUME NEW n \in 0 .. MaxLength - 1, GetBlock(n)
      PROVE  Mapped(data')
  BY <1>1, Relations, MapsStepGet, MaxLengthAssumption
<1>2. ASSUME NEW interval \in Intervals, NEW state \in States, NEW txs \in SUBSET Txs,
             AddBlock(interval, state, txs)
      PROVE  Mapped(data')
  BY <1>2, Relations, MapsStepAdd
<1>3. ASSUME NEW count \in Counts, NEW interval \in Intervals, ReserveBlocks(count, interval)
      PROVE  Mapped(data')
  BY <1>3, Relations, MapsStepReserve
<1>4. ASSUME NEW block \in data.blocksByHash, DeleteLaterBlocks(block)
      PROVE  Mapped(data')
  BY <1>4, Relations, MapsStepDelete
<1>5. CASE UNCHANGED blockchainVars
  BY <1>5 DEF blockchainVars
<1> QED
  BY <1>1, <1>2, <1>3, <1>4, <1>5 DEF BlockchainNext

LEMMA MapsInvariance == BlockchainSpec => []MapsInv
  BY InvInit, InvStep, MapsInit, MapsStep, PTL DEF BlockchainSpec

\* What is found by number, by hash or by transaction is the same, for chains of any length.
LEMMA MapsDoAgree == Inv /\ MapsInv => MapsAgree
<1> SUFFICES ASSUME Inv, MapsInv PROVE MapsAgree
  OBVIOUS
<1> DEFINE B == data.blocksByNumber
           T == data.totalDifficulty
           X == data.blocksByTransactions
           entries(b) == {[tx |-> tx, block |-> b] : tx \in b.txs}
<1>1. {e.block : e \in T} = B
  BY DEF MapsInv, Mapped, Valued
<1>2. \A x \in X : x \in UNION {entries(b) : b \in B}
  <2> TAKE x \in X
  <2>1. x.block \in B /\ x.tx \in x.block.txs /\ x = [tx |-> x.tx, block |-> x.block]
    BY DEF MapsInv, Mapped, Indexed
  <2>2. x \in entries(x.block)
    BY <2>1
  <2> QED
    BY <2>1, <2>2
<1>3. \A x \in UNION {entries(b) : b \in B} : x \in X
  BY DEF MapsInv, Mapped, Indexed
<1>4. X = UNION {entries(b) : b \in B}
  BY <1>2, <1>3
<1>5. data.blocksByHash = B /\ data.transactionReceipts = TxsOf(B)
  BY DEF Inv, Sound, MapsInv, Mapped, Indexed
<1> QED
  BY <1>1, <1>4, <1>5 DEF MapsAgree

DifficultyAt(D, n) ==
    {e.td : e \in {x \in D.totalDifficulty : x.block.number = n}} \union
    {r.previousBlockTotalDifficulty : r \in {s \in D.blockReservations : Reserves(s, n)}}

LEMMA DifficultiesOfChain ==
    ASSUME NEW D, NEW len, Sound(D, len), Mapped(D)
    PROVE  /\ \A e \in D.totalDifficulty : e.block.number # 0 =>
                DifficultyAt(D, e.block.number - 1) = {e.td - e.block.difficulty}
           /\ \A r \in D.blockReservations :
                DifficultyAt(D, r.first - 1) = {r.previousBlockTotalDifficulty}
<1> DEFINE B == D.blocksByNumber
           T == D.totalDifficulty
           R == D.blockReservations
           td(n) == {e.td : e \in {x \in T : x.block.number = n}}
           reserved(n) == {r.previousBlockTotalDifficulty : r \in {s \in R : Reserves(s, n)}}
<1>1. /\ R \subseteq Reservation /\ B \subseteq Block /\ T \subseteq [block : Block, td : Nat]
      /\ len \in Nat \ {0}
  BY DEF Sound, Shape, TypedSets, Mapped, Valued
<1>2. ASSUME NEW n \in Nat, NEW b \in B, b.number = n
      PROVE  \E f \in T : f.block = b /\ DifficultyAt(D, n) = {f.td}
  <2>1. PICK f \in T : f.block = b
    BY DEF Mapped, Valued
  <2>2. \A g \in T : g.block.number = n <=> g = f
    <3>1. \A g \in T : g.block \in B
      BY DEF Mapped, Valued
    <3>2. \A g \in T : g.block.number = n => g.block = b
      BY <1>2, <3>1 DEF Sound, Shape, Tiled
    <3> QED
      BY <1>2, <2>1, <3>2 DEF Mapped, Valued
  <2>3. \A s \in R : ~ Reserves(s, n)
    BY <1>2 DEF Sound, Shape, Tiled
  <2> HIDE DEF T, R
  <2>4. td(n) = {f.td}
    BY <2>2
  <2>5. reserved(n) = {}
    BY <2>3
  <2>6. DifficultyAt(D, n) = td(n) \union reserved(n)
    BY DEF DifficultyAt, T, R
  <2> QED
    BY <2>1, <2>4, <2>5, <2>6
<1>3. ASSUME NEW e \in T, e.block.number # 0
      PROVE  DifficultyAt(D, e.block.number - 1) = {e.td - e.block.difficulty}
  <2> DEFINE n == e.block.number - 1
  <2>1. /\ e.block \in B /\ e.block.number \in Nat /\ e.block.number < len
        /\ e.td \in Nat /\ e.block.difficulty \in Nat /\ n \in 0 .. len - 1
    BY <1>1, <1>3 DEF Mapped, Valued, Sound, Shape, Tiled, Block
  <2>2. CASE \E b \in B : b.number = n
    <3>1. PICK b \in B : b.number = n
      BY <2>2
    <3>2. PICK f \in T : f.block = b /\ DifficultyAt(D, n) = {f.td}
      BY <1>2, <2>1, <3>1
    <3>3. f.td \in Nat /\ e.td = f.td + e.block.difficulty
      BY <1>1, <3>1, <3>2 DEF Mapped, Adds
    <3>4. f.td = e.td - e.block.difficulty
      BY <2>1, <3>3
    <3> QED
      BY <3>2, <3>4
  <2>3. CASE ~ \E b \in B : b.number = n
    <3>1. PICK r \in R : Reserves(r, n)
      BY <2>1, <2>3 DEF Sound, Shape, Tiled
    <3>2. ~ Reserves(r, e.block.number)
      BY <2>1 DEF Sound, Shape, Tiled
    <3>3. r.last = n /\ r.first <= n /\ r.previousBlockTotalDifficulty \in Nat
      BY <1>1, <2>1, <3>1, <3>2 DEF Reserves, Reservation
    <3>4. e.td = r.previousBlockTotalDifficulty + e.block.difficulty
      BY <3>3 DEF Mapped, Adds
    <3>5. r.previousBlockTotalDifficulty = e.td - e.block.difficulty
      BY <2>1, <3>3, <3>4
    <3>6. \A s \in R : Reserves(s, n) <=> s = r
      <4> SUFFICES ASSUME NEW s \in R, Reserves(s, n) PROVE s = r
        BY <3>1
      <4>1. s.first \in Nat /\ s.last \in Nat /\ r.first \in Nat /\ r.last \in Nat /\ n \in Nat
        BY <1>1, <2>1 DEF Reservation
      <4>2. s.first <= n /\ n <= s.last
        BY DEF Reserves
      <4>3. s.first <= r.last /\ r.first <= s.last
        BY <3>3, <4>1, <4>2
      <4> QED
        BY <4>3 DEF Sound, Shape, Tiled
    <3>7. \A f \in T : f.block.number # n
      BY <2>3 DEF Mapped, Valued
    <3> HIDE DEF T, R
    <3>8. td(n) = {} /\ reserved(n) = {r.previousBlockTotalDifficulty}
      BY <3>6, <3>7
    <3>9. DifficultyAt(D, n) = td(n) \union reserved(n)
      BY DEF DifficultyAt, T, R
    <3> QED
      BY <3>5, <3>8, <3>9
  <2> QED
    BY <2>2, <2>3
<1>4. ASSUME NEW r \in R
      PROVE  DifficultyAt(D, r.first - 1) = {r.previousBlockTotalDifficulty}
  <2>1. PICK b \in B : b.number = r.first - 1
    BY DEF Sound, Shape, Follow
  <2>2. b.number \in Nat
    BY <1>1 DEF Block
  <2>3. PICK f \in T : f.block = b /\ DifficultyAt(D, r.first - 1) = {f.td}
    BY <1>2, <2>1, <2>2
  <2>4. f.td = r.previousBlockTotalDifficulty
    BY <2>1, <2>3 DEF Mapped, Adds
  <2> QED
    BY <2>3, <2>4
<1> QED
  BY <1>3, <1>4

LEMMA DifficultiesDoAddUp == Inv /\ MapsInv => DifficultiesAddUp
<1>1. \A n : TotalDifficultyAt(n) = DifficultyAt(data, n)
  BY DEF TotalDifficultyAt, DifficultyAt
<1> QED
  BY <1>1, DifficultiesOfChain DEF Inv, MapsInv, DifficultiesAddUp

-----------------------------------------------------------------------------
(* What readers see.                                                          *)

\* The block with number n, as it is or as it will be made.
At(B, R, n) ==
    IF \E r \in R : Reserves(r, n)
    THEN LET r == CHOOSE s \in R : Reserves(s, n)
             before == CHOOSE b \in {c \in B : c.number = r.first - 1} : TRUE
         IN Visible(ReservedBlock(before, r, n))
    ELSE Visible(CHOOSE b \in {c \in B : c.number = n} : TRUE)

Seen(B, R, len) == [i \in 1 .. len |-> At(B, R, i - 1)]

SeenOf(D, len) == Seen(D.blocksByNumber, D.blockReservations, len)

LatestOf(c) == c[Len(c)]

\* What each operation does to what readers see.
Appending(c, e, interval, state, txs) ==
    e = Append(c, Promised!BlockAfter(LatestOf(c), interval, state, txs))

AppendingEmpty(c, e, count, interval) ==
    e = c \o [i \in 1 .. count |-> Promised!BlockAfter(LatestOf(c), i * interval, LatestOf(c).state, {})]

LEMMA VisibleIsSeen ==
    VisibleChain = SeenOf(data, length) /\ VisibleChain' = SeenOf(data', length')
BY DEF VisibleChain, BlockAt, IsReservedBlock, Numbered, SeenOf, Seen, At

LEMMA AtStored ==
    ASSUME NEW B, NEW R, NEW len, Tiled(B, R, len), NEW b \in B
    PROVE  At(B, R, b.number) = Visible(b)
<1>1. ~ \E r \in R : Reserves(r, b.number)
  BY DEF Tiled
<1>2. {c \in B : c.number = b.number} = {b}
  BY DEF Tiled
<1>3. (CHOOSE c \in {b} : TRUE) = b
  OBVIOUS
<1> QED
  BY <1>1, <1>2, <1>3 DEF At

LEMMA AtReserved ==
    ASSUME NEW B, NEW R, NEW len, Shape(B, R, len), NEW n \in Nat, NEW r \in R, Reserves(r, n),
           NEW before \in B, before.number = r.first - 1
    PROVE  At(B, R, n) = Visible(ReservedBlock(before, r, n))
<1>1. \A s \in R : Reserves(s, n) => s = r
  <2> TAKE s \in R
  <2> HAVE Reserves(s, n)
  <2>1. s.first \in Nat /\ s.last \in Nat /\ r.first \in Nat /\ r.last \in Nat
    BY DEF Shape, TypedSets, Reservation
  <2>2. s.first <= r.last /\ r.first <= s.last
    BY <2>1 DEF Reserves
  <2> QED
    BY <2>2 DEF Shape, Tiled
<1> DEFINE chosen == CHOOSE s \in R : Reserves(s, n)
<1>2. chosen = r
  BY <1>1
<1>3. {c \in B : c.number = r.first - 1} = {before}
  BY DEF Shape, Tiled
<1>4. (CHOOSE c \in {before} : TRUE) = before
  OBVIOUS
<1>5. At(B, R, n) = Visible(ReservedBlock(CHOOSE b \in {c \in B : c.number = chosen.first - 1} : TRUE, chosen, n))
  BY DEF At
<1> QED
  BY <1>2, <1>3, <1>4, <1>5

\* A number whose block or reservation stays, and with it the block before, is seen as before.
LEMMA Kept ==
    ASSUME NEW B, NEW R, NEW len, Shape(B, R, len), NEW B2, NEW R2, NEW len2, Shape(B2, R2, len2),
           NEW n \in 0 .. len - 1,
           \A b \in B : b.number <= n => b \in B2,
           \A r \in R : Reserves(r, n) => r \in R2
    PROVE  At(B2, R2, n) = At(B, R, n)
<1>0. n \in Nat
  BY DEF Shape, TypedSets
<1>1. CASE \E r \in R : Reserves(r, n)
  <2>1. PICK r \in R : Reserves(r, n)
    BY <1>1
  <2>2. PICK before \in B : before.number = r.first - 1
    BY DEF Shape, Follow
  <2>3. r \in R2 /\ before \in B2
    <3>1. r.first \in Nat /\ r.first <= n
      BY <2>1 DEF Shape, TypedSets, Reservation, Reserves
    <3>2. before.number <= n
      BY <1>0, <2>2, <3>1
    <3> QED
      BY <2>1, <3>2
  <2> QED
    BY <1>0, <2>1, <2>2, <2>3, AtReserved
<1>2. CASE ~ \E r \in R : Reserves(r, n)
  <2>1. PICK b \in B : b.number = n
    BY <1>2 DEF Shape, Tiled
  <2>2. b \in B2
    BY <1>0, <2>1
  <2>3. At(B, R, b.number) = Visible(b) /\ At(B2, R2, b.number) = Visible(b)
    BY <2>2, AtStored DEF Shape
  <2> QED
    BY <2>1, <2>3
<1> QED
  BY <1>1, <1>2

\* A block made in the middle of a reservation, and those after it, are where they were.
LEMMA Distributes ==
    ASSUME NEW t \in Nat, NEW i \in Nat, NEW f \in Nat, NEW n \in Nat, NEW m \in Nat
    PROVE  (t + i * (n - f + 1)) + i * (m - (n + 1) + 1) = t + i * (m - f + 1)
<1>1. \A x, y \in Int : i * (x + y) = i * x + i * y
  OBVIOUS
<1>2. \A x, y \in Int : (t + i * x) + i * y = t + i * (x + y)
  <2> TAKE x \in Int, y \in Int
  <2> DEFINE p == i * x
             q == i * y
  <2>1. p \in Int /\ q \in Int /\ i * (x + y) = p + q
    BY <1>1
  <2> HIDE DEF p, q
  <2>2. (t + p) + q = t + (p + q)
    BY <2>1
  <2> QED
    BY <2>1, <2>2 DEF p, q
<1> DEFINE x == n - f + 1
           y == m - (n + 1) + 1
<1>3. x \in Int /\ y \in Int /\ x + y = m - f + 1
  OBVIOUS
<1>4. (t + i * x) + i * y = t + i * (x + y)
  <2> HIDE DEF x, y
  <2> QED
    BY <1>2, <1>3
<1> QED
  BY <1>3, <1>4

LEMMA SeenGet ==
    ASSUME NEW D, NEW E, NEW len, Sound(D, len), Sound(E, len), NEW n \in Nat, Getting(D, E, n)
    PROVE  SeenOf(E, len) = SeenOf(D, len)
<1> DEFINE B == D.blocksByNumber
           R == D.blockReservations
           newB == E.blocksByNumber
           newR == E.blockReservations
<1>1. PICK r \in R, before \in B, block \in Block :
        /\ Reserves(r, n) /\ before.number = r.first - 1
        /\ block = ReservedBlock(before, r, n)
        /\ newB = B \union {block}
        /\ newR = (R \ {r}) \union SplitAt(r, n)
  BY GetBlockMaps
<1>3. Shape(B, R, len) /\ Shape(newB, newR, len)
  BY DEF Sound
<1>4. len \in Nat \ {0} /\ R \subseteq Reservation /\ B \subseteq Block
  BY DEF Sound, Shape, TypedSets
<1>5. /\ r.first <= n /\ n <= r.last /\ r.first \in Nat /\ r.last \in Nat /\ r.interval \in Nat
      /\ before.timestamp \in Nat
  BY <1>1, <1>4 DEF Reserves, Reservation, Block
<1>6. block.number = n /\ block.state = r.previousBlockState /\ block.txs = {}
      /\ block.timestamp = before.timestamp + r.interval * (n - r.first + 1)
  BY <1>1 DEF ReservedBlock, ReservedTimestamp
<1>7. ASSUME NEW m \in 0 .. len - 1 PROVE At(newB, newR, m) = At(B, R, m)
  <2>0. m \in Nat
    BY <1>4
  <2>1. CASE ~ Reserves(r, m)
    <3>1. \A b \in B : b \in newB
      BY <1>1
    <3>2. \A s \in R : Reserves(s, m) => s \in newR
      BY <1>1, <2>1
    <3> HIDE DEF B, R
    <3> QED
      BY <1>3, <3>1, <3>2, Kept
  <2>2. CASE Reserves(r, m) /\ m = n
    <3> HIDE DEF B, R
    <3>1. At(newB, newR, block.number) = Visible(block)
      BY <1>1, <1>3, AtStored DEF Shape
    <3>2. At(B, R, m) = Visible(block)
      BY <1>1, <1>3, <2>0, <2>2, AtReserved
    <3> QED
      BY <1>6, <2>2, <3>1, <3>2
  <2>3. CASE Reserves(r, m) /\ m < n
    <3> DEFINE s == [r EXCEPT !.last = n - 1]
    <3>1. s \in SplitAt(r, n) /\ s.first = r.first /\ Reserves(s, m)
          /\ s.interval = r.interval /\ s.previousBlockState = r.previousBlockState
      BY <1>4, <1>5, <2>0, <2>3 DEF SplitAt, Reserves, Reservation
    <3> HIDE DEF B, R, s
    <3>2. At(newB, newR, m) = Visible(ReservedBlock(before, s, m))
      BY <1>1, <1>3, <2>0, <3>1, AtReserved
    <3>3. At(B, R, m) = Visible(ReservedBlock(before, r, m))
      BY <1>1, <1>3, <2>0, <2>3, AtReserved
    <3> QED
      BY <3>1, <3>2, <3>3 DEF Visible, ReservedBlock, ReservedTimestamp
  <2>4. CASE Reserves(r, m) /\ m > n
    <3> DEFINE s == [r EXCEPT !.first = n + 1]
    <3>1. s \in SplitAt(r, n) /\ s.first = n + 1 /\ Reserves(s, m)
          /\ s.interval = r.interval /\ s.previousBlockState = r.previousBlockState
      BY <1>4, <1>5, <2>0, <2>4 DEF SplitAt, Reserves, Reservation
    <3> HIDE DEF B, R, s
    <3>2. At(newB, newR, m) = Visible(ReservedBlock(block, s, m))
      BY <1>1, <1>3, <1>6, <2>0, <3>1, AtReserved
    <3>3. At(B, R, m) = Visible(ReservedBlock(before, r, m))
      BY <1>1, <1>3, <2>0, <2>4, AtReserved
    <3>4. block.timestamp + s.interval * (m - s.first + 1) = before.timestamp + r.interval * (m - r.first + 1)
      BY <1>5, <1>6, <2>0, <3>1, Distributes
    <3> QED
      BY <3>1, <3>2, <3>3, <3>4 DEF Visible, ReservedBlock, ReservedTimestamp
  <2> QED
    BY <1>4, <2>0, <2>1, <2>2, <2>3, <2>4
<1>8. Seen(newB, newR, len) = Seen(B, R, len)
  <2> HIDE DEF B, R
  <2>1. \A i \in 1 .. len : i - 1 \in 0 .. len - 1
    BY <1>4
  <2> QED
    BY <1>7, <2>1 DEF Seen
<1> QED
  BY <1>8 DEF SeenOf

LEMMA SeenInit == BlockchainInit => Promised!Init
<1> SUFFICES ASSUME NEW state \in States,
                    data = WithBlock(NoData, GenesisBlock(state), Difficulty), length = 1
             PROVE  Promised!Init
  BY DEF BlockchainInit
<1> DEFINE block == GenesisBlock(state)
<1>0. BlockchainInit
  BY DEF BlockchainInit
<1>1. Shape(data.blocksByNumber, data.blockReservations, 1)
  BY <1>0, InvInit DEF Inv, Sound
<1>2. block \in Block /\ block.number = 0
  BY IntervalsAssumption DEF GenesisBlock, Block
<1>3. block \in data.blocksByNumber
  <2>1. NoData \in BlockchainData
    BY DEF NoData, BlockchainData
  <2> HIDE DEF block
  <2>2. data = WithBlock(NoData, block, Difficulty)
    BY DEF block
  <2> QED
    BY <1>2, <2>1, <2>2, WithBlockData, IntervalsAssumption
<1>4. Visible(block) = [timestamp |-> 0, state |-> state, txs |-> {}]
  BY DEF GenesisBlock, Visible
<1> HIDE DEF block
<1>5. At(data.blocksByNumber, data.blockReservations, 0) = Visible(block)
  BY <1>1, <1>2, <1>3, AtStored DEF Shape
<1>6. VisibleChain = [i \in 1 .. 1 |-> At(data.blocksByNumber, data.blockReservations, i - 1)]
  BY VisibleIsSeen DEF SeenOf, Seen
<1>7. VisibleChain = << Visible(block) >>
  BY <1>5, <1>6
<1> QED
  BY <1>4, <1>7 DEF Promised!Init

LEMMA SeenAdd ==
    ASSUME NEW D, NEW E, NEW len, Sound(D, len), Sound(E, len + 1), NEW interval \in Intervals, NEW state \in States,
           NEW txs \in SUBSET Txs, Adding(D, E, len, interval, state, txs)
    PROVE  Appending(SeenOf(D, len), SeenOf(E, len + 1), interval, state, txs)
<1>0. \E parent \in D.blocksByNumber, e \in D.totalDifficulty, block \in Block :
        /\ parent.number = len - 1 /\ e.block = parent
        /\ block = [number |-> len, timestamp |-> parent.timestamp + interval,
                    state |-> state, txs |-> txs, difficulty |-> Difficulty]
        /\ \A x \in D.blocksByTransactions : x.tx \notin txs
        /\ E.blocksByNumber = D.blocksByNumber \union {block}
        /\ E.totalDifficulty = {f \in D.totalDifficulty : f.block # block} \union
                                   {[block |-> block, td |-> e.td + Difficulty]}
        /\ E.blocksByTransactions = D.blocksByTransactions \union
                                        {[tx |-> tx, block |-> block] : tx \in txs}
        /\ E.transactionReceipts = D.transactionReceipts \union txs
        /\ E.blockReservations = D.blockReservations
  BY AddBlockMaps
<1> DEFINE B == D.blocksByNumber
           R == D.blockReservations
           newB == E.blocksByNumber
           newR == E.blockReservations
<1>1. PICK parent \in B, e \in D.totalDifficulty, block \in Block :
        /\ parent.number = len - 1
        /\ block = [number |-> len, timestamp |-> parent.timestamp + interval,
                    state |-> state, txs |-> txs, difficulty |-> Difficulty]
        /\ newB = B \union {block}
        /\ newR = R
  BY <1>0
<1>3. Shape(B, R, len) /\ Shape(newB, newR, len + 1)
  BY DEF Sound
<1>4. len \in Nat \ {0}
  BY DEF Sound, Shape, TypedSets
<1> HIDE DEF B, R, newB, newR
<1>5. \A m \in 0 .. len - 1 : At(newB, newR, m) = At(B, R, m)
  BY <1>1, <1>3, Kept
<1>6. At(newB, newR, block.number) = Visible(block)
  BY <1>1, <1>3, AtStored DEF Shape
<1>7. At(B, R, parent.number) = Visible(parent)
  BY <1>1, <1>3, AtStored DEF Shape
<1>8. SeenOf(D, len) = [i \in 1 .. len |-> At(B, R, i - 1)]
  BY DEF SeenOf, Seen, B, R
<1>9. SeenOf(E, len + 1) = [i \in 1 .. len + 1 |-> At(newB, newR, i - 1)]
  BY DEF SeenOf, Seen, newB, newR
<1>10. Len(SeenOf(D, len)) = len /\ SeenOf(D, len)[len] = Visible(parent)
  BY <1>1, <1>4, <1>7, <1>8
<1>11. LatestOf(SeenOf(D, len)) = Visible(parent)
  BY <1>10 DEF LatestOf
<1> DEFINE next == Promised!BlockAfter(LatestOf(SeenOf(D, len)), interval, state, txs)
<1>12. next = Visible(block)
  BY <1>1, <1>11 DEF Promised!BlockAfter, Visible
<1> HIDE DEF next
<1>13. Append(SeenOf(D, len), next) = [i \in 1 .. len + 1 |-> IF i = len + 1 THEN next ELSE SeenOf(D, len)[i]]
  BY <1>4, <1>8
<1>14. \A i \in 1 .. len + 1 : At(newB, newR, i - 1) = IF i = len + 1 THEN next ELSE SeenOf(D, len)[i]
  <2> TAKE i \in 1 .. len + 1
  <2>1. CASE i = len + 1
    BY <1>1, <1>4, <1>6, <1>12, <2>1
  <2>2. CASE i # len + 1
    <3>1. i \in 1 .. len /\ i - 1 \in 0 .. len - 1
      BY <1>4, <2>2
    <3> QED
      BY <1>5, <1>8, <2>2, <3>1
  <2> QED
    BY <2>1, <2>2
<1>15. SeenOf(E, len + 1) = Append(SeenOf(D, len), next)
  BY <1>9, <1>13, <1>14
<1> QED
  BY <1>15 DEF Appending, next

LEMMA SeenReserve ==
    ASSUME NEW D, NEW E, NEW len, Sound(D, len), NEW count \in Counts, Sound(E, len + count), NEW interval \in Intervals,
           Reserving(D, E, len, count, interval)
    PROVE  AppendingEmpty(SeenOf(D, len), SeenOf(E, len + count), count, interval)
<1> DEFINE B == D.blocksByNumber
           R == D.blockReservations
           newB == E.blocksByNumber
           newR == E.blockReservations
<1>1. PICK latest \in Numbered(D, len - 1), e \in D.totalDifficulty :
        E = [D EXCEPT !.blockReservations = @ \union
            {[first |-> len, last |-> len + count - 1, interval |-> interval,
              previousBlockState |-> latest.state,
              previousBlockTotalDifficulty |-> e.td]}]
  BY DEF Reserving
<1> DEFINE new == [first |-> len, last |-> len + count - 1, interval |-> interval,
                   previousBlockState |-> latest.state,
                   previousBlockTotalDifficulty |-> e.td]
<1>2. /\ D \in BlockchainData /\ B \subseteq Block
      /\ len \in Nat \ {0} /\ count \in Nat \ {0} /\ interval \in Nat
  BY CountsAssumption, IntervalsAssumption DEF Sound, Shape, TypedSets
<1>3. E = [D EXCEPT !.blockReservations = @ \union {new}]
  BY <1>1
<1>4. new.first = len /\ new.last = len + count - 1 /\ new.interval = interval
      /\ new.previousBlockState = latest.state
  OBVIOUS
<1> HIDE DEF new
<1>5. newB = B /\ newR = R \union {new}
  BY <1>2, <1>3 DEF BlockchainData
<1>7. Shape(B, R, len) /\ Shape(newB, newR, len + count)
  BY DEF Sound
<1>8. latest \in B /\ latest.number = len - 1 /\ latest.timestamp \in Nat
  BY <1>2 DEF Numbered, Block
<1> HIDE DEF B, R, newB, newR
<1>9. \A m \in 0 .. len - 1 : At(newB, newR, m) = At(B, R, m)
  BY <1>5, <1>7, Kept
<1>10. At(B, R, latest.number) = Visible(latest)
  BY <1>7, <1>8, AtStored DEF Shape
<1>11. \A m \in len .. len + count - 1 : At(newB, newR, m) = Visible(ReservedBlock(latest, new, m))
  <2> TAKE m \in len .. len + count - 1
  <2>1. m \in Nat /\ Reserves(new, m)
    BY <1>2, <1>4 DEF Reserves
  <2>2. new \in newR /\ latest \in newB
    BY <1>5, <1>8
  <2>3. latest.number = new.first - 1
    BY <1>4, <1>8
  <2> QED
    BY <1>7, <2>1, <2>2, <2>3, AtReserved
<1>12. SeenOf(D, len) = [i \in 1 .. len |-> At(B, R, i - 1)]
  BY DEF SeenOf, Seen, B, R
<1>13. SeenOf(E, len + count) = [i \in 1 .. len + count |-> At(newB, newR, i - 1)]
  BY DEF SeenOf, Seen, newB, newR
<1>14. Len(SeenOf(D, len)) = len /\ SeenOf(D, len)[len] = Visible(latest)
  BY <1>2, <1>8, <1>10, <1>12
<1>15. LatestOf(SeenOf(D, len)) = Visible(latest)
  BY <1>14 DEF LatestOf
<1> DEFINE empty(i) == Promised!BlockAfter(LatestOf(SeenOf(D, len)), i * interval,
                                         LatestOf(SeenOf(D, len)).state, {})
           run == [i \in 1 .. count |-> empty(i)]
<1>16. ASSUME NEW i \in 1 .. count PROVE At(newB, newR, len + i - 1) = empty(i)
  <2>1. len + i - 1 \in len .. len + count - 1 /\ i \in Nat
    BY <1>2
  <2>2. At(newB, newR, len + i - 1) = Visible(ReservedBlock(latest, new, len + i - 1))
    BY <1>11, <2>1
  <2>3. new.interval * ((len + i - 1) - new.first + 1) = i * interval
    <3>1. (len + i - 1) - new.first + 1 = i
      BY <1>2, <1>4, <2>1
    <3>2. \A a, b \in Nat : a * b = b * a
      OBVIOUS
    <3> QED
      BY <1>2, <1>4, <2>1, <3>1, <3>2
  <2>4. Visible(ReservedBlock(latest, new, len + i - 1)) =
          [timestamp |-> latest.timestamp + i * interval, state |-> latest.state, txs |-> {}]
    BY <1>4, <2>3 DEF Visible, ReservedBlock, ReservedTimestamp
  <2>5. empty(i) = [timestamp |-> latest.timestamp + i * interval, state |-> latest.state, txs |-> {}]
    BY <1>15 DEF Promised!BlockAfter, Visible
  <2> QED
    BY <2>2, <2>4, <2>5
<1> HIDE DEF empty
<1>17. SeenOf(D, len) \o run =
        [i \in 1 .. len + count |-> IF i <= len THEN SeenOf(D, len)[i] ELSE run[i - len]]
  <2> DEFINE S == {SeenOf(D, len)[i] : i \in 1 .. len} \union {run[i] : i \in 1 .. count}
  <2>1. SeenOf(D, len) \in [1 .. len -> S] /\ run \in [1 .. count -> S]
    BY <1>12
  <2> DEFINE one == SeenOf(D, len)
             two == run
  <2>2. one \in Seq(S) /\ two \in Seq(S) /\ Len(one) = len /\ Len(two) = count
    <3> HIDE DEF S, one, two
    <3>1. one \in [1 .. len -> S] /\ two \in [1 .. count -> S] /\ len \in Nat /\ count \in Nat
      BY <1>2, <2>1 DEF one, two
    <3> QED
      BY <3>1
  <2> HIDE DEF S, one, two
  <2>3. /\ one \o two \in Seq(S) /\ Len(one \o two) = len + count
        /\ \A i \in 1 .. len + count : (one \o two)[i] = IF i <= len THEN one[i] ELSE two[i - len]
    BY <2>2, ConcatProperties
  <2>4. one \o two = [i \in 1 .. len + count |-> IF i <= len THEN one[i] ELSE two[i - len]]
    <3> DEFINE both == one \o two
    <3>1. both \in Seq(S) /\ Len(both) = len + count
      BY <2>3
    <3>2. \A i \in 1 .. len + count : both[i] = IF i <= len THEN one[i] ELSE two[i - len]
      BY <2>3
    <3> HIDE DEF both
    <3>3. both = [i \in 1 .. len + count |-> both[i]]
      BY <3>1
    <3>4. both = [i \in 1 .. len + count |-> IF i <= len THEN one[i] ELSE two[i - len]]
      BY <3>2, <3>3
    <3> QED
      BY <3>4 DEF both
  <2> QED
    BY <2>4 DEF one, two
<1>18. \A i \in 1 .. len + count :
        At(newB, newR, i - 1) = IF i <= len THEN SeenOf(D, len)[i] ELSE run[i - len]
  <2> TAKE i \in 1 .. len + count
  <2>1. CASE i <= len
    <3>1. i \in 1 .. len /\ i - 1 \in 0 .. len - 1
      BY <1>2, <2>1
    <3> QED
      BY <1>9, <1>12, <2>1, <3>1
  <2>2. CASE ~ (i <= len)
    <3>1. i - len \in 1 .. count /\ len + (i - len) - 1 = i - 1
      BY <1>2, <2>2
    <3>2. At(newB, newR, len + (i - len) - 1) = empty(i - len)
      BY <1>16, <3>1
    <3> QED
      BY <2>2, <3>1, <3>2
  <2> QED
    BY <2>1, <2>2
<1>19. SeenOf(E, len + count) = SeenOf(D, len) \o run
  BY <1>13, <1>17, <1>18
<1> QED
  BY <1>19 DEF AppendingEmpty, empty

LEMMA SeenDelete ==
    ASSUME NEW D, NEW E, NEW len, Sound(D, len), NEW block \in D.blocksByHash,
           Sound(E, block.number + 1), Deleting(D, E, block)
    PROVE  /\ block.number + 1 \in 1 .. Len(SeenOf(D, len))
           /\ SeenOf(E, block.number + 1) = SubSeq(SeenOf(D, len), 1, block.number + 1)
<1> DEFINE B == D.blocksByNumber
           R == D.blockReservations
           newB == E.blocksByNumber
           newR == E.blockReservations
           gone == {b \in B : b.number > block.number /\ ~ IsReservedBlock(D, b.number)}
<1>1. E = [WithoutBlocks(D, gone)
               EXCEPT !.blockReservations = {r \in @ : r.last <= block.number}]
  BY DEF Deleting
<1>2. D \in BlockchainData /\ block \in B /\ len \in Nat \ {0} /\ B \subseteq Block /\ R \subseteq Reservation
  BY DEF Sound, Shape, TypedSets
<1>3. newB = B \ gone /\ newR = {r \in R : r.last <= block.number}
  <2> HIDE DEF gone
  <2> QED
    BY <1>1, <1>2 DEF WithoutBlocks, BlockchainData
<1>5. Shape(B, R, len) /\ Shape(newB, newR, block.number + 1)
  BY DEF Sound
<1>6. block.number \in Nat /\ block.number < len
  BY <1>2 DEF Sound, Shape, Tiled, Block
<1>7. ASSUME NEW m \in 0 .. block.number PROVE At(newB, newR, m) = At(B, R, m)
  <2>1. \A b \in B : b.number <= m => b \in newB
    BY <1>2, <1>3, <1>6 DEF Block
  <2>2. \A r \in R : Reserves(r, m) => r \in newR
    <3> TAKE r \in R
    <3> HAVE Reserves(r, m)
    <3>1. ~ Reserves(r, block.number)
      BY <1>2 DEF Sound, Shape, Tiled
    <3>2. r.last <= block.number
      BY <1>2, <1>6, <3>1 DEF Reserves, Reservation
    <3> QED
      BY <1>3, <3>2
  <2>3. m \in 0 .. len - 1
    BY <1>2, <1>6
  <2> HIDE DEF B, R
  <2> QED
    BY <1>5, <2>1, <2>2, <2>3, Kept
<1> HIDE DEF B, R, newB, newR
<1>8. SeenOf(D, len) = [i \in 1 .. len |-> At(B, R, i - 1)]
  BY DEF SeenOf, Seen, B, R
<1>9. SeenOf(E, block.number + 1) = [i \in 1 .. block.number + 1 |-> At(newB, newR, i - 1)]
  BY DEF SeenOf, Seen, newB, newR
<1> DEFINE n == block.number + 1
<1>10. n \in 1 .. len /\ Len(SeenOf(D, len)) = len
  BY <1>2, <1>6, <1>8
<1>11. \A i \in 1 .. n : At(newB, newR, i - 1) = SeenOf(D, len)[i]
  <2> TAKE i \in 1 .. n
  <2>1. i - 1 \in 0 .. block.number /\ i \in 1 .. len
    BY <1>2, <1>6
  <2> QED
    BY <1>7, <1>8, <2>1
<1> HIDE DEF n
<1>12. SubSeq(SeenOf(D, len), 1, n) = [i \in 1 .. n |-> SeenOf(D, len)[i]]
  <2> DEFINE S == {SeenOf(D, len)[i] : i \in 1 .. n}
             front == SubSeq(SeenOf(D, len), 1, n)
  <2>1. n \in Nat /\ n >= 1
    BY <1>2, <1>10
  <2>2. \A i \in 1 .. n : SeenOf(D, len)[i] \in S
    OBVIOUS
  <2> HIDE DEF S
  <2>3. /\ front \in Seq(S) /\ Len(front) = n
        /\ \A i \in 1 .. n : front[i] = SeenOf(D, len)[i]
    <3>1. /\ front \in Seq(S) /\ Len(front) = IF 1 <= n THEN n - 1 + 1 ELSE 0
          /\ \A i \in 1 .. n - 1 + 1 : front[i] = SeenOf(D, len)[1 + i - 1]
      BY <2>1, <2>2, SubSeqProperties
    <3>2. n - 1 + 1 = n /\ \A i \in 1 .. n : 1 + i - 1 = i
      BY <2>1
    <3> HIDE DEF front
    <3> QED
      BY <2>1, <3>1, <3>2
  <2> HIDE DEF front
  <2>4. front = [i \in 1 .. n |-> front[i]]
    BY <2>3
  <2>5. front = [i \in 1 .. n |-> SeenOf(D, len)[i]]
    BY <2>3, <2>4
  <2> QED
    BY <2>5 DEF front
<1>13. SeenOf(E, block.number + 1) = SubSeq(SeenOf(D, len), 1, n)
  BY <1>9, <1>11, <1>12 DEF n
<1> QED
  BY <1>10, <1>13 DEF n

LEMMA SeenStep == Inv /\ Inv' /\ [BlockchainNext]_blockchainVars => [Promised!Next]_VisibleChain
<1> SUFFICES ASSUME Sound(data, length), Sound(data', length'), [BlockchainNext]_blockchainVars
             PROVE  [Promised!Next]_VisibleChain
  BY DEF Inv
<1> DEFINE c == SeenOf(data, length)
           e == SeenOf(data', length')
<1>0. VisibleChain = c /\ VisibleChain' = e
  BY VisibleIsSeen
<1> HIDE DEF c, e
<1>1. ASSUME NEW n \in 0 .. MaxLength - 1, GetBlock(n)
      PROVE  UNCHANGED VisibleChain
  BY <1>0, <1>1, Relations, SeenGet, MaxLengthAssumption DEF c, e
<1>2. ASSUME NEW interval \in Intervals, NEW state \in States, NEW txs \in SUBSET Txs,
             AddBlock(interval, state, txs)
      PROVE  Promised!Next
  <2>1. Appending(c, e, interval, state, txs)
    BY <1>2, Relations, SeenAdd DEF c, e
  <2> QED
    BY <1>0, <2>1 DEF Promised!Next, Promised!AddBlock, Promised!Latest, Appending, LatestOf
<1>3. ASSUME NEW count \in Counts, NEW interval \in Intervals, ReserveBlocks(count, interval)
      PROVE  Promised!Next
  <2>1. AppendingEmpty(c, e, count, interval)
    BY <1>3, Relations, SeenReserve DEF c, e
  <2> QED
    BY <1>0, <2>1 DEF Promised!Next, Promised!AddEmptyBlocks, Promised!Latest, AppendingEmpty, LatestOf
<1>4. ASSUME NEW block \in data.blocksByHash, DeleteLaterBlocks(block)
      PROVE  Promised!Next
  <2> DEFINE n == block.number + 1
  <2>1. Deleting(data, data', block) /\ length' = n
    BY <1>4, Relations
  <2>2. Sound(data', n)
    BY <2>1
  <2>3. n \in 1 .. Len(SeenOf(data, length)) /\ SeenOf(data', n) = SubSeq(SeenOf(data, length), 1, n)
    BY <2>1, <2>2, SeenDelete
  <2> HIDE DEF n
  <2>4. n \in 1 .. Len(c) /\ e = SubSeq(c, 1, n)
    BY <2>1, <2>3 DEF c, e
  <2> QED
    BY <1>0, <2>4 DEF Promised!Next, Promised!DeleteLaterBlocks
<1>5. CASE UNCHANGED blockchainVars
  <2>1. data' = data /\ length' = length
    BY <1>5 DEF blockchainVars
  <2> QED
    BY <1>0, <2>1 DEF c, e
<1> QED
  BY <1>1, <1>2, <1>3, <1>4, <1>5 DEF BlockchainNext

-----------------------------------------------------------------------------
(* Theorems.                                                                  *)

LEMMA Invariance == BlockchainSpec => []Inv
  BY InvInit, InvStep, PTL DEF BlockchainSpec

\* The maps are well typed and no reservation is empty, for every length of the chain and of
\* its reservations.
THEOREM TypeCorrect == BlockchainSpec => []BlockchainTypeOK
<1>1. Inv => BlockchainTypeOK
  BY DEF Inv, Sound, BlockchainTypeOK, Shape, TypedSets, Tiled
<1> QED
  BY <1>1, Invariance, PTL

\* Whatever reads split the reservations and whatever goes back cancels, every number of the
\* chain has one block or one reservation.
THEOREM NothingLostOrMadeTwice == BlockchainSpec => []StoredOrReservedOnce
<1>1. Inv => StoredOrReservedOnce
  <2> SUFFICES ASSUME Inv PROVE StoredOrReservedOnce
    OBVIOUS
  <2>1. \A n \in 0 .. length - 1 :
          IF IsReservedBlock(data, n) THEN Numbered(data, n) = {} ELSE Numbered(data, n) # {}
    BY DEF Inv, Sound, Shape, Tiled, IsReservedBlock, Numbered
  <2> QED
    BY <2>1 DEF StoredOrReservedOnce, Inv, Sound, Shape, Tiled
<1> QED
  BY <1>1, Invariance, PTL

\* The block before a reservation always exists, which is what
\* _calculateTimestampForReservedBlock needs to compute a timestamp.
THEOREM BlockBeforeReservation == BlockchainSpec => []ReservationsFollowABlock
<1>1. Inv => ReservationsFollowABlock
  BY DEF Inv, Sound, ReservationsFollowABlock, Shape, Follow, Numbered
<1> QED
  BY <1>1, Invariance, PTL

\* Both together: each number of the chain is a block, or reserved behind the block from which
\* it can be made.
THEOREM NumbersStayTaken == BlockchainSpec => []NumbersAreTaken
BY NothingLostOrMadeTwice, BlockBeforeReservation, PTL DEF NumbersAreTaken


\* What is found by number, hash or transaction is the same, and total difficulties add up
\* through reservations, for chains and reservations of any length.
THEOREM IndexesStayInAgreement == BlockchainSpec => []IndexesAgree
BY Invariance, MapsInvariance, MapsDoAgree, DifficultiesDoAddUp, PTL DEF IndexesAgree

\* Both together: the maps and the reservations hold one chain, and each of its blocks once.
THEOREM MapsHoldOneChainAlways == BlockchainSpec => []MapsHoldOneChain
BY NumbersStayTaken, IndexesStayInAgreement, PTL DEF MapsHoldOneChain

\* In whatever order blocks are read, and wherever that splits a reservation, readers see a
\* chain that was filled when it grew.
THEOREM ReadsAsAChain == BlockchainSpec => ImplementsChain
<1>1. BlockchainInit => Promised!Init
  BY SeenInit
<1>2. Inv /\ Inv' /\ [BlockchainNext]_blockchainVars => [Promised!Next]_VisibleChain
  BY SeenStep
<1> QED
  BY <1>1, <1>2, InvInit, InvStep, PTL DEF BlockchainSpec, ImplementsChain, Promised!Spec

=============================================================================
