---------------------------- MODULE AnswersProofs ----------------------------
(***************************************************************************)
(* What callers are told stays true: the answers that the client of a fork *)
(* keeps, the worlds that fixtures bring back, the amounts of gas that are *)
(* estimated, and the news that filters are given.                         *)
(***************************************************************************)
EXTENDS JsonRpcClient, Fixtures, GasEstimation, Filters, SequenceTheorems, FiniteSetTheorems, TLAPS

-----------------------------------------------------------------------------
(* The client of the remote chain.                                         *)

RemoteBlock == [name : Nat, tx : BOOLEAN]

\* An answer that is kept is what would be answered now, and of a block too deep to go.
Settled(request, answer) == answer = Asked(request) /\ CanBeCached(answer.blockNumber)

OneTransaction == \A i, j \in DOMAIN chain : chain[i].tx /\ chain[j].tx => i = j

CacheIsSettled ==
    /\ DOMAIN cache \subseteq Requests
    /\ \A request \in DOMAIN cache : Settled(request, cache[request])

DiskIsSettled ==
    /\ DOMAIN disk \subseteq Requests
    /\ \A request \in DOMAIN disk : disk[request] = Truncated \/ Settled(request, disk[request])

\* An answer on its way may be out of date, but not if it is one that will be kept.
SentIsSettled ==
    sent # NothingSent =>
        /\ sent.request \in Requests /\ sent.answer.blockNumber \in Nat
        /\ CanBeCached(sent.answer.blockNumber) => Settled(sent.request, sent.answer)

\* The inductive invariant.
ClientInv ==
    /\ chain \in Seq(RemoteBlock) /\ names \in Nat
    /\ latestBlockNumberOnCreation \in 1..Len(chain) /\ Len(chain) <= MaxHeight
    /\ OneTransaction
    /\ CacheIsSettled /\ DiskIsSettled /\ SentIsSettled

\* What the remote chain may do: blocks deep enough stay, and it never gets shorter.
DeepBlocksStay ==
    /\ Len(chain') >= Len(chain)
    /\ \A n \in 1 .. latestBlockNumberOnCreation - MaxReorg : chain'[n] = chain[n]

LEMMA ChainIsTyped ==
    ASSUME ClientInv
    PROVE  /\ Len(chain) \in Nat /\ DOMAIN chain = 1..Len(chain) /\ Len(chain) >= 1
           /\ \A n \in 1..Len(chain) : chain[n] \in RemoteBlock
           /\ latestBlockNumberOnCreation \in Nat /\ latestBlockNumberOnCreation <= Len(chain)
           /\ MaxReorg \in Nat /\ MaxReorg >= 1
<1>1. chain \in Seq(RemoteBlock) /\ latestBlockNumberOnCreation \in 1..Len(chain)
  BY DEF ClientInv
<1>2. Len(chain) \in Nat /\ DOMAIN chain = 1..Len(chain)
  BY <1>1, LenProperties
<1>3. \A n \in 1..Len(chain) : chain[n] \in RemoteBlock
  BY <1>1, ElementOfSeq
<1> QED
  BY <1>1, <1>2, <1>3, MaxReorgAssumption

LEMMA PlaceIsInChain == Places # {} => Place \in Places
BY DEF Place

\* The block that an answer depends on is numbered.
LEMMA AnswersHaveNumbers ==
    ASSUME ClientInv, NEW request \in Requests
    PROVE  Asked(request).blockNumber \in Nat
<1>1. request.of \in Nat
  BY HeightAssumption DEF Requests
<1>2. Places # {} => Place \in Nat
  BY PlaceIsInChain, ChainIsTyped DEF Places
<1> QED
  BY <1>1, <1>2, ChainIsTyped DEF Asked, Answer, NotFound

\* However the chain changes, what can be kept of its answers stays true.
LEMMA SettledStays ==
    ASSUME ClientInv, DeepBlocksStay, chain' \in Seq(RemoteBlock), OneTransaction'
    PROVE  \A request \in Requests :
              CanBeCached(Asked(request).blockNumber) => Asked(request)' = Asked(request)
<1> SUFFICES ASSUME NEW request \in Requests, CanBeCached(Asked(request).blockNumber)
             PROVE  Asked(request)' = Asked(request)
  OBVIOUS
<1> DEFINE deepest == latestBlockNumberOnCreation - MaxReorg
<1>1. /\ Asked(request).blockNumber \in Nat
      /\ Asked(request).blockNumber >= 1 /\ Asked(request).blockNumber <= deepest
  BY AnswersHaveNumbers, ChainIsTyped DEF CanBeCached, CanBeReorgedOut, NotFound
<1>2. deepest \in Int /\ deepest < Len(chain) /\ Len(chain) \in Nat
  BY ChainIsTyped
<1>3. Len(chain') \in Nat /\ Len(chain') >= Len(chain) /\ DOMAIN chain' = 1..Len(chain')
  BY LenProperties DEF DeepBlocksStay
<1>4. \A n \in 1..deepest : chain'[n] = chain[n]
  BY DEF DeepBlocksStay
<1> HIDE DEF deepest
<1>5. CASE request.method = "eth_getStorageAt"
  <2>1. Asked(request).blockNumber = request.of
    BY <1>5 DEF Asked, Answer
  <2>2. chain'[request.of] = chain[request.of] /\ request.of <= Len(chain) /\ request.of <= Len(chain')
    BY <1>1, <1>2, <1>3, <1>4, <2>1
  <2> QED
    BY <1>5, <2>2 DEF Asked, Answer
<1>6. CASE request.method = "eth_getBlockByNumber"
  <2>1. Asked(request).blockNumber = request.of
    BY <1>1, <1>6 DEF Asked, Answer, NotFound
  <2>2. chain'[request.of] = chain[request.of] /\ request.of <= Len(chain) /\ request.of <= Len(chain')
    BY <1>1, <1>2, <1>3, <1>4, <2>1
  <2> QED
    BY <1>6, <2>2 DEF Asked, Answer
<1>7. CASE request.method = "eth_getTransactionByHash"
  <2> DEFINE place == Place
  <2>1. Places # {} /\ Asked(request) = Answer(chain[place].name, place)
    BY <1>1, <1>7 DEF Asked, Answer, NotFound
  <2>2. place \in Places /\ Asked(request).blockNumber = place
    BY <2>1, PlaceIsInChain DEF Answer
  <2>3. place \in 1..deepest /\ place \in DOMAIN chain /\ chain[place].tx
    BY <1>1, <2>2 DEF Places
  <2>4. Places' = {place}
    BY <1>2, <1>3, <1>4, <2>3 DEF Places, OneTransaction
  <2>5. Place' = place
    BY <2>4 DEF Place
  <2>6. Asked(request)' = Answer(chain'[place].name, place)
    BY <1>7, <2>4, <2>5 DEF Asked, Answer
  <2> QED
    BY <1>4, <2>1, <2>3, <2>6
<1>8. CASE request.method = "eth_blockNumber"
  BY <1>1, <1>2, <1>8 DEF Asked, Answer
<1>9. CASE request.method = "eth_feeHistory"
  BY <1>1, <1>2, <1>9 DEF Asked, Answer
<1> QED
  BY <1>5, <1>6, <1>7, <1>8, <1>9 DEF Requests

LEMMA AnswersChangeWithChain ==
    UNCHANGED chain => \A request \in Requests : Asked(request)' = Asked(request)
<1> SUFFICES ASSUME UNCHANGED chain, NEW request \in Requests
             PROVE  Asked(request)' = Asked(request)
  OBVIOUS
<1>1. Place' = Place /\ Places' = Places
  BY DEF Place, Places
<1> QED
  BY <1>1 DEF Asked

\* What was settled is, after a step that leaves the chain or only changes its last blocks,
\* and that leaves the client or creates another.
LEMMA SettledAfter ==
    ASSUME ClientInv,
           \/ DeepBlocksStay /\ chain' \in Seq(RemoteBlock) /\ OneTransaction'
              /\ latestBlockNumberOnCreation' = latestBlockNumberOnCreation
           \/ UNCHANGED chain /\ latestBlockNumberOnCreation' \in 1..Len(chain)
              /\ latestBlockNumberOnCreation' >= latestBlockNumberOnCreation
    PROVE  \A request \in Requests : \A answer : Settled(request, answer) => Settled(request, answer)'
<1> SUFFICES ASSUME NEW request \in Requests, NEW answer, Settled(request, answer)
             PROVE  Settled(request, answer)'
  OBVIOUS
<1>1. answer = Asked(request) /\ CanBeCached(Asked(request).blockNumber)
  BY DEF Settled
<1>2. answer = Asked(request)'
  BY <1>1, SettledStays, AnswersChangeWithChain
<1>3. answer.blockNumber \in Nat
  BY <1>1, AnswersHaveNumbers
<1>4. latestBlockNumberOnCreation' \in Nat /\ latestBlockNumberOnCreation' >= latestBlockNumberOnCreation
  BY ChainIsTyped
<1>5. answer.blockNumber # NotFound /\ ~ (answer.blockNumber > latestBlockNumberOnCreation - MaxReorg)
  BY <1>1 DEF CanBeCached, CanBeReorgedOut
<1>6. ~ (answer.blockNumber > latestBlockNumberOnCreation' - MaxReorg)
  BY <1>3, <1>4, <1>5, ChainIsTyped
<1> QED
  BY <1>2, <1>5, <1>6 DEF Settled, CanBeCached, CanBeReorgedOut, NotFound

LEMMA ClientStart == ClientInit => ClientInv
<1> SUFFICES ASSUME ClientInit PROVE ClientInv
  OBVIOUS
<1>1. PICK tx \in BOOLEAN : chain = <<[name |-> 1, tx |-> tx]>>
  BY DEF ClientInit
<1>2. [name |-> 1, tx |-> tx] \in RemoteBlock
  BY DEF RemoteBlock
<1>3. chain \in Seq(RemoteBlock) /\ Len(chain) = 1 /\ DOMAIN chain = 1..1
  BY <1>1, <1>2
<1>4. OneTransaction
  BY <1>3 DEF OneTransaction
<1> QED
  BY <1>3, <1>4, HeightAssumption DEF ClientInit, ClientInv, CacheIsSettled, DiskIsSettled, SentIsSettled

LEMMA SettledInTheSameChain ==
    UNCHANGED <<chain, latestBlockNumberOnCreation>> =>
        \A request \in Requests : \A answer : Settled(request, answer)' <=> Settled(request, answer)
BY AnswersChangeWithChain DEF Settled, CanBeCached, CanBeReorgedOut

LEMMA ReadFileStep ==
    ASSUME ClientInv, NEW request \in Requests, ReadFile(request)
    PROVE  ClientInv'
<1>1. /\ chain' = chain /\ names' = names /\ disk' = disk /\ sent' = sent
      /\ latestBlockNumberOnCreation' = latestBlockNumberOnCreation
      /\ request \in DOMAIN disk /\ disk[request] # Truncated
      /\ cache' = Stored(cache, request, disk[request])
  BY DEF ReadFile
<1>2. \A r \in Requests : \A answer : Settled(r, answer)' <=> Settled(r, answer)
  BY <1>1, SettledInTheSameChain
<1>3. Settled(request, disk[request])
  BY <1>1 DEF ClientInv, DiskIsSettled
<1>4. CacheIsSettled'
  BY <1>1, <1>2, <1>3 DEF ClientInv, CacheIsSettled, Stored
<1>5. DiskIsSettled'
  BY <1>1, <1>2 DEF ClientInv, DiskIsSettled, Truncated
<1>6. SentIsSettled'
  BY <1>1, <1>2 DEF ClientInv, SentIsSettled, NothingSent, CanBeCached, CanBeReorgedOut
<1> QED
  BY <1>1, <1>4, <1>5, <1>6 DEF ClientInv, OneTransaction

LEMMA SendStep ==
    ASSUME ClientInv, NEW request \in Requests, Send(request)
    PROVE  ClientInv'
<1>1. /\ chain' = chain /\ names' = names /\ disk' = disk /\ cache' = cache
      /\ latestBlockNumberOnCreation' = latestBlockNumberOnCreation
      /\ sent' = [request |-> request, answer |-> Asked(request)]
  BY DEF Send
<1>2. \A r \in Requests : \A answer : Settled(r, answer)' <=> Settled(r, answer)
  BY <1>1, SettledInTheSameChain
<1>3. CacheIsSettled' /\ DiskIsSettled'
  BY <1>1, <1>2 DEF ClientInv, CacheIsSettled, DiskIsSettled, Truncated
<1>4. Asked(request).blockNumber \in Nat
  BY AnswersHaveNumbers
<1>5. CanBeCached(Asked(request).blockNumber) => Settled(request, Asked(request))
  BY DEF Settled
<1>7. SentIsSettled'
  BY <1>1, <1>2, <1>4, <1>5 DEF SentIsSettled, CanBeCached, CanBeReorgedOut
<1> QED
  BY <1>1, <1>3, <1>7 DEF ClientInv, OneTransaction

\* The answer that comes is kept if it is settled, whatever happened to the chain meanwhile.
LEMMA ReceiveStep ==
    ASSUME ClientInv, Receive
    PROVE  ClientInv'
<1>1. /\ chain' = chain /\ names' = names /\ sent' = NothingSent /\ sent # NothingSent
      /\ latestBlockNumberOnCreation' = latestBlockNumberOnCreation
      /\ sent.request \in Requests
  BY DEF Receive, ClientInv, SentIsSettled
<1>2. \A r \in Requests : \A answer : Settled(r, answer)' <=> Settled(r, answer)
  BY <1>1, SettledInTheSameChain
<1>3. SentIsSettled'
  BY <1>1 DEF SentIsSettled, NothingSent
<1>4. CASE CanBeCached(sent.answer.blockNumber)
  <2>1. Settled(sent.request, sent.answer)
    BY <1>1, <1>4 DEF ClientInv, SentIsSettled
  <2>2. /\ cache' = Stored(cache, sent.request, sent.answer)
        /\ disk' = disk \/ disk' = Stored(disk, sent.request, sent.answer)
    BY <1>4 DEF Receive
  <2>3. CacheIsSettled'
    BY <1>1, <1>2, <2>1, <2>2 DEF ClientInv, CacheIsSettled, Stored
  <2>4. DiskIsSettled'
    <3>1. CASE disk' = disk
      BY <1>2, <3>1 DEF ClientInv, DiskIsSettled, Truncated
    <3>2. CASE disk' = Stored(disk, sent.request, sent.answer)
      BY <1>1, <1>2, <2>1, <3>2 DEF ClientInv, DiskIsSettled, Stored, Truncated
    <3> QED
      BY <2>2, <3>1, <3>2
  <2> QED
    BY <1>1, <1>3, <2>3, <2>4 DEF ClientInv, OneTransaction
<1>5. CASE ~ CanBeCached(sent.answer.blockNumber)
  <2>1. cache' = cache /\ disk' = disk
    BY <1>5 DEF Receive
  <2>2. CacheIsSettled' /\ DiskIsSettled'
    BY <1>2, <2>1 DEF ClientInv, CacheIsSettled, DiskIsSettled, Truncated
  <2> QED
    BY <1>1, <1>3, <2>2 DEF ClientInv, OneTransaction
<1> QED
  BY <1>4, <1>5

LEMMA RequestFailsStep ==
    ASSUME ClientInv, RequestFails
    PROVE  ClientInv'
<1>1. /\ chain' = chain /\ names' = names /\ sent' = NothingSent /\ disk' = disk /\ cache' = cache
      /\ latestBlockNumberOnCreation' = latestBlockNumberOnCreation
  BY DEF RequestFails
<1>2. \A r \in Requests : \A answer : Settled(r, answer)' <=> Settled(r, answer)
  BY <1>1, SettledInTheSameChain
<1>3. CacheIsSettled' /\ DiskIsSettled' /\ SentIsSettled'
  BY <1>1, <1>2 DEF ClientInv, CacheIsSettled, DiskIsSettled, SentIsSettled, Truncated, NothingSent
<1> QED
  BY <1>1, <1>3 DEF ClientInv, OneTransaction

\* Another client begins with what the files say, and some may not be whole.
LEMMA CreateStep ==
    ASSUME ClientInv, Create, chain' = chain, names' = names,
           \/ disk' = disk
           \/ \E request \in Requests : disk' = Stored(disk, request, Truncated)
    PROVE  ClientInv'
<1>1. /\ sent' = NothingSent /\ DOMAIN cache' = {}
      /\ latestBlockNumberOnCreation' = Len(chain)
  BY DEF Create
<1>2. latestBlockNumberOnCreation' \in 1..Len(chain) /\ latestBlockNumberOnCreation' >= latestBlockNumberOnCreation
  BY <1>1, ChainIsTyped
<1>3. \A r \in Requests : \A answer : Settled(r, answer) => Settled(r, answer)'
  BY <1>2, SettledAfter
<1>4. DiskIsSettled'
  <2>1. CASE disk' = disk
    BY <1>3, <2>1 DEF ClientInv, DiskIsSettled, Truncated
  <2>2. ASSUME NEW request \in Requests, disk' = Stored(disk, request, Truncated)
        PROVE  DiskIsSettled'
    BY <1>3, <2>2 DEF ClientInv, DiskIsSettled, Stored, Truncated
  <2> QED
    BY <2>1, <2>2
<1>5. CacheIsSettled' /\ SentIsSettled'
  BY <1>1 DEF CacheIsSettled, SentIsSettled, NothingSent
<1> QED
  BY <1>1, <1>2, <1>4, <1>5 DEF ClientInv, OneTransaction

\* The remote chain changes.
LEMMA ChainStep ==
    ASSUME ClientInv, DeepBlocksStay, chain' \in Seq(RemoteBlock), OneTransaction',
           Len(chain') <= MaxHeight, names' \in Nat,
           UNCHANGED <<latestBlockNumberOnCreation, cache, disk, sent>>
    PROVE  ClientInv'
<1>1. latestBlockNumberOnCreation' \in 1..Len(chain')
  <2>1. latestBlockNumberOnCreation \in Nat /\ latestBlockNumberOnCreation >= 1
        /\ latestBlockNumberOnCreation <= Len(chain) /\ Len(chain) \in Nat
    BY ChainIsTyped DEF ClientInv
  <2>2. Len(chain') \in Nat /\ Len(chain') >= Len(chain)
    BY LenProperties DEF DeepBlocksStay
  <2> QED
    BY <2>1, <2>2
<1>2. \A r \in Requests : \A answer : Settled(r, answer) => Settled(r, answer)'
  BY SettledAfter
<1>3. CacheIsSettled' /\ DiskIsSettled'
  BY <1>2 DEF ClientInv, CacheIsSettled, DiskIsSettled, Truncated
<1>4. SentIsSettled'
  BY <1>2 DEF ClientInv, SentIsSettled, NothingSent, CanBeCached, CanBeReorgedOut
<1> QED
  BY <1>1, <1>3, <1>4 DEF ClientInv

LEMMA GrowStep ==
    ASSUME ClientInv, Grow
    PROVE  ClientInv'
<1>1. PICK tx \in {FALSE, Places = {}} : chain' = Append(chain, NewBlock(tx))
  BY DEF Grow
<1>2. /\ Len(chain) < MaxHeight /\ names' = names + 1
      /\ UNCHANGED <<latestBlockNumberOnCreation, cache, disk, sent>>
  BY DEF Grow
<1>3. chain \in Seq(RemoteBlock) /\ names \in Nat /\ NewBlock(tx) \in RemoteBlock
  <2>1. tx \in BOOLEAN
    BY <1>1, Zenon
  <2> QED
    BY <2>1 DEF ClientInv, NewBlock, RemoteBlock
<1>4. /\ chain' \in Seq(RemoteBlock) /\ Len(chain') = Len(chain) + 1
      /\ \A n \in 1..Len(chain) : chain'[n] = chain[n]
      /\ chain'[Len(chain) + 1] = NewBlock(tx)
  BY <1>1, <1>3, AppendProperties
<1>5. DOMAIN chain' = 1..Len(chain) + 1
  BY <1>4, LenProperties
<1>6. OneTransaction'
  <2>1. tx => \A n \in 1..Len(chain) : ~ chain[n].tx
    BY ChainIsTyped DEF Places
  <2>2. NewBlock(tx).tx = tx
    BY DEF NewBlock
  <2>3. \A i, j \in 1..Len(chain) : chain[i].tx /\ chain[j].tx => i = j
    BY ChainIsTyped DEF ClientInv, OneTransaction
  <2> SUFFICES ASSUME NEW i \in 1..Len(chain) + 1, NEW j \in 1..Len(chain) + 1, chain'[i].tx, chain'[j].tx
               PROVE  i = j
    BY <1>5 DEF OneTransaction
  <2> QED
    BY <1>4, <2>1, <2>2, <2>3, ChainIsTyped
<1>7. DeepBlocksStay
  BY <1>4, ChainIsTyped DEF DeepBlocksStay
<1> QED
  BY <1>2, <1>3, <1>4, <1>6, <1>7, ChainIsTyped, HeightAssumption, ChainStep

LEMMA ReorganiseStep ==
    ASSUME ClientInv, NEW depth \in 1..MaxReorg, Reorganise(depth)
    PROVE  ClientInv'
<1> DEFINE kept == Len(chain) - depth
           rest == SubSeq(chain, 1, kept)
<1>1. /\ depth \in Nat /\ depth >= 1 /\ depth <= MaxReorg /\ kept \in Nat /\ kept >= 1
      /\ Len(chain) = kept + depth
  <2>1. depth <= MaxReorg /\ kept >= 1
    BY DEF Reorganise
  <2> QED
    BY <2>1, ChainIsTyped
<1>2. PICK place \in kept..Len(chain) :
        /\ \A n \in 1..kept : chain[n].tx => place = kept
        /\ chain' = rest \o [i \in 1..depth |-> [name |-> names + i, tx |-> kept + i = place]]
  BY DEF Reorganise
<1> DEFINE new == [i \in 1..depth |-> [name |-> names + i, tx |-> kept + i = place]]
<1>3. /\ names' = names + depth /\ names \in Nat
      /\ UNCHANGED <<latestBlockNumberOnCreation, cache, disk, sent>>
  BY DEF Reorganise, ClientInv
<1>4. /\ rest \in Seq(RemoteBlock) /\ Len(rest) = kept
      /\ \A n \in 1..kept : rest[n] = chain[n]
  <2>1. \A n \in 1..kept : chain[n] \in RemoteBlock
    BY <1>1, ChainIsTyped
  <2> HIDE DEF kept
  <2> QED
    BY <1>1, <2>1, SubSeqProperties
<1>5. new \in Seq(RemoteBlock) /\ Len(new) = depth
  <2>1. \A i \in 1..depth : new[i] \in RemoteBlock
    BY <1>1, <1>3 DEF RemoteBlock
  <2>2. new \in [1..depth -> RemoteBlock]
    BY <2>1
  <2> HIDE DEF new
  <2> QED
    BY <1>1, <2>2
<1>6. \A i \in 1..depth : new[i].tx <=> kept + i = place
  OBVIOUS
<1>7. chain' = rest \o new
  BY <1>2
<1> HIDE DEF kept, rest, new
<1>8. /\ chain' \in Seq(RemoteBlock) /\ Len(chain') = Len(chain)
      /\ \A n \in 1..kept : chain'[n] = chain[n]
      /\ \A n \in kept + 1..Len(chain) : chain'[n] = new[n - kept]
  <2>1. /\ rest \o new \in Seq(RemoteBlock) /\ Len(rest \o new) = kept + depth
        /\ \A n \in 1..kept + depth : (rest \o new)[n] = IF n <= kept THEN rest[n] ELSE new[n - kept]
    BY <1>4, <1>5, ConcatProperties
  <2> QED
    BY <1>1, <1>4, <1>7, <2>1
<1>9. DOMAIN chain' = 1..Len(chain)
  BY <1>8, LenProperties
<1>10. OneTransaction'
  <2>1. \A i, j \in 1..kept : chain[i].tx /\ chain[j].tx => i = j
    BY <1>1, ChainIsTyped DEF ClientInv, OneTransaction
  <2>2. \A n \in kept + 1..Len(chain) : chain'[n].tx <=> n = place
    <3> SUFFICES ASSUME NEW n \in kept + 1..Len(chain) PROVE chain'[n].tx <=> n = place
      OBVIOUS
    <3>1. n - kept \in 1..depth /\ kept + (n - kept) = n
      BY <1>1
    <3> QED
      BY <1>6, <1>8, <3>1
  <2>3. \A n \in 1..kept : chain'[n].tx => place = kept
    BY <1>2, <1>8
  <2> SUFFICES ASSUME NEW i \in 1..Len(chain), NEW j \in 1..Len(chain), chain'[i].tx, chain'[j].tx
               PROVE  i = j
    BY <1>9 DEF OneTransaction
  <2>4. i \in 1..kept \/ i \in kept + 1..Len(chain)
    BY <1>1
  <2>5. j \in 1..kept \/ j \in kept + 1..Len(chain)
    BY <1>1
  <2> QED
    BY <1>1, <1>8, <2>1, <2>2, <2>3, <2>4, <2>5
<1>11. DeepBlocksStay
  <2>1. latestBlockNumberOnCreation - MaxReorg <= kept
    BY <1>1, ChainIsTyped
  <2> QED
    BY <1>1, <1>8, <2>1, ChainIsTyped DEF DeepBlocksStay
<1>12. Len(chain') <= MaxHeight /\ names' \in Nat
  BY <1>1, <1>3, <1>8 DEF ClientInv
<1> QED
  BY <1>3, <1>8, <1>10, <1>11, <1>12, ChainStep

LEMMA ClientStep == ClientInv /\ [ClientNext]_clientVars => ClientInv'
<1> SUFFICES ASSUME ClientInv, [ClientNext]_clientVars PROVE ClientInv'
  OBVIOUS
<1>1. CASE UNCHANGED clientVars
  <2>1. \A r \in Requests : \A answer : Settled(r, answer)' <=> Settled(r, answer)
    BY <1>1, SettledInTheSameChain DEF clientVars
  <2>2. CacheIsSettled' /\ DiskIsSettled' /\ SentIsSettled'
    BY <1>1, <2>1 DEF clientVars, ClientInv, CacheIsSettled, DiskIsSettled, SentIsSettled, Truncated,
       NothingSent, CanBeCached, CanBeReorgedOut
  <2> QED
    BY <1>1, <2>2 DEF clientVars, ClientInv, OneTransaction
<1>2. ASSUME NEW request \in Requests, ReadFile(request) \/ Send(request) PROVE ClientInv'
  BY <1>2, ReadFileStep, SendStep
<1>3. CASE Receive \/ RequestFails
  BY <1>3, ReceiveStep, RequestFailsStep
<1>4. CASE StopWhileWriting
  <2>1. sent.request \in Requests
    BY <1>4 DEF StopWhileWriting, ClientInv, SentIsSettled
  <2> QED
    BY <1>4, <2>1, CreateStep DEF StopWhileWriting
<1>5. CASE Restart
  BY <1>5, CreateStep DEF Restart
<1>6. CASE Grow
  BY <1>6, GrowStep
<1>7. ASSUME NEW depth \in 1..MaxReorg, Reorganise(depth) PROVE ClientInv'
  BY <1>7, ReorganiseStep
<1> QED
  BY <1>1, <1>2, <1>3, <1>4, <1>5, <1>6, <1>7 DEF ClientNext

\* However the remote chain grows and is reorganised, and whenever the node is restarted or
\* stops while it writes a file, what its client has kept is what the remote node answers.
THEOREM KeptAnswersStayTrue == ClientSpec => []AnswersStayTrue
<1>1. ClientInv => AnswersStayTrue
  BY DEF ClientInv, CacheIsSettled, DiskIsSettled, Settled, AnswersStayTrue
<1> QED
  BY <1>1, ClientStart, ClientStep, PTL DEF ClientSpec

\* Only known requests are kept, and the client was created at a block the chain has.
THEOREM ClientTypeCorrect == ClientSpec => []ClientTypeOK
<1>1. ClientInv => ClientTypeOK
  BY ChainIsTyped, HeightAssumption DEF ClientInv, CacheIsSettled, DiskIsSettled, ClientTypeOK
<1> QED
  BY <1>1, ClientStart, ClientStep, PTL DEF ClientSpec

-----------------------------------------------------------------------------
(* Fixtures.                                                               *)

NodeSnapshot == [id : Nat, world : Nat]
FixtureSnapshot == [fixture : Functions, snapshotId : Nat, id : Nat, data : Nat]

\* The snapshots of the node are numbered in the order in which they were taken.
InOrder ==
    /\ \A i \in DOMAIN nodeSnapshots : nodeSnapshots[i].id < nextSnapshotId
    /\ \A i, j \in DOMAIN nodeSnapshots : i < j => nodeSnapshots[i].id < nodeSnapshots[j].id

\* A fixture has one snapshot, or runs once, or neither.
OnePerFixture ==
    /\ \A s1, s2 \in snapshots : s1.fixture = s2.fixture => s1 = s2
    /\ \A i, j \in DOMAIN running : running[i] = running[j] => i = j
    /\ \A i \in DOMAIN running : ~ Known(running[i])

\* While the node is the same, restoring leaves the order of the fixtures' snapshots as it
\* was: the ids that are compared and those that are used agree on it, and those that are
\* used are of the right worlds.
SameOrder ==
    /\ \A s \in snapshots : s.snapshotId <= s.id /\ s.id < nextSnapshotId
    /\ \A s1, s2 \in snapshots :
        /\ s1.snapshotId < s2.snapshotId => s1.id < s2.id
        /\ s1.snapshotId = s2.snapshotId => s1 = s2
    /\ \A s \in snapshots : \A i \in DOMAIN nodeSnapshots :
        nodeSnapshots[i].id = s.id => nodeSnapshots[i].world = s.data

\* The inductive invariant.
FixturesInv ==
    /\ world \in Nat /\ worlds \in Nat /\ nextSnapshotId \in Nat /\ resets \in Nat
    /\ nodeSnapshots \in Seq(NodeSnapshot) /\ snapshots \subseteq FixtureSnapshot
    /\ running \in Seq(Functions) /\ wentBack \in BOOLEAN
    /\ InOrder /\ OnePerFixture
    /\ ~ wentBack => resets = 0
    /\ resets = 0 => SameOrder
    /\ FixturesAreRestored

\* A snapshot on top of those up to a place is numbered as the latest.
LEMMA SnapshotLemma ==
    ASSUME FixturesInv, NEW left \in Seq(NodeSnapshot), NEW length \in 0 .. Len(nodeSnapshots),
           Len(left) = length, \A i \in 1 .. length : left[i] = nodeSnapshots[i],
           Snapshot(left), world' \in Nat
    PROVE  /\ nodeSnapshots' \in Seq(NodeSnapshot) /\ nextSnapshotId' = nextSnapshotId + 1
           /\ DOMAIN nodeSnapshots' = 1 .. length + 1
           /\ \A i \in 1 .. length : nodeSnapshots'[i] = nodeSnapshots[i]
           /\ nodeSnapshots'[length + 1] = [id |-> nextSnapshotId, world |-> world']
           /\ InOrder'
<1>1. length \in Nat /\ length <= Len(nodeSnapshots) /\ nextSnapshotId \in Nat
      /\ nodeSnapshots \in Seq(NodeSnapshot) /\ DOMAIN nodeSnapshots = 1 .. Len(nodeSnapshots)
      /\ Len(nodeSnapshots) \in Nat
  BY LenProperties DEF FixturesInv
<1> DEFINE new == [id |-> nextSnapshotId, world |-> world']
<1>2. nodeSnapshots' = Append(left, new) /\ nextSnapshotId' = nextSnapshotId + 1
  BY DEF Snapshot
<1>3. new \in NodeSnapshot /\ new.id = nextSnapshotId
  BY <1>1 DEF NodeSnapshot
<1> HIDE DEF new
<1>4. /\ nodeSnapshots' \in Seq(NodeSnapshot) /\ Len(nodeSnapshots') = length + 1
      /\ \A i \in 1 .. length : nodeSnapshots'[i] = nodeSnapshots[i]
      /\ nodeSnapshots'[length + 1] = new
  BY <1>2, <1>3, AppendProperties
<1>5. DOMAIN nodeSnapshots' = 1 .. length + 1
  BY <1>4, LenProperties
<1>6. \A i \in 1 .. length : nodeSnapshots[i].id \in Nat /\ nodeSnapshots[i].id < nextSnapshotId
  <2>1. \A i \in 1 .. Len(nodeSnapshots) : nodeSnapshots[i] \in NodeSnapshot
    BY <1>1, ElementOfSeq
  <2>2. \A i \in 1 .. Len(nodeSnapshots) : nodeSnapshots[i].id < nextSnapshotId
    BY <1>1 DEF FixturesInv, InOrder
  <2> QED
    BY <1>1, <2>1, <2>2 DEF NodeSnapshot
<1>7. \A i, j \in 1 .. length : i < j => nodeSnapshots[i].id < nodeSnapshots[j].id
  BY <1>1 DEF FixturesInv, InOrder
<1>8. \A i \in 1 .. length + 1 : nodeSnapshots'[i].id < nextSnapshotId'
  BY <1>1, <1>2, <1>3, <1>4, <1>6
<1>9. \A i, j \in 1 .. length + 1 : i < j => nodeSnapshots'[i].id < nodeSnapshots'[j].id
  <2> TAKE i \in 1 .. length + 1, j \in 1 .. length + 1
  <2> HAVE i < j
  <2>1. i \in 1 .. length /\ nodeSnapshots'[i] = nodeSnapshots[i]
    BY <1>1, <1>4
  <2>2. CASE j \in 1 .. length
    BY <1>4, <1>7, <2>1, <2>2
  <2>3. CASE j = length + 1
    BY <1>3, <1>4, <1>6, <2>1, <2>3
  <2> QED
    BY <1>1, <2>2, <2>3
<1> QED
  BY <1>2, <1>4, <1>5, <1>8, <1>9 DEF InOrder, new

\* The same on top of all.
LEMMA SnapshotOfAll ==
    ASSUME FixturesInv, Snapshot(nodeSnapshots), world' \in Nat
    PROVE  /\ nodeSnapshots' \in Seq(NodeSnapshot) /\ nextSnapshotId' = nextSnapshotId + 1
           /\ DOMAIN nodeSnapshots = 1 .. Len(nodeSnapshots) /\ Len(nodeSnapshots) \in Nat
           /\ DOMAIN nodeSnapshots' = 1 .. Len(nodeSnapshots) + 1
           /\ \A i \in 1 .. Len(nodeSnapshots) : nodeSnapshots'[i] = nodeSnapshots[i]
           /\ nodeSnapshots'[Len(nodeSnapshots) + 1] = [id |-> nextSnapshotId, world |-> world']
           /\ InOrder'
<1>1. nodeSnapshots \in Seq(NodeSnapshot)
  BY DEF FixturesInv
<1>2. Len(nodeSnapshots) \in Nat /\ DOMAIN nodeSnapshots = 1 .. Len(nodeSnapshots)
  BY <1>1, LenProperties
<1> QED
  BY <1>1, <1>2, SnapshotLemma

\* restore goes back to where the snapshot was taken, and takes another in its place.
LEMMA RestoreLemma ==
    ASSUME FixturesInv, NEW id, Restore(id)
    PROVE  \E place \in DOMAIN nodeSnapshots :
              /\ nodeSnapshots[place].id = id
              /\ world' = nodeSnapshots[place].world /\ world' \in Nat
              /\ nodeSnapshots' \in Seq(NodeSnapshot) /\ nextSnapshotId' = nextSnapshotId + 1
              /\ DOMAIN nodeSnapshots' = 1 .. place
              /\ \A i \in 1 .. place - 1 : nodeSnapshots'[i] = nodeSnapshots[i]
              /\ nodeSnapshots'[place] = [id |-> nextSnapshotId, world |-> world']
              /\ InOrder' /\ worlds' = worlds /\ resets' = resets
<1>1. PICK place \in DOMAIN nodeSnapshots :
        /\ nodeSnapshots[place].id = id
        /\ world' = nodeSnapshots[place].world
        /\ Snapshot(SubSeq(nodeSnapshots, 1, place - 1))
  BY DEF Restore
<1>2. /\ nodeSnapshots \in Seq(NodeSnapshot) /\ DOMAIN nodeSnapshots = 1 .. Len(nodeSnapshots)
      /\ Len(nodeSnapshots) \in Nat
      /\ \A i \in 1 .. Len(nodeSnapshots) : nodeSnapshots[i] \in NodeSnapshot
  BY LenProperties, ElementOfSeq DEF FixturesInv
<1>3. world' \in Nat
  BY <1>1, <1>2 DEF NodeSnapshot
<1>4. place \in Nat /\ place >= 1 /\ place <= Len(nodeSnapshots)
  BY <1>2
<1> DEFINE left == SubSeq(nodeSnapshots, 1, place - 1)
<1>5. /\ left \in Seq(NodeSnapshot) /\ Len(left) = place - 1
      /\ \A i \in 1 .. place - 1 : left[i] = nodeSnapshots[i]
  <2>1. \A i \in 1 .. place - 1 : nodeSnapshots[i] \in NodeSnapshot
    BY <1>2, <1>4
  <2> QED
    BY <1>4, <2>1, SubSeqProperties
<1>6. Snapshot(left)
  BY <1>1
<1> HIDE DEF left
<1> DEFINE length == place - 1
<1>7. length \in 0 .. Len(nodeSnapshots) /\ Len(left) = length /\ length + 1 = place
  BY <1>4, <1>5
<1>8. \A i \in 1 .. length : left[i] = nodeSnapshots[i]
  BY <1>5
<1> HIDE DEF length
<1>9. /\ nodeSnapshots' \in Seq(NodeSnapshot) /\ nextSnapshotId' = nextSnapshotId + 1
      /\ DOMAIN nodeSnapshots' = 1 .. length + 1
      /\ \A i \in 1 .. length : nodeSnapshots'[i] = nodeSnapshots[i]
      /\ nodeSnapshots'[length + 1] = [id |-> nextSnapshotId, world |-> world']
      /\ InOrder'
  BY <1>3, <1>5, <1>6, <1>7, <1>8, SnapshotLemma
<1>10. worlds' = worlds /\ resets' = resets
  BY DEF Restore
<1> QED
  BY <1>1, <1>3, <1>7, <1>9, <1>10 DEF length

LEMMA FixturesStart == FixturesInit => FixturesInv
<1> SUFFICES ASSUME FixturesInit PROVE FixturesInv
  OBVIOUS
<1>1. /\ world = 0 /\ worlds = 0 /\ nodeSnapshots = <<>> /\ nextSnapshotId = 1 /\ resets = 0
      /\ snapshots = {} /\ running = <<>> /\ loaded = NothingLoaded /\ wentBack = FALSE
  BY DEF FixturesInit
<1>2. nodeSnapshots \in Seq(NodeSnapshot) /\ running \in Seq(Functions)
      /\ DOMAIN nodeSnapshots = {} /\ DOMAIN running = {}
  BY <1>1
<1>3. InOrder /\ OnePerFixture /\ SameOrder
  BY <1>1, <1>2 DEF InOrder, OnePerFixture, SameOrder
<1>4. FixturesAreRestored
  BY <1>1 DEF FixturesAreRestored, LoadedIsRestored, RememberedIsRestorable
<1> QED
  BY <1>1, <1>2, <1>3, <1>4 DEF FixturesInv

\* Nothing is restored, and what the fixtures and their snapshots are stays.
LEMMA SnapshotsStay ==
    ASSUME FixturesInv, UNCHANGED <<nodeSnapshots, nextSnapshotId, resets, snapshots, wentBack>>,
           loaded' = NothingLoaded \/ UNCHANGED <<loaded, world>>,
           world' \in Nat, worlds' \in Nat, running' \in Seq(Functions), OnePerFixture'
    PROVE  FixturesInv'
<1>1. InOrder' /\ (resets' = 0 => SameOrder')
  BY DEF FixturesInv, InOrder, SameOrder
<1>2. FixturesAreRestored'
  BY DEF FixturesInv, FixturesAreRestored, LoadedIsRestored, RememberedIsRestorable
<1> QED
  BY <1>1, <1>2 DEF FixturesInv

LEMMA ChangeStep ==
    ASSUME FixturesInv, Change
    PROVE  FixturesInv'
<1>1. OnePerFixture'
  BY DEF Change, FixturesInv, OnePerFixture, Known
<1> QED
  BY <1>1, SnapshotsStay DEF Change, FixturesInv

LEMMA TakeSnapshotStep ==
    ASSUME FixturesInv, TakeSnapshot
    PROVE  FixturesInv'
<1>1. /\ world' = world /\ world \in Nat /\ worlds' = worlds /\ resets' = resets
      /\ snapshots' = snapshots /\ running' = running /\ wentBack' = wentBack
      /\ loaded' = NothingLoaded /\ Snapshot(nodeSnapshots)
  BY DEF TakeSnapshot, FixturesInv
<1>2. /\ nodeSnapshots' \in Seq(NodeSnapshot) /\ nextSnapshotId' = nextSnapshotId + 1
      /\ DOMAIN nodeSnapshots = 1 .. Len(nodeSnapshots) /\ Len(nodeSnapshots) \in Nat
      /\ DOMAIN nodeSnapshots' = 1 .. Len(nodeSnapshots) + 1
      /\ \A i \in 1 .. Len(nodeSnapshots) : nodeSnapshots'[i] = nodeSnapshots[i]
      /\ nodeSnapshots'[Len(nodeSnapshots) + 1] = [id |-> nextSnapshotId, world |-> world']
      /\ InOrder'
  BY <1>1, SnapshotOfAll
<1>3. nextSnapshotId \in Nat /\ \A s \in snapshots : s.id \in Nat /\ s.snapshotId \in Nat
  BY DEF FixturesInv, FixtureSnapshot
<1>4. OnePerFixture'
  BY <1>1 DEF FixturesInv, OnePerFixture, Known
<1>5. ASSUME resets = 0 PROVE SameOrder'
  <2>1. SameOrder
    BY <1>5 DEF FixturesInv
  <2>2. \A s \in snapshots : \A i \in DOMAIN nodeSnapshots' :
          nodeSnapshots'[i].id = s.id => nodeSnapshots'[i].world = s.data
    <3> SUFFICES ASSUME NEW s \in snapshots, NEW i \in DOMAIN nodeSnapshots', nodeSnapshots'[i].id = s.id
                 PROVE  nodeSnapshots'[i].world = s.data
      OBVIOUS
    <3>1. s.id # nextSnapshotId
      BY <1>3, <2>1 DEF SameOrder
    <3>2. i \in 1 .. Len(nodeSnapshots)
      BY <1>2, <3>1
    <3> QED
      BY <1>2, <2>1, <3>2 DEF SameOrder
  <2> QED
    BY <1>1, <1>2, <1>3, <2>1, <2>2 DEF SameOrder
<1>6. LoadedIsRestored'
  BY <1>1 DEF LoadedIsRestored
<1>7. RememberedIsRestorable'
  <2>1. ToSet(nodeSnapshots) \subseteq ToSet(nodeSnapshots')
    BY <1>2 DEF ToSet
  <2> QED
    BY <1>1, <2>1 DEF FixturesInv, FixturesAreRestored, RememberedIsRestorable, ToSet
<1> QED
  BY <1>1, <1>2, <1>3, <1>4, <1>5, <1>6, <1>7 DEF FixturesInv, FixturesAreRestored

LEMMA ResetStep ==
    ASSUME FixturesInv, Reset
    PROVE  FixturesInv'
<1>1. /\ world' = 0 /\ worlds' = worlds /\ resets' = resets + 1 /\ wentBack' = TRUE
      /\ snapshots' = snapshots /\ running' = running /\ loaded' = NothingLoaded
      /\ nodeSnapshots' = <<>> /\ nextSnapshotId' = 1
  BY DEF Reset
<1>2. OnePerFixture'
  BY <1>1 DEF FixturesInv, OnePerFixture, Known
<1>3. nodeSnapshots' \in Seq(NodeSnapshot) /\ DOMAIN nodeSnapshots' = {}
  BY <1>1
<1>4. InOrder' /\ FixturesAreRestored'
  BY <1>1, <1>3 DEF InOrder, FixturesAreRestored, LoadedIsRestored, RememberedIsRestorable
<1>5. resets' \in Nat /\ resets' # 0
  BY <1>1 DEF FixturesInv
<1> QED
  BY <1>1, <1>2, <1>3, <1>4, <1>5 DEF FixturesInv

\* The latest of the running fixtures, and the others.
LEMMA LastRuns ==
    ASSUME FixturesInv, running # <<>>
    PROVE  /\ Last(running) \in Functions /\ ~ Known(Last(running))
           /\ Front(running) \in Seq(Functions)
           /\ DOMAIN Front(running) \subseteq DOMAIN running
           /\ \A i \in DOMAIN Front(running) :
                Front(running)[i] = running[i] /\ running[i] # Last(running)
<1> DEFINE length == Len(running)
<1>1. /\ running \in Seq(Functions) /\ length \in Nat /\ length >= 1
      /\ DOMAIN running = 1 .. length /\ \A i \in 1 .. length : running[i] \in Functions
  BY EmptySeq, LenProperties, ElementOfSeq DEF FixturesInv
<1>2. Last(running) = running[length] /\ Front(running) = SubSeq(running, 1, length - 1)
  BY DEF Last, Front
<1> HIDE DEF length
<1>3. /\ Front(running) \in Seq(Functions) /\ Len(Front(running)) = length - 1
      /\ \A i \in 1 .. length - 1 : Front(running)[i] = running[i]
  <2>1. \A i \in 1 .. length - 1 : running[i] \in Functions
    BY <1>1
  <2> QED
    BY <1>1, <1>2, <2>1, SubSeqProperties
<1>4. DOMAIN Front(running) = 1 .. length - 1
  BY <1>3, LenProperties
<1>5. \A i \in 1 .. length - 1 : running[i] # running[length]
  BY <1>1 DEF FixturesInv, OnePerFixture
<1>6. ~ Known(running[length])
  BY <1>1 DEF FixturesInv, OnePerFixture
<1> QED
  BY <1>1, <1>2, <1>3, <1>4, <1>5, <1>6

LEMMA CallFixtureStep ==
    ASSUME FixturesInv, NEW f \in Functions, CallFixture(f)
    PROVE  FixturesInv'
<1>1. /\ running' = Append(running, f) /\ ~ Known(f) /\ ~ Contains(running, f)
      /\ loaded' = NothingLoaded
      /\ UNCHANGED <<nodeState, snapshots, restorers, wentBack>>
  BY DEF CallFixture
<1>2. /\ running' \in Seq(Functions) /\ Len(running') = Len(running) + 1
      /\ Len(running) \in Nat /\ DOMAIN running = 1 .. Len(running)
      /\ \A i \in 1 .. Len(running) : running'[i] = running[i]
      /\ running'[Len(running) + 1] = f
  BY <1>1, AppendProperties, LenProperties DEF FixturesInv
<1>3. DOMAIN running' = 1 .. Len(running) + 1
  BY <1>2, LenProperties
<1>4. \A i \in 1 .. Len(running) : running[i] # f
  BY <1>1 DEF Contains
<1>5. \A i, j \in 1 .. Len(running) : running[i] = running[j] => i = j
  BY <1>2 DEF FixturesInv, OnePerFixture
<1>6. \A i \in 1 .. Len(running) : ~ Known(running[i])
  BY <1>2 DEF FixturesInv, OnePerFixture
<1>7. \A i, j \in 1 .. Len(running) + 1 : running'[i] = running'[j] => i = j
  BY <1>2, <1>4, <1>5
<1>8. \A i \in 1 .. Len(running) + 1 : ~ Known(running'[i])
  BY <1>1, <1>2, <1>6
<1>9. OnePerFixture'
  BY <1>1, <1>3, <1>7, <1>8 DEF FixturesInv, OnePerFixture, Known
<1> QED
  BY <1>1, <1>2, <1>9, SnapshotsStay DEF FixturesInv, nodeState

LEMMA LoadFailsStep ==
    ASSUME FixturesInv, NEW f \in Functions, LoadFails(f)
    PROVE  FixturesInv'
<1>1. /\ running' = <<>> /\ loaded' = NothingLoaded
      /\ UNCHANGED <<nodeState, snapshots, restorers, wentBack>>
  BY DEF LoadFails
<1>2. OnePerFixture' /\ running' \in Seq(Functions)
  BY <1>1 DEF FixturesInv, OnePerFixture
<1> QED
  BY <1>1, <1>2, SnapshotsStay DEF FixturesInv, nodeState

LEMMA FixtureReturnsStep ==
    ASSUME FixturesInv, FixtureReturns
    PROVE  FixturesInv'
<1> DEFINE new == [fixture |-> Last(running), snapshotId |-> nextSnapshotId, id |-> nextSnapshotId,
                   data |-> world]
<1>1. /\ running # <<>> /\ world' = world /\ world \in Nat /\ Snapshot(nodeSnapshots)
      /\ snapshots' = snapshots \union {new} /\ running' = Front(running) /\ loaded' = world
      /\ worlds' = worlds /\ resets' = resets /\ wentBack' = wentBack
  BY DEF FixtureReturns, FixturesInv
<1>2. /\ nodeSnapshots' \in Seq(NodeSnapshot) /\ nextSnapshotId' = nextSnapshotId + 1
      /\ DOMAIN nodeSnapshots = 1 .. Len(nodeSnapshots) /\ Len(nodeSnapshots) \in Nat
      /\ DOMAIN nodeSnapshots' = 1 .. Len(nodeSnapshots) + 1
      /\ \A i \in 1 .. Len(nodeSnapshots) : nodeSnapshots'[i] = nodeSnapshots[i]
      /\ nodeSnapshots'[Len(nodeSnapshots) + 1] = [id |-> nextSnapshotId, world |-> world']
      /\ InOrder'
  BY <1>1, SnapshotOfAll
<1>3. /\ nextSnapshotId \in Nat
      /\ \A s \in snapshots : s.id \in Nat /\ s.snapshotId \in Nat
      /\ \A i \in DOMAIN nodeSnapshots : nodeSnapshots[i].id # nextSnapshotId
  <2>1. \A i \in DOMAIN nodeSnapshots : nodeSnapshots[i] \in NodeSnapshot
    BY <1>2, ElementOfSeq DEF FixturesInv
  <2> QED
    BY <2>1 DEF FixturesInv, FixtureSnapshot, InOrder, NodeSnapshot
<1>4. Last(running) \in Functions /\ running' \in Seq(Functions)
  BY <1>1, LastRuns
<1>5. new \in FixtureSnapshot
  BY <1>1, <1>3, <1>4 DEF FixtureSnapshot
<1>6. new.fixture = Last(running) /\ new.snapshotId = nextSnapshotId /\ new.id = nextSnapshotId /\ new.data = world
  OBVIOUS
<1> HIDE DEF new
<1>7. OnePerFixture'
  <2>1. \A s \in snapshots : s.fixture # new.fixture
    BY <1>1, <1>6, LastRuns DEF Known
  <2>2. \A s1, s2 \in snapshots' : s1.fixture = s2.fixture => s1 = s2
    BY <1>1, <2>1 DEF FixturesInv, OnePerFixture
  <2>3. \A i \in DOMAIN running' : i \in DOMAIN running /\ running'[i] = running[i] /\ running[i] # new.fixture
    BY <1>1, <1>6, LastRuns
  <2>4. \A i, j \in DOMAIN running' : running'[i] = running'[j] => i = j
    BY <2>3 DEF FixturesInv, OnePerFixture
  <2>5. \A i \in DOMAIN running' : \A s \in snapshots' : s.fixture # running'[i]
    BY <1>1, <2>3 DEF FixturesInv, OnePerFixture, Known
  <2> QED
    BY <2>2, <2>4, <2>5 DEF OnePerFixture, Known
<1>8. ASSUME resets = 0 PROVE SameOrder'
  <2>1. /\ \A s \in snapshots : s.snapshotId <= s.id /\ s.id < nextSnapshotId
        /\ \A s1, s2 \in snapshots :
            /\ s1.snapshotId < s2.snapshotId => s1.id < s2.id
            /\ s1.snapshotId = s2.snapshotId => s1 = s2
        /\ \A s \in snapshots : \A i \in DOMAIN nodeSnapshots :
            nodeSnapshots[i].id = s.id => nodeSnapshots[i].world = s.data
    BY <1>8 DEF FixturesInv, SameOrder
  <2>2. \A s \in snapshots' : s.snapshotId <= s.id /\ s.id < nextSnapshotId'
    BY <1>1, <1>2, <1>3, <1>6, <2>1
  <2>3. \A s1, s2 \in snapshots' :
            /\ s1.snapshotId < s2.snapshotId => s1.id < s2.id
            /\ s1.snapshotId = s2.snapshotId => s1 = s2
    BY <1>1, <1>3, <1>6, <2>1
  <2>4. \A s \in snapshots' : \A i \in DOMAIN nodeSnapshots' :
            nodeSnapshots'[i].id = s.id => nodeSnapshots'[i].world = s.data
    <3> SUFFICES ASSUME NEW s \in snapshots', NEW i \in DOMAIN nodeSnapshots', nodeSnapshots'[i].id = s.id
                 PROVE  nodeSnapshots'[i].world = s.data
      OBVIOUS
    <3>1. CASE i = Len(nodeSnapshots) + 1
      <4>1. nodeSnapshots'[i].id = nextSnapshotId /\ nodeSnapshots'[i].world = world
        BY <1>1, <1>2, <3>1
      <4>2. s.id = nextSnapshotId
        BY <4>1
      <4>3. s \notin snapshots
        <5>1. \A t \in snapshots : t.id # nextSnapshotId
          BY <1>3, <2>1
        <5> QED
          BY <4>2, <5>1
      <4>4. s = new
        BY <1>1, <4>3
      <4> QED
        BY <1>6, <4>1, <4>4
    <3>2. CASE i \in 1 .. Len(nodeSnapshots)
      <4>1. nodeSnapshots'[i] = nodeSnapshots[i] /\ i \in DOMAIN nodeSnapshots
        BY <1>2, <3>2
      <4>2. s \in snapshots
        BY <1>1, <1>3, <1>6, <4>1
      <4> QED
        BY <2>1, <4>1, <4>2
    <3> QED
      BY <1>2, <3>1, <3>2
  <2> QED
    BY <2>2, <2>3, <2>4 DEF SameOrder
<1>9. LoadedIsRestored'
  BY <1>1 DEF LoadedIsRestored
<1>10. RememberedIsRestorable'
  <2>1. ToSet(nodeSnapshots) \subseteq ToSet(nodeSnapshots')
    BY <1>2 DEF ToSet
  <2>2. [id |-> new.id, world |-> new.data] \in ToSet(nodeSnapshots')
    BY <1>1, <1>2, <1>6 DEF ToSet
  <2>3. ~ wentBack => \A s \in snapshots : [id |-> s.id, world |-> s.data] \in ToSet(nodeSnapshots)
    BY DEF FixturesInv, FixturesAreRestored, RememberedIsRestorable
  <2>4. ~ wentBack => \A s \in snapshots' : [id |-> s.id, world |-> s.data] \in ToSet(nodeSnapshots')
    BY <1>1, <2>1, <2>2, <2>3
  <2> QED
    BY <1>1, <2>4 DEF RememberedIsRestorable, ToSet
<1>11. snapshots' \subseteq FixtureSnapshot
  BY <1>1, <1>5 DEF FixturesInv
<1> QED
  BY <1>1, <1>2, <1>3, <1>4, <1>7, <1>8, <1>9, <1>10, <1>11 DEF FixturesInv, FixturesAreRestored

LEMMA RestoreSnapshotStep ==
    ASSUME FixturesInv, NEW i \in DOMAIN restorers, RestoreSnapshot(i)
    PROVE  FixturesInv'
<1>1. loaded' = NothingLoaded /\ snapshots' = snapshots /\ running' = running
  BY DEF RestoreSnapshot
<1>2. OnePerFixture'
  BY <1>1 DEF FixturesInv, OnePerFixture, Known
<1>3. CASE ~ Found(restorers[i])
  <2>1. UNCHANGED <<nodeState, restorers, wentBack>>
    BY <1>3 DEF RestoreSnapshot
  <2> QED
    BY <1>1, <1>2, <2>1, SnapshotsStay DEF FixturesInv, nodeState
<1>4. CASE Found(restorers[i])
  <2>1. Restore(restorers[i]) /\ wentBack' = TRUE
    BY <1>4 DEF RestoreSnapshot
  <2>2. PICK place \in DOMAIN nodeSnapshots :
              /\ world' = nodeSnapshots[place].world /\ world' \in Nat
              /\ nodeSnapshots' \in Seq(NodeSnapshot) /\ nextSnapshotId' = nextSnapshotId + 1
              /\ DOMAIN nodeSnapshots' = 1 .. place
              /\ \A k \in 1 .. place - 1 : nodeSnapshots'[k] = nodeSnapshots[k]
              /\ nodeSnapshots'[place] = [id |-> nextSnapshotId, world |-> world']
              /\ InOrder' /\ worlds' = worlds /\ resets' = resets
    BY <2>1, RestoreLemma
  <2>3. nextSnapshotId \in Nat /\ \A s \in snapshots : s.id \in Nat /\ s.snapshotId \in Nat
    BY DEF FixturesInv, FixtureSnapshot
  <2>4. DOMAIN nodeSnapshots = 1 .. Len(nodeSnapshots) /\ Len(nodeSnapshots) \in Nat
    BY LenProperties DEF FixturesInv
  <2>5. ASSUME resets = 0 PROVE SameOrder'
    <3>1. SameOrder
      BY <2>5 DEF FixturesInv
    <3>2. \A s \in snapshots : \A k \in DOMAIN nodeSnapshots' :
            nodeSnapshots'[k].id = s.id => nodeSnapshots'[k].world = s.data
      <4> SUFFICES ASSUME NEW s \in snapshots, NEW k \in DOMAIN nodeSnapshots', nodeSnapshots'[k].id = s.id
                   PROVE  nodeSnapshots'[k].world = s.data
        OBVIOUS
      <4>1. s.id # nextSnapshotId
        BY <2>3, <3>1 DEF SameOrder
      <4>2. k \in 1 .. place - 1 /\ k \in DOMAIN nodeSnapshots
        BY <2>2, <2>4, <4>1
      <4> QED
        BY <2>2, <3>1, <4>2 DEF SameOrder
    <3> QED
      BY <1>1, <2>2, <2>3, <3>1, <3>2 DEF SameOrder
  <2>6. FixturesAreRestored'
    BY <1>1, <2>1 DEF FixturesAreRestored, LoadedIsRestored, RememberedIsRestorable
  <2> QED
    BY <1>1, <1>2, <2>1, <2>2, <2>3, <2>5, <2>6 DEF FixturesInv
<1> QED
  BY <1>3, <1>4

\* The fixtures that were loaded after the one that is restored are forgotten with their
\* snapshots, and no others: what is compared and what is restored agree.
LEMMA RestoreFixtureStep ==
    ASSUME FixturesInv, NEW f \in Functions, RestoreFixture(f)
    PROVE  FixturesInv'
<1>1. PICK snapshot \in snapshots :
        /\ snapshot.fixture = f /\ Restore(snapshot.id)
        /\ snapshots' = {IF s.fixture = f THEN [s EXCEPT !.id = nextSnapshotId] ELSE s :
                            s \in Kept(snapshot.snapshotId)}
        /\ loaded' = snapshot.data
  BY DEF RestoreFixture
<1>2. running' = running /\ wentBack' = wentBack
  BY DEF RestoreFixture
<1>3. PICK place \in DOMAIN nodeSnapshots :
            /\ nodeSnapshots[place].id = snapshot.id
            /\ world' = nodeSnapshots[place].world /\ world' \in Nat
            /\ nodeSnapshots' \in Seq(NodeSnapshot) /\ nextSnapshotId' = nextSnapshotId + 1
            /\ DOMAIN nodeSnapshots' = 1 .. place
            /\ \A k \in 1 .. place - 1 : nodeSnapshots'[k] = nodeSnapshots[k]
            /\ nodeSnapshots'[place] = [id |-> nextSnapshotId, world |-> world']
            /\ InOrder' /\ worlds' = worlds /\ resets' = resets
  BY <1>1, RestoreLemma
<1> DEFINE new == [snapshot EXCEPT !.id = nextSnapshotId]
<1>4. /\ nextSnapshotId \in Nat /\ snapshots \subseteq FixtureSnapshot
      /\ \A s \in snapshots : s.id \in Nat /\ s.snapshotId \in Nat
      /\ \A s \in snapshots : s.fixture = f => s = snapshot
  BY <1>1 DEF FixturesInv, FixtureSnapshot, OnePerFixture
<1>5. /\ DOMAIN nodeSnapshots = 1 .. Len(nodeSnapshots) /\ Len(nodeSnapshots) \in Nat
      /\ \A k \in 1 .. Len(nodeSnapshots) : nodeSnapshots[k].id \in Nat
  <2>1. \A k \in 1 .. Len(nodeSnapshots) : nodeSnapshots[k] \in NodeSnapshot
    BY ElementOfSeq DEF FixturesInv
  <2> QED
    BY <2>1, LenProperties DEF FixturesInv, NodeSnapshot
<1>6. /\ new \in FixtureSnapshot /\ new.fixture = f /\ new.snapshotId = snapshot.snapshotId
      /\ new.id = nextSnapshotId /\ new.data = snapshot.data
  BY <1>1, <1>4 DEF FixtureSnapshot
<1>7. \A s \in snapshots' : s = new \/ (s \in snapshots /\ s.snapshotId <= snapshot.snapshotId /\ s.fixture # f)
  <2> SUFFICES ASSUME NEW t \in Kept(snapshot.snapshotId),
                      NEW s, s = IF t.fixture = f THEN [t EXCEPT !.id = nextSnapshotId] ELSE t
               PROVE  s = new \/ (s \in snapshots /\ s.snapshotId <= snapshot.snapshotId /\ s.fixture # f)
    BY <1>1
  <2>1. t \in snapshots /\ t.snapshotId <= snapshot.snapshotId
    BY DEF Kept
  <2>2. CASE t.fixture = f
    <3>1. t = snapshot
      BY <1>4, <2>1, <2>2
    <3>2. s = [t EXCEPT !.id = nextSnapshotId]
      BY <2>2, Zenon
    <3>3. s = new
      BY <3>1, <3>2, Zenon
    <3> QED
      BY <3>3
  <2>3. CASE t.fixture # f
    BY <2>1, <2>3
  <2> QED
    BY <2>2, <2>3
<1> HIDE DEF new
<1>8. OnePerFixture'
  <2>1. \A s1, s2 \in snapshots' : s1.fixture = s2.fixture => s1 = s2
    BY <1>6, <1>7 DEF FixturesInv, OnePerFixture
  <2>2. \A s \in snapshots' : \E t \in snapshots : t.fixture = s.fixture
    BY <1>1, <1>6, <1>7
  <2> QED
    BY <1>2, <2>1, <2>2 DEF FixturesInv, OnePerFixture, Known
<1>9. ASSUME resets = 0
      PROVE  SameOrder' /\ world' = snapshot.data
             /\ \A s \in snapshots' : s = new \/ (s \in snapshots /\ s.id < snapshot.id)
  <2>1. /\ \A s \in snapshots : s.snapshotId <= s.id /\ s.id < nextSnapshotId
        /\ \A s1, s2 \in snapshots :
            /\ s1.snapshotId < s2.snapshotId => s1.id < s2.id
            /\ s1.snapshotId = s2.snapshotId => s1 = s2
        /\ \A s \in snapshots : \A i \in DOMAIN nodeSnapshots :
            nodeSnapshots[i].id = s.id => nodeSnapshots[i].world = s.data
    BY <1>9 DEF FixturesInv, SameOrder
  <2>2. world' = snapshot.data
    BY <1>3, <2>1
  <2>3. \A s \in snapshots' : s = new
            \/ (s \in snapshots /\ s.snapshotId < snapshot.snapshotId /\ s.id < snapshot.id)
    <3>1. ASSUME NEW s \in snapshots, s.snapshotId <= snapshot.snapshotId, s.fixture # f
          PROVE  s.snapshotId < snapshot.snapshotId /\ s.id < snapshot.id
      <4>1. s.snapshotId # snapshot.snapshotId
        BY <1>1, <2>1, <3>1
      <4>2. s.snapshotId < snapshot.snapshotId
        BY <1>4, <3>1, <4>1
      <4> QED
        BY <2>1, <4>2
    <3> QED
      BY <1>7, <3>1
  <2>4. snapshot.snapshotId <= snapshot.id /\ snapshot.id < nextSnapshotId
    BY <1>1, <2>1
  <2>5. \A s \in snapshots' : s.snapshotId <= s.id /\ s.id < nextSnapshotId'
    BY <1>1, <1>3, <1>4, <1>6, <2>1, <2>3, <2>4
  <2>6. \A s1, s2 \in snapshots' :
            /\ s1.snapshotId < s2.snapshotId => s1.id < s2.id
            /\ s1.snapshotId = s2.snapshotId => s1 = s2
    BY <1>1, <1>4, <1>6, <2>1, <2>3, <2>4
  <2>7. \A s \in snapshots' : \A i \in DOMAIN nodeSnapshots' :
            nodeSnapshots'[i].id = s.id => nodeSnapshots'[i].world = s.data
    <3> SUFFICES ASSUME NEW s \in snapshots', NEW i \in DOMAIN nodeSnapshots', nodeSnapshots'[i].id = s.id
                 PROVE  nodeSnapshots'[i].world = s.data
      OBVIOUS
    <3>1. CASE i = place
      <4>1. s.id = nextSnapshotId
        BY <1>3, <3>1
      <4>2. \A t \in snapshots : t.id # nextSnapshotId
        BY <1>4, <2>1
      <4>3. s = new
        BY <2>3, <4>1, <4>2
      <4> QED
        BY <1>3, <1>6, <2>2, <3>1, <4>3
    <3>2. CASE i # place
      <4>1. i \in 1 .. place - 1 /\ i \in DOMAIN nodeSnapshots
        BY <1>3, <1>5, <3>2
      <4>2. nodeSnapshots'[i] = nodeSnapshots[i] /\ nodeSnapshots[i].id < nextSnapshotId
        BY <1>3, <4>1 DEF FixturesInv, InOrder
      <4>3. s # new
        BY <1>4, <1>5, <1>6, <4>1, <4>2
      <4> QED
        BY <2>1, <2>3, <4>1, <4>2, <4>3
    <3> QED
      BY <3>1, <3>2
  <2> QED
    BY <2>2, <2>3, <2>5, <2>6, <2>7 DEF SameOrder
<1>10. LoadedIsRestored'
  BY <1>1, <1>3, <1>9 DEF LoadedIsRestored
<1>11. RememberedIsRestorable'
  <2> SUFFICES ASSUME ~ wentBack, NEW s \in snapshots'
               PROVE  \E i \in DOMAIN nodeSnapshots' : nodeSnapshots'[i] = [id |-> s.id, world |-> s.data]
    BY <1>2 DEF RememberedIsRestorable, ToSet
  <2>1. resets = 0
    BY DEF FixturesInv
  <2>2. CASE s = new
    BY <1>3, <1>5, <1>6, <1>9, <2>1, <2>2
  <2>3. CASE s \in snapshots /\ s.id < snapshot.id
    <3>1. PICK i \in DOMAIN nodeSnapshots : nodeSnapshots[i] = [id |-> s.id, world |-> s.data]
      BY <2>3 DEF FixturesInv, FixturesAreRestored, RememberedIsRestorable, ToSet
    <3>2. nodeSnapshots[i].id < nodeSnapshots[place].id
      BY <1>3, <2>3, <3>1
    <3>3. i < place
      BY <1>3, <1>5, <3>2 DEF FixturesInv, InOrder
    <3>4. i \in 1 .. place - 1
      BY <1>5, <3>3
    <3> QED
      BY <1>3, <1>5, <3>1, <3>4
  <2> QED
    BY <1>9, <2>1, <2>2, <2>3
<1>12. snapshots' \subseteq FixtureSnapshot
  BY <1>4, <1>6, <1>7
<1> QED
  BY <1>2, <1>3, <1>4, <1>8, <1>9, <1>10, <1>11, <1>12 DEF FixturesInv, FixturesAreRestored

LEMMA FixturesStep == FixturesInv /\ [FixturesNext]_fixtureVars => FixturesInv'
<1> SUFFICES ASSUME FixturesInv, [FixturesNext]_fixtureVars PROVE FixturesInv'
  OBVIOUS
<1>1. CASE UNCHANGED fixtureVars
  <2>1. OnePerFixture'
    BY <1>1 DEF FixturesInv, OnePerFixture, Known, fixtureVars
  <2> QED
    BY <1>1, <2>1, SnapshotsStay DEF FixturesInv, fixtureVars, nodeState
<1>2. CASE Change \/ TakeSnapshot \/ Reset \/ FixtureReturns
  BY <1>2, ChangeStep, TakeSnapshotStep, ResetStep, FixtureReturnsStep
<1>3. ASSUME NEW i \in DOMAIN restorers, RestoreSnapshot(i) PROVE FixturesInv'
  BY <1>3, RestoreSnapshotStep
<1>4. ASSUME NEW f \in Functions, CallFixture(f) \/ RestoreFixture(f) \/ LoadFails(f) PROVE FixturesInv'
  BY <1>4, CallFixtureStep, RestoreFixtureStep, LoadFailsStep
<1> QED
  BY <1>1, <1>2, <1>3, <1>4 DEF FixturesNext

\* However fixtures are loaded, from tests and from within fixtures, a load brings back the
\* world of the data it returns, and it fails only if the test itself went back.
THEOREM FixturesStayRestorable == FixturesSpec => []FixturesAreRestored
<1>1. FixturesInv => FixturesAreRestored
  BY DEF FixturesInv
<1> QED
  BY <1>1, FixturesStart, FixturesStep, PTL DEF FixturesSpec

\* The ids of the node's snapshots grow with age, and no fixture has two snapshots.
THEOREM FixturesTypeCorrect == FixturesSpec => []FixturesTypeOK
<1>1. FixturesInv => FixturesTypeOK
  <2> SUFFICES ASSUME FixturesInv PROVE FixturesTypeOK
    OBVIOUS
  <2>1. ToSet(running) \subseteq Functions
    BY LenProperties, ElementOfSeq DEF FixturesInv, ToSet
  <2> QED
    BY <2>1 DEF FixturesInv, InOrder, OnePerFixture, FixturesTypeOK
<1> QED
  BY <1>1, FixturesStart, FixturesStep, PTL DEF FixturesSpec

-----------------------------------------------------------------------------
(* Gas estimation.                                                         *)

\* How much smaller the rounds have made the difference of the bounds; the first may only
\* make it smaller.
HalvingsTable ==
    <<1, 1, 2, 4, 8, 16, 32, 64, 128, 256, 512, 1024, 2048, 4096, 8192, 16384, 32768, 65536,
      131072, 262144, 524288, 1048576>>

Halvings(rounds) == HalvingsTable[rounds + 1]

LEMMA HalvingsDouble ==
    /\ Halvings(0) = 1 /\ Halvings(1) = 1
    /\ \A rounds \in 0 .. 21 : Halvings(rounds) \in Nat
    /\ \A rounds \in 1 .. 20 : Halvings(rounds + 1) = 2 * Halvings(rounds)
<1>1. Halvings(0) = 1 /\ Halvings(1) = 1
  BY SMT DEF Halvings, HalvingsTable
<1>2. \A rounds \in 0 .. 21 : Halvings(rounds) \in Nat
  BY SMT DEF Halvings, HalvingsTable
<1>3. \A rounds \in 1 .. 20 : Halvings(rounds + 1) = 2 * Halvings(rounds)
  BY SMT DEF Halvings, HalvingsTable
<1> QED
  BY <1>1, <1>2, <1>3

\* The tolerance grows with the amount.
LEMMA MinDiffGrows ==
    ASSUME NEW less \in Nat, NEW more \in Nat, less <= more
    PROVE  MinDiff(less) \in Nat /\ 200 <= MinDiff(less) /\ MinDiff(less) <= MinDiff(more)
BY SMT DEF MinDiff

\* It covers that of the code, and what all rounds leave of the largest difference.
LEMMA ToleranceIsEnough ==
    ASSUME call.least \in Nat, blockGasLimit \in Nat
    PROVE  /\ Tolerance \in Nat /\ Tolerance >= 1
           /\ MinDiff(call.least) <= Tolerance
           /\ \A diff \in Int : (diff - 1) * Halvings(21) <= blockGasLimit => diff <= Tolerance
<1> DEFINE left == blockGasLimit \div 1048576 + 1
<1>1. MinDiff(call.least) \in Nat /\ 200 <= MinDiff(call.least)
  BY MinDiffGrows
<1>2. left \in Nat /\ left >= 1
  BY SMT
<1>3. \A diff \in Int : (diff - 1) * Halvings(21) <= blockGasLimit => diff <= left
  <2>1. Halvings(21) = 1048576
    BY SMT DEF Halvings, HalvingsTable
  <2> QED
    BY <2>1, SMT
<1>4. Tolerance = IF left > MinDiff(call.least) THEN left ELSE MinDiff(call.least)
  BY SMT DEF Tolerance
<1> HIDE DEF left
<1> QED
  BY <1>1, <1>2, <1>3, <1>4

LEMMA ToleranceStays == UNCHANGED <<call, blockGasLimit>> => Tolerance' = Tolerance
BY SMT DEF Tolerance, MinDiff

\* The inductive invariant: what the search has found out.
Narrowing ==
    /\ search.lowestSuccessful \in succeeded \union {blockGasLimit}
    /\ search.highestFailing >= call.intrinsic /\ search.highestFailing >= 1
    /\ InitialEstimation < blockGasLimit => search.highestFailing < search.lowestSuccessful
    /\ call.steady =>
        /\ search.highestFailing < call.least
        /\ call.least <= blockGasLimit => call.least <= search.lowestSuccessful
    /\ search.roundNumber \in 0 .. 21
    /\ (Diff - 1) * Halvings(search.roundNumber) <= blockGasLimit

EstimationInv ==
    /\ call \in Calls /\ blockGasLimit \in BlockGasLimits
    /\ search \in Search /\ succeeded \subseteq Nat
    /\ search.phase \in {"first run", "correct"} => search.roundNumber = 0
    /\ search.phase = "search" => Narrowing
    /\ EstimationsAreTried /\ EstimationsAreTight /\ AttemptsAreValid

LEMMA CallIsTyped ==
    ASSUME EstimationInv
    PROVE  /\ call \in Call /\ blockGasLimit \in Nat
           /\ call.gas \in Nat /\ call.intrinsic \in Nat /\ call.spent \in Nat /\ call.least \in Nat
           /\ call.steady => call.intrinsic <= call.least /\ call.spent <= call.least
           /\ InitialEstimation \in Nat /\ InitialEstimation >= 1
           /\ InitialEstimation >= call.intrinsic
           /\ call.steady => InitialEstimation <= call.least + 1
           /\ search.highestFailing \in Nat /\ search.lowestSuccessful \in Nat
           /\ search.roundNumber \in Nat /\ search.error \in BOOLEAN
<1>1. call \in Call /\ blockGasLimit \in Nat
      /\ (call.steady => call.intrinsic <= call.least /\ call.spent <= call.least)
  BY CallsAssumption DEF EstimationInv
<1>2. call.gas \in Nat /\ call.intrinsic \in Nat /\ call.spent \in Nat /\ call.least \in Nat
  BY <1>1 DEF Call
<1>3. /\ InitialEstimation \in Nat /\ InitialEstimation >= 1
      /\ InitialEstimation >= call.intrinsic
      /\ call.steady => InitialEstimation <= call.least + 1
  BY <1>1, <1>2 DEF InitialEstimation
<1>4. /\ search.highestFailing \in Nat /\ search.lowestSuccessful \in Nat
      /\ search.roundNumber \in Nat /\ search.error \in BOOLEAN
  BY DEF EstimationInv, Search
<1> QED
  BY <1>1, <1>2, <1>3, <1>4

LEMMA EstimationStart == EstimationInit => EstimationInv
<1> SUFFICES ASSUME EstimationInit PROVE EstimationInv
  OBVIOUS
<1>1. /\ search \in Search /\ search.phase = "first run" /\ search.roundNumber = 0
      /\ succeeded = {} /\ call \in Calls /\ blockGasLimit \in BlockGasLimits
  BY DEF EstimationInit, Search
<1> QED
  BY <1>1 DEF EstimationInv, EstimationsAreTried, EstimationsAreTight, AttemptsAreValid, Answered

\* A run: a steady call succeeds with what it needs and with more.
LEMMA RunLemma ==
    ASSUME EstimationInv, NEW gas \in Nat, NEW ok \in BOOLEAN, RunWith(gas, ok)
    PROVE  /\ gas >= call.intrinsic
           /\ call.steady => (ok <=> gas >= call.least)
           /\ ok => gas \in succeeded'
           /\ succeeded \subseteq succeeded' /\ succeeded' \subseteq Nat
           /\ UNCHANGED <<call, blockGasLimit>>
BY CallIsTyped DEF RunWith, Succeeds, EstimationInv

LEMMA FirstRunStep ==
    ASSUME EstimationInv, NEW ok \in BOOLEAN, FirstRun(ok)
    PROVE  EstimationInv'
<1>1. RunWith(call.gas, ok) /\ search.phase = "first run"
  BY DEF FirstRun
<1>2. succeeded' \subseteq Nat /\ UNCHANGED <<call, blockGasLimit>>
  BY <1>1, CallIsTyped, RunLemma
<1>3. CASE ok
  <2>1. search' = [search EXCEPT !.phase = "correct"]
    BY <1>3 DEF FirstRun
  <2>2. search' \in Search /\ search'.phase = "correct" /\ search'.roundNumber = 0
    BY <1>1, <2>1 DEF EstimationInv, Search
  <2> QED
    BY <1>2, <2>2 DEF EstimationInv, EstimationsAreTried, EstimationsAreTight, AttemptsAreValid, Answered
<1>4. CASE ~ ok
  <2>1. search' = [search EXCEPT !.phase = "done", !.lowestSuccessful = blockGasLimit, !.error = TRUE]
    BY <1>4 DEF FirstRun, Done
  <2>2. search' \in Search /\ search'.phase = "done" /\ search'.error
    BY <2>1, CallIsTyped DEF EstimationInv, Search
  <2> QED
    BY <1>2, <2>2 DEF EstimationInv, EstimationsAreTried, EstimationsAreTight, AttemptsAreValid, Answered
<1> QED
  BY <1>3, <1>4

LEMMA CorrectStep ==
    ASSUME EstimationInv, NEW ok \in BOOLEAN, CorrectInitialEstimation(ok)
    PROVE  EstimationInv'
<1> DEFINE initial == InitialEstimation
<1>1. RunWith(initial, ok) /\ search.phase = "correct" /\ search.roundNumber = 0
  BY DEF CorrectInitialEstimation, EstimationInv
<1>2. /\ initial \in Nat /\ initial >= 1 /\ initial >= call.intrinsic
      /\ blockGasLimit \in Nat /\ call.least \in Nat
      /\ call.steady => initial <= call.least + 1
  BY CallIsTyped
<1>3. /\ succeeded' \subseteq Nat /\ UNCHANGED <<call, blockGasLimit>>
      /\ ok => initial \in succeeded'
      /\ call.steady => (ok <=> initial >= call.least)
  BY <1>1, <1>2, RunLemma
<1>4. InitialEstimation' = initial
  BY <1>3 DEF InitialEstimation
<1>5. CASE ok
  <2>1. search' = [search EXCEPT !.phase = "done", !.lowestSuccessful = initial, !.error = FALSE]
    BY <1>5 DEF CorrectInitialEstimation, Done
  <2>2. search' \in Search /\ search'.phase = "done" /\ search'.lowestSuccessful = initial
    BY <1>2, <2>1 DEF EstimationInv, Search
  <2>3. EstimationsAreTried'
    BY <1>3, <1>5, <2>2 DEF EstimationsAreTried
  <2>4. Tolerance' >= 1 /\ Tolerance' \in Nat
    BY <1>2, <1>3, ToleranceIsEnough, ToleranceStays
  <2>5. EstimationsAreTight'
    BY <1>2, <1>3, <1>5, <2>2, <2>4 DEF EstimationsAreTight, Answered
  <2> QED
    BY <1>3, <2>2, <2>3, <2>5 DEF EstimationInv, AttemptsAreValid
<1>6. CASE ~ ok
  <2>1. search' = [search EXCEPT !.phase = "search", !.highestFailing = initial,
                                 !.lowestSuccessful = blockGasLimit]
    BY <1>6 DEF CorrectInitialEstimation
  <2>2. /\ search' \in Search /\ search'.phase = "search" /\ search'.roundNumber = 0
        /\ search'.highestFailing = initial /\ search'.lowestSuccessful = blockGasLimit
    BY <1>1, <1>2, <2>1 DEF EstimationInv, Search
  <2>3. (Diff - 1)' * Halvings(search.roundNumber)' <= blockGasLimit'
    BY <1>2, <1>3, <2>2, HalvingsDouble DEF Diff
  <2>4. Narrowing'
    BY <1>2, <1>3, <1>4, <1>6, <2>2, <2>3 DEF Narrowing
  <2> QED
    BY <1>3, <2>2, <2>4 DEF EstimationInv, EstimationsAreTried, EstimationsAreTight, AttemptsAreValid, Answered
<1> QED
  BY <1>5, <1>6

\* The next amount is strictly between the bounds, and after the first round in the middle.
LEMMA NewEstimationIsBetween ==
    ASSUME EstimationInv, search.phase = "search", ~ NothingBetween, ~ IsCloseEnough
    PROVE  /\ NewEstimation \in Nat
           /\ search.highestFailing < NewEstimation /\ NewEstimation < search.lowestSuccessful
           /\ search.roundNumber # 0 => NewEstimation = search.highestFailing + Diff \div 2
           /\ search.roundNumber \in 0 .. 20
           /\ Diff \in Nat
<1>1. /\ search.highestFailing \in Nat /\ search.lowestSuccessful \in Nat
      /\ search.highestFailing >= 1 /\ search.roundNumber \in 0 .. 21
  BY CallIsTyped DEF EstimationInv, Narrowing
<1>2. search.roundNumber \in 0 .. 20 /\ Diff > MinDiff(search.highestFailing)
  BY <1>1, MinDiffGrows DEF IsCloseEnough, MAX_GAS_ESTIMATION_IMPROVEMENT_ROUNDS, Diff
<1>3. Diff \in Nat /\ Diff > 200
  BY <1>1, <1>2, MinDiffGrows DEF Diff
<1>4. Diff \div 2 \in Nat /\ 0 < Diff \div 2 /\ Diff \div 2 < Diff
  BY <1>3
<1> QED
  BY <1>1, <1>2, <1>3, <1>4 DEF NewEstimation, Middle, Diff

\* A difference that is halved, whichever half stays.
LEMMA HalfOfTheDifference ==
    ASSUME NEW diff \in Nat, NEW half \in Nat, NEW times \in Nat, NEW limit \in Nat,
           half = diff \div 2 \/ half = diff - diff \div 2,
           diff > 0, (diff - 1) * times <= limit
    PROVE  (half - 1) * (2 * times) <= limit
<1>1. 2 * (half - 1) <= diff - 1
  OBVIOUS
<1>2. \A a, b \in Int : a <= b => a * times <= b * times
  OBVIOUS
<1>3. (2 * (half - 1)) * times <= (diff - 1) * times
  BY <1>1, <1>2
<1>4. (half - 1) * (2 * times) = (2 * (half - 1)) * times
  OBVIOUS
<1> QED
  BY <1>3, <1>4

LEMMA BinarySearchStep ==
    ASSUME EstimationInv, NEW ok \in BOOLEAN, BinarySearchEstimation(ok)
    PROVE  EstimationInv'
<1> DEFINE new == NewEstimation
           rounds == search.roundNumber
<1>0. search.phase = "search" /\ ~ NothingBetween /\ ~ IsCloseEnough /\ RunWith(new, ok)
  BY DEF BinarySearchEstimation
<1>1. /\ new \in Nat /\ search.highestFailing < new /\ new < search.lowestSuccessful
      /\ rounds # 0 => new = search.highestFailing + Diff \div 2
      /\ rounds \in 0 .. 20 /\ Diff \in Nat
  BY <1>0, NewEstimationIsBetween
<1>2. /\ succeeded \subseteq succeeded' /\ succeeded' \subseteq Nat /\ UNCHANGED <<call, blockGasLimit>>
      /\ ok => new \in succeeded'
      /\ call.steady => (ok <=> new >= call.least)
  BY <1>0, <1>1, RunLemma
<1>3. /\ blockGasLimit \in Nat /\ call.least \in Nat /\ call.intrinsic \in Nat
      /\ search.highestFailing \in Nat /\ search.lowestSuccessful \in Nat
  BY CallIsTyped
<1>4. InitialEstimation' = InitialEstimation
  BY <1>2 DEF InitialEstimation
<1>5. /\ search' \in Search /\ search'.phase = "search" /\ search'.roundNumber = rounds + 1
      /\ search'.highestFailing = IF ok THEN search.highestFailing ELSE new
      /\ search'.lowestSuccessful = IF ok THEN new ELSE search.lowestSuccessful
  <2>1. search' = [Bounds(ok) EXCEPT !.roundNumber = @ + 1] /\ search \in Search
    BY DEF BinarySearchEstimation, EstimationInv
  <2>2. Bounds(ok) = IF ok THEN [search EXCEPT !.lowestSuccessful = new]
                     ELSE [search EXCEPT !.highestFailing = new]
    BY DEF Bounds
  <2>3. /\ Bounds(ok) \in Search /\ Bounds(ok).phase = "search" /\ Bounds(ok).roundNumber = rounds
        /\ Bounds(ok).highestFailing = IF ok THEN search.highestFailing ELSE new
        /\ Bounds(ok).lowestSuccessful = IF ok THEN new ELSE search.lowestSuccessful
    <3> HIDE DEF new
    <3> QED
      BY <1>0, <1>1, <2>1, <2>2 DEF Search
  <2>4. rounds + 1 \in Nat
    BY <1>1
  <2> HIDE DEF new
  <2> QED
    BY <2>1, <2>3, <2>4 DEF Search
<1> HIDE DEF new, rounds
<1>6. Narrowing
  BY <1>0 DEF EstimationInv
<1>7. (Diff' - 1) * Halvings(rounds + 1) <= blockGasLimit
  <2>1. (Diff - 1) * Halvings(rounds) <= blockGasLimit
    BY <1>6 DEF Narrowing, rounds
  <2>2. /\ Diff = search.lowestSuccessful - search.highestFailing /\ Diff > 0
        /\ Diff' = IF ok THEN new - search.highestFailing ELSE search.lowestSuccessful - new
        /\ Diff' \in Nat /\ Diff' <= Diff
    BY <1>1, <1>3, <1>5 DEF Diff
  <2>3. CASE rounds = 0
    BY <1>3, <2>1, <2>2, <2>3, HalvingsDouble
  <2>4. CASE rounds # 0
    <3>1. Diff' = Diff \div 2 \/ Diff' = Diff - Diff \div 2
      BY <1>1, <1>3, <2>2, <2>4
    <3>2. Halvings(rounds) \in Nat /\ Halvings(rounds + 1) = 2 * Halvings(rounds)
      BY <1>1, <2>4, HalvingsDouble
    <3>3. (Diff' - 1) * (2 * Halvings(rounds)) <= blockGasLimit
      BY <1>1, <1>3, <2>1, <2>2, <3>1, <3>2, HalfOfTheDifference
    <3> QED
      BY <3>2, <3>3
  <2> QED
    BY <2>3, <2>4
<1>8. Narrowing'
  <2>1. search'.lowestSuccessful \in succeeded' \union {blockGasLimit'}
    BY <1>2, <1>5, <1>6 DEF Narrowing
  <2>2. /\ search'.highestFailing >= call'.intrinsic /\ search'.highestFailing >= 1
        /\ search'.highestFailing < search'.lowestSuccessful
    BY <1>1, <1>2, <1>3, <1>5, <1>6 DEF Narrowing
  <2>3. call'.steady =>
            /\ search'.highestFailing < call'.least
            /\ call'.least <= blockGasLimit' => call'.least <= search'.lowestSuccessful
    BY <1>1, <1>2, <1>3, <1>5, <1>6 DEF Narrowing
  <2>4. /\ search'.roundNumber \in 0 .. 21
        /\ (Diff - 1)' * Halvings(search.roundNumber)' <= blockGasLimit'
    BY <1>1, <1>2, <1>5, <1>7
  <2> QED
    BY <2>1, <2>2, <2>3, <2>4 DEF Narrowing
<1> QED
  BY <1>2, <1>5, <1>8
     DEF EstimationInv, EstimationsAreTried, EstimationsAreTight, AttemptsAreValid, Answered

LEMMA StopStep ==
    ASSUME EstimationInv, StopSearching
    PROVE  EstimationInv'
<1>1. /\ search.phase = "search" /\ (NothingBetween \/ IsCloseEnough)
      /\ search' = [search EXCEPT !.phase = "done", !.lowestSuccessful = search.lowestSuccessful,
                                  !.error = FALSE]
      /\ UNCHANGED <<call, blockGasLimit, succeeded>>
  BY DEF StopSearching, Done
<1>2. /\ search' \in Search /\ search'.phase = "done"
      /\ search'.lowestSuccessful = search.lowestSuccessful
  BY <1>1 DEF EstimationInv, Search
<1>3. Narrowing
  BY <1>1 DEF EstimationInv
<1>4. EstimationsAreTried'
  BY <1>1, <1>2, <1>3 DEF EstimationsAreTried, Narrowing
<1>5. EstimationsAreTight'
  <2> DEFINE lowest == search.lowestSuccessful
             highest == search.highestFailing
  <2>1. /\ lowest \in Nat /\ highest \in Nat /\ call.least \in Nat /\ blockGasLimit \in Nat
        /\ search.roundNumber \in 0 .. 21
    BY <1>3, CallIsTyped DEF Narrowing
  <2>2. Tolerance' = Tolerance
    BY <1>1, SMT DEF Tolerance
  <2> SUFFICES ASSUME call.steady, call.least <= blockGasLimit
               PROVE  lowest >= call.least /\ lowest <= call.least + Tolerance
    BY <1>1, <1>2, <2>2 DEF EstimationsAreTight
  <2>3. highest < call.least /\ call.least <= lowest
    BY <1>3 DEF Narrowing
  <2>4. /\ MinDiff(highest) \in Nat /\ MinDiff(call.least) \in Nat
        /\ MinDiff(highest) <= MinDiff(call.least)
    BY <2>1, <2>3, MinDiffGrows
  <2>5. /\ Tolerance \in Nat /\ MinDiff(call.least) <= Tolerance
        /\ \A diff \in Int : (diff - 1) * Halvings(21) <= blockGasLimit => diff <= Tolerance
    BY <2>1, ToleranceIsEnough
  <2>6. Diff \in Int /\ lowest = highest + Diff
    BY <2>1 DEF Diff
  <2>7. Diff <= Tolerance
    <3>1. CASE Diff <= MinDiff(highest)
      BY <2>4, <2>5, <2>6, <3>1
    <3>2. CASE search.roundNumber > 20
      <4>1. search.roundNumber = 21
        BY <2>1, <3>2
      <4>2. (Diff - 1) * Halvings(21) <= blockGasLimit
        BY <1>3, <4>1 DEF Narrowing
      <4> QED
        BY <2>5, <2>6, <4>2
    <3>3. ~ NothingBetween
      BY <2>1, <2>3 DEF NothingBetween
    <3> QED
      BY <1>1, <3>1, <3>2, <3>3 DEF IsCloseEnough, MAX_GAS_ESTIMATION_IMPROVEMENT_ROUNDS
  <2> QED
    BY <2>1, <2>3, <2>5, <2>6, <2>7
<1> QED
  BY <1>1, <1>2, <1>4, <1>5 DEF EstimationInv, AttemptsAreValid

LEMMA ThrowStep ==
    ASSUME EstimationInv, Throw
    PROVE  EstimationInv'
<1>1. /\ search' = [search EXCEPT !.phase = "thrown"]
      /\ UNCHANGED <<call, blockGasLimit, succeeded>>
      /\ NextAmount < call.intrinsic
  BY DEF Throw
<1>2. search' \in Search /\ search'.phase = "thrown"
  BY <1>1 DEF EstimationInv, Search
<1>3. search.phase # "correct"
  <2> SUFFICES ASSUME search.phase = "correct" PROVE FALSE
    OBVIOUS
  <2>1. NextAmount = InitialEstimation
    BY DEF NextAmount
  <2> QED
    BY <1>1, <2>1, CallIsTyped
<1>4. search.phase # "search"
  <2> SUFFICES ASSUME search.phase = "search" PROVE FALSE
    OBVIOUS
  <2>1. ~ NothingBetween /\ ~ IsCloseEnough /\ NewEstimation < call.intrinsic
    BY <1>1 DEF Throw, NextAmount
  <2>2. NewEstimation \in Nat /\ search.highestFailing < NewEstimation
    BY <2>1, NewEstimationIsBetween
  <2> QED
    BY <2>1, <2>2, CallIsTyped DEF EstimationInv, Narrowing
<1>5. call.gas < call.intrinsic
  BY <1>1, <1>3, <1>4 DEF Throw, NextAmount
<1> QED
  BY <1>1, <1>2, <1>5 DEF EstimationInv, EstimationsAreTried, EstimationsAreTight, AttemptsAreValid, Answered

LEMMA EstimationStep == EstimationInv /\ [EstimationNext]_estimationVars => EstimationInv'
<1> SUFFICES ASSUME EstimationInv, [EstimationNext]_estimationVars PROVE EstimationInv'
  OBVIOUS
<1>1. CASE UNCHANGED estimationVars
  BY <1>1, ToleranceStays DEF estimationVars, EstimationInv, Narrowing, Diff, InitialEstimation, EstimationsAreTried,
     EstimationsAreTight, AttemptsAreValid, Answered
<1> QED
  BY <1>1, FirstRunStep, CorrectStep, BinarySearchStep, StopStep, ThrowStep DEF EstimationNext

\* What eth_estimateGas answers was run and succeeded, or is all that a block has; the answer
\* to a steady call is enough and within the tolerance; no amount that is tried, but that of
\* the call, is below the intrinsic cost; and the bounds of the search do not cross.
THEOREM EstimationsStaySound == EstimationSpec => []EstimationsAreSound
<1>1. EstimationInv => EstimationsAreSound
  <2> SUFFICES ASSUME EstimationInv PROVE BoundsNeverCross
    BY DEF EstimationInv, EstimationsAreSound
  <2> QED
    BY CallIsTyped DEF EstimationInv, Narrowing, BoundsNeverCross, NothingBetween
<1> QED
  BY <1>1, EstimationStart, EstimationStep, PTL DEF EstimationSpec

\* An estimation is of a call that can be asked for, and its amounts are numbers.
THEOREM EstimationTypeCorrect == EstimationSpec => []EstimationTypeOK
<1>1. EstimationInv => EstimationTypeOK
  BY CallIsTyped DEF EstimationInv, EstimationTypeOK
<1> QED
  BY <1>1, EstimationStart, EstimationStep, PTL DEF EstimationSpec

-----------------------------------------------------------------------------
(* Filters: what a history has.                                            *)

\* A sequence made of a set has each of its members once.
LEMMA SetsAreListedOnce ==
    ASSUME NEW S, IsFiniteSet(S)
    PROVE  /\ SetToSeq(S) \in Seq(S)
           /\ \A x \in S : Once(x, SetToSeq(S))
           /\ \A x : x \notin S => Never(x, SetToSeq(S))
<1> DEFINE n == Cardinality(S)
           s == SetToSeq(S)
<1>1. n \in Nat /\ ExistsBijection(1..n, S)
  BY FS_CardinalityType
<1>2. \E f \in [1..n -> S] : IsInjective(f)
  BY <1>1 DEF ExistsBijection, Bijection, Injection, IsInjective
<1>3. s \in [1..n -> S] /\ IsInjective(s)
  BY <1>2 DEF SetToSeq
<1>4. s \in Injection(1..n, S)
  BY <1>3 DEF Injection, IsInjective
<1>5. Cardinality(1..n) = n
  BY <1>1, FS_Interval
<1>6. s \in Surjection(1..n, S)
  BY <1>4, <1>5, FS_Injection
<1>7. s \in Seq(S) /\ DOMAIN s = 1..n
  BY <1>1, <1>3
<1>8. \A i, j \in 1..n : s[i] = s[j] => i = j
  BY <1>3 DEF IsInjective
<1>9. \A x \in S : \E i \in 1..n : s[i] = x
  BY <1>6 DEF Surjection
<1>10. \A i \in 1..n : s[i] \in S
  BY <1>3
<1> HIDE DEF n, s
<1> QED
  BY <1>7, <1>8, <1>9, <1>10 DEF s, Once, Never

\* Who was given something has it once if it was given once before or after.
LEMMA GivenOnce ==
    ASSUME NEW S, NEW T, NEW s \in Seq(S), NEW t \in Seq(T), NEW x
    PROVE  /\ Never(x, s \o t) <=> Never(x, s) /\ Never(x, t)
           /\ Once(x, s) /\ Never(x, t) => Once(x, s \o t)
           /\ Never(x, s) /\ Once(x, t) => Once(x, s \o t)
<1> DEFINE c == s \o t
           m == Len(s)
           n == Len(t)
<1>1. s \in Seq(S \union T) /\ t \in Seq(S \union T)
  OBVIOUS
<1>2. m \in Nat /\ n \in Nat /\ DOMAIN s = 1..m /\ DOMAIN t = 1..n
  BY LenProperties
<1>3. c \in Seq(S \union T) /\ Len(c) = m + n
  BY <1>1, ConcatProperties
<1>4. DOMAIN c = 1..(m + n)
  BY <1>3, LenProperties
<1>5. \A i \in 1..(m + n) : c[i] = IF i <= m THEN s[i] ELSE t[i - m]
  BY <1>1, ConcatProperties
<1> HIDE DEF c, m, n
<1>6. \A i \in 1..m : i \in 1..(m + n) /\ c[i] = s[i]
  BY <1>2, <1>5
<1>7. \A i \in 1..n : m + i \in 1..(m + n) /\ c[m + i] = t[i]
  <2> TAKE i \in 1..n
  <2>1. m + i \in 1..(m + n) /\ ~ (m + i <= m) /\ (m + i) - m = i
    BY <1>2
  <2> QED
    BY <1>5, <2>1
<1>8. \A j \in 1..(m + n) : (j \in 1..m /\ c[j] = s[j]) \/ (j - m \in 1..n /\ c[j] = t[j - m])
  BY <1>2, <1>5
<1>9. Never(x, c) <=> Never(x, s) /\ Never(x, t)
  BY <1>2, <1>4, <1>6, <1>7, <1>8 DEF Never
<1>10. Once(x, s) /\ Never(x, t) => Once(x, c)
  <2> SUFFICES ASSUME Once(x, s), Never(x, t) PROVE Once(x, c)
    OBVIOUS
  <2>0. PICK i \in DOMAIN s : \A j \in DOMAIN s : s[j] = x <=> j = i
    BY DEF Once
  <2>1. i \in 1..m /\ \A j \in 1..m : s[j] = x <=> j = i
    BY <1>2, <2>0
  <2>2. \A j \in 1..(m + n) : c[j] = x <=> j = i
    BY <1>2, <1>6, <1>8, <2>1 DEF Never
  <2> QED
    BY <1>4, <1>6, <2>1, <2>2 DEF Once
<1>11. Never(x, s) /\ Once(x, t) => Once(x, c)
  <2> SUFFICES ASSUME Never(x, s), Once(x, t) PROVE Once(x, c)
    OBVIOUS
  <2>0. PICK i \in DOMAIN t : \A j \in DOMAIN t : t[j] = x <=> j = i
    BY DEF Once
  <2>1. i \in 1..n /\ \A j \in 1..n : t[j] = x <=> j = i
    BY <1>2, <2>0
  <2>2. m + i \in 1..(m + n) /\ c[m + i] = x
    BY <1>7, <2>1
  <2>3. \A j \in 1..(m + n) : c[j] = x <=> j = m + i
    <3> TAKE j \in 1..(m + n)
    <3>1. CASE j \in 1..m /\ c[j] = s[j]
      BY <1>2, <2>1, <3>1 DEF Never
    <3>2. CASE j - m \in 1..n /\ c[j] = t[j - m]
      <4>1. c[j] = x <=> j - m = i
        BY <2>1, <3>2
      <4> QED
        BY <1>2, <4>1
    <3> QED
      BY <1>8, <3>1, <3>2
  <2> QED
    BY <1>4, <2>2, <2>3 DEF Once
<1> QED
  BY <1>9, <1>10, <1>11 DEF c

-----------------------------------------------------------------------------
(* What is given of a block.                                               *)

Logs == UNION LogsOfBlocks

\* A block, with a bloom that has everything in it.
SoundBlock ==
    {b \in [hash : Nat, logs : LogsOfBlocks \union {{}}, bloom : SUBSET Items(Logs), announced : BOOLEAN] :
        Items(b.logs) \subseteq b.bloom}

\* What a filter asks for, once it was clipped.
AskedFor ==
    [fromBlock : Nat, toBlock : BlockNumbers,
     addresses : {c.addresses : c \in Criteria} \union {{}}, topics : {c.topics : c \in Criteria} \union {<<>>}]

LEMMA SoundBlocksAreTyped ==
    ASSUME NEW block \in SoundBlock
    PROVE  /\ block.hash \in Nat /\ IsFiniteSet(block.logs) /\ block.logs \subseteq Logs
           /\ Items(block.logs) \subseteq block.bloom
           /\ \A log \in block.logs : IsSequence(log.topics)
<1>1. block.hash \in Nat /\ block.logs \in LogsOfBlocks \union {{}} /\ Items(block.logs) \subseteq block.bloom
  BY DEF SoundBlock
<1>2. CASE block.logs = {}
  BY <1>1, <1>2, FS_EmptySet
<1>3. CASE block.logs \in LogsOfBlocks
  BY <1>1, <1>3, FiltersAssumption DEF Logs
<1> QED
  BY <1>1, <1>2, <1>3

LEMMA TopicsAreSequences ==
    ASSUME NEW criteria \in AskedFor
    PROVE  Len(criteria.topics) \in Nat /\ DOMAIN criteria.topics = 1..Len(criteria.topics)
<1>1. criteria.topics \in {c.topics : c \in Criteria} \union {<<>>}
  BY DEF AskedFor
<1>2. CASE criteria.topics = <<>>
  BY <1>2
<1>3. CASE \E c \in Criteria : criteria.topics = c.topics
  <2>1. IsSequence(criteria.topics)
    BY <1>3, FiltersAssumption
  <2> QED
    BY <2>1, LenProperties DEF IsSequence
<1> QED
  BY <1>1, <1>2, <1>3

\* The topics of a log match if there is one for each position that one is asked for.
LEMMA TopicsMatch ==
    ASSUME NEW criteria \in AskedFor, NEW log, IsSequence(log.topics)
    PROVE  topicMatched(criteria.topics, log.topics) <=>
             \A i \in DOMAIN criteria.topics :
               /\ i \in DOMAIN log.topics
               /\ criteria.topics[i] \intersect {log.topics[i], NullTopic} # {} \/ criteria.topics[i] = {}
<1> DEFINE topics == criteria.topics
           logTopics == log.topics
<1>1. Len(topics) \in Nat /\ DOMAIN topics = 1..Len(topics)
  BY TopicsAreSequences
<1>2. Len(logTopics) \in Nat /\ DOMAIN logTopics = 1..Len(logTopics)
  BY LenProperties DEF IsSequence
<1> HIDE DEF topics, logTopics
<1>3. \A i : (topics[i] = {} \/ NullTopic \in topics[i] \/ logTopics[i] \in topics[i])
               <=> (topics[i] \intersect {logTopics[i], NullTopic} # {} \/ topics[i] = {})
  OBVIOUS
<1>4. ASSUME topicMatched(topics, logTopics), NEW i \in DOMAIN topics
      PROVE  i \in DOMAIN logTopics
  BY <1>1, <1>2, <1>4 DEF topicMatched
<1>5. ASSUME \A i \in DOMAIN topics : i \in DOMAIN logTopics, DOMAIN topics # {}
      PROVE  Len(topics) <= Len(logTopics)
  BY <1>1, <1>2, <1>5
<1> QED
  BY <1>3, <1>4, <1>5 DEF topicMatched, topics, logTopics

\* The bloom of a block has what a filter wants of it, if more than a null matches.
LEMMA BloomsHideNothing ==
    ASSUME NEW block \in SoundBlock, NEW n, NEW criteria \in AskedFor, NEW log \in block.logs,
           Wanted(n, log, criteria), ~ OnlyNullMatches(log, criteria)
    PROVE  bloomFilter(block.bloom, criteria.addresses, criteria.topics)
<1>1. {log.address} \union Range(log.topics) \subseteq block.bloom
  BY SoundBlocksAreTyped DEF Items
<1>2. criteria.addresses = {} \/ criteria.addresses \intersect block.bloom # {}
  BY <1>1 DEF Wanted
<1>3. ASSUME NEW i \in DOMAIN criteria.topics, criteria.topics[i] # {}
      PROVE  (criteria.topics[i] \ {NullTopic}) \intersect block.bloom # {}
  <2>1. i \in DOMAIN log.topics /\ criteria.topics[i] \intersect {log.topics[i], NullTopic} # {}
    BY <1>3 DEF Wanted
  <2>2. log.topics[i] \in criteria.topics[i] \ {NullTopic}
    BY <1>3 DEF OnlyNullMatches
  <2>3. log.topics[i] \in block.bloom
    BY <1>1, <2>1 DEF Range
  <2> QED
    BY <2>2, <2>3
<1> QED
  BY <1>2, <1>3 DEF bloomFilter

\* The logs of a block for a filter are those it wants, but for those only a null matches.
LEMMA LogsOfABlock ==
    ASSUME NEW block \in SoundBlock, NEW n \in Nat, NEW criteria \in AskedFor
    PROVE  /\ IsFiniteSet(LogsOf(block, n, criteria))
           /\ LogsOf(block, n, criteria) \subseteq {block.hash} \X block.logs
           /\ \A log \in block.logs : <<block.hash, log>> \in LogsOf(block, n, criteria) => Wanted(n, log, criteria)
           /\ \A log \in block.logs :
                Wanted(n, log, criteria) => <<block.hash, log>> \in LogsOf(block, n, criteria) \/ OnlyNullMatches(log, criteria)
<1> DEFINE given == LogsOf(block, n, criteria)
<1>1. \A log \in block.logs : log \in filterLogs(n, block.logs, criteria) <=> Wanted(n, log, criteria)
  <2> TAKE log \in block.logs
  <2>1. IsSequence(log.topics)
    BY SoundBlocksAreTyped
  <2> QED
    BY <2>1, TopicsMatch DEF filterLogs, Wanted
<1>2. filterLogs(n, block.logs, criteria) \subseteq block.logs
  BY DEF filterLogs
<1>3. given \subseteq {block.hash} \X block.logs
  BY <1>2 DEF LogsOf
<1>4. IsFiniteSet({block.hash} \X block.logs)
  BY SoundBlocksAreTyped, FS_Singleton, FS_Product
<1>5. IsFiniteSet(given)
  BY <1>3, <1>4, FS_Subset
<1>6. \A log \in block.logs :
        <<block.hash, log>> \in given <=>
            /\ bloomFilter(block.bloom, criteria.addresses, criteria.topics)
            /\ log \in filterLogs(n, block.logs, criteria)
  BY DEF LogsOf
<1> QED
  BY <1>1, <1>3, <1>5, <1>6, BloomsHideNothing

-----------------------------------------------------------------------------
(* The invariant.                                                          *)

\* Hashes only grow along the chain, and blocks nobody was told of are empty.
ChainIsOrdered ==
    /\ blocks \in Seq(SoundBlock) /\ Len(blocks) >= 1
    /\ mined \in Nat /\ pooled \in Nat /\ now \in Nat /\ lastFilterId \in Nat
    /\ \A i \in DOMAIN blocks : blocks[i].hash <= mined /\ (~ blocks[i].announced => blocks[i].logs = {})
    /\ \A i, j \in DOMAIN blocks : i < j => blocks[i].hash < blocks[j].hash
    /\ lengths = <<>> \/ \E n \in 1..Len(blocks) : lengths = <<n>>

FilterRecord ==
    [type : {"blocks", "logs", "pendingTransactions"}, criteria : AskedFor, subscription : BOOLEAN,
     deadline : Nat, history : Seq(Nat \union (Nat \X Logs)), collected : Nat,
     born : Nat, bornTx : Nat, polled : Nat]

FilterIsTyped(filter) ==
    /\ filter \in FilterRecord
    /\ filter.collected <= Len(filter.history)
    /\ filter.bornTx <= pooled
    /\ filter.deadline = filter.polled + Lifetime

\* The history of a block filter is in the order of the hashes.
BlocksAreKnown(filter) ==
    filter.type = "blocks" =>
        /\ filter.history \in Seq(Nat)
        /\ \A i \in DOMAIN filter.history : filter.history[i] <= mined
        /\ \A i, j \in DOMAIN filter.history : i < j => filter.history[i] < filter.history[j]
        /\ \A i \in DOMAIN blocks :
            blocks[i].announced /\ blocks[i].hash > filter.born =>
                \E m \in DOMAIN filter.history : filter.history[m] = blocks[i].hash

\* A log filter knows of no block that is still to be mined.
LogsAreKnown(filter) ==
    filter.type = "logs" =>
        /\ filter.history \in Seq(Nat \X Logs)
        /\ \A i \in DOMAIN filter.history : filter.history[i][1] <= mined
        /\ \A n \in 0..LatestNumber : LogsAreGiven(blocks[n + 1], n, filter.criteria, filter.history)

TransactionsAreKnown(filter) ==
    filter.type = "pendingTransactions" =>
        filter.history = [i \in 1..pooled - filter.bornTx |-> filter.bornTx + i]

FilterIsKept(filter) ==
    FilterIsTyped(filter) /\ BlocksAreKnown(filter) /\ LogsAreKnown(filter) /\ TransactionsAreKnown(filter)

\* The inductive invariant.
FiltersInv ==
    /\ ChainIsOrdered
    /\ filters = [id \in DOMAIN filters |-> filters[id]] /\ DOMAIN filters \subseteq 1..lastFilterId
    /\ \A id \in DOMAIN filters : FilterIsKept(filters[id])

LEMMA BlocksAreNumbered ==
    ASSUME ChainIsOrdered
    PROVE  /\ Len(blocks) \in Nat /\ Len(blocks) >= 1 /\ DOMAIN blocks = 1..Len(blocks)
           /\ LatestNumber \in Nat /\ LatestNumber + 1 = Len(blocks) /\ Latest = blocks[Len(blocks)]
           /\ \A i \in 1..Len(blocks) : blocks[i] \in SoundBlock /\ blocks[i].hash \in Nat
<1>1. blocks \in Seq(SoundBlock) /\ Len(blocks) >= 1
  BY DEF ChainIsOrdered
<1>2. Len(blocks) \in Nat /\ DOMAIN blocks = 1..Len(blocks)
  BY <1>1, LenProperties
<1>3. \A i \in 1..Len(blocks) : blocks[i] \in SoundBlock
  BY <1>1, <1>2, ElementOfSeq
<1> QED
  BY <1>1, <1>2, <1>3, SoundBlocksAreTyped DEF LatestNumber, Latest, Last

\* What the invariant is for.
LEMMA KeptFiltersAreTold ==
    FiltersInv => FiltersTypeOK /\ FiltersAreTold
<1> SUFFICES ASSUME FiltersInv PROVE FiltersTypeOK /\ FiltersAreTold
  OBVIOUS
<1>1. ChainIsOrdered /\ \A id \in DOMAIN filters : FilterIsKept(filters[id])
  BY DEF FiltersInv
<1>2. FiltersTypeOK
  <2>1. ASSUME NEW id \in DOMAIN filters
        PROVE  /\ filters[id].type \in {"blocks", "logs", "pendingTransactions"}
               /\ filters[id].collected \in 0 .. Len(filters[id].history)
               /\ filters[id].deadline \in Nat
    <3>1. filters[id] \in FilterRecord /\ filters[id].collected <= Len(filters[id].history)
      BY <1>1 DEF FilterIsKept, FilterIsTyped
    <3>2. Len(filters[id].history) \in Nat /\ filters[id].collected \in Nat
      BY <3>1, LenProperties DEF FilterRecord
    <3> QED
      BY <3>1, <3>2 DEF FilterRecord
  <2>2. \A i \in DOMAIN lengths : lengths[i] \in 1 .. Len(blocks)
    BY <1>1 DEF ChainIsOrdered
  <2> QED
    BY <2>1, <2>2 DEF FiltersTypeOK, FiltersInv
<1>3. BlocksAreTold
  <2> SUFFICES ASSUME NEW id \in DOMAIN filters, filters[id].type = "blocks"
               PROVE  BlocksAreGiven(filters[id].born, filters[id].history)
    BY DEF BlocksAreTold
  <2> DEFINE history == filters[id].history
             born == filters[id].born
  <2>1. /\ history \in Seq(Nat)
        /\ \A i, j \in DOMAIN history : i < j => history[i] < history[j]
        /\ \A i \in DOMAIN blocks : blocks[i].announced /\ blocks[i].hash > born =>
             \E m \in DOMAIN history : history[m] = blocks[i].hash
    BY <1>1 DEF FilterIsKept, BlocksAreKnown
  <2>2. DOMAIN history = 1..Len(history) /\ Len(history) \in Nat /\ \A i \in DOMAIN history : history[i] \in Nat
    BY <2>1, LenProperties, ElementOfSeq
  <2>3. DOMAIN blocks = 1..Len(blocks) /\ Len(blocks) \in Nat /\ \A i \in DOMAIN blocks : blocks[i].hash \in Nat
    BY <1>1, BlocksAreNumbered
  <2>4. \A i, j \in DOMAIN blocks : i < j => blocks[i].hash < blocks[j].hash
    BY <1>1 DEF ChainIsOrdered
  <2> HIDE DEF history, born
  <2>5. \A i, j \in DOMAIN history : history[i] = history[j] => i = j
    BY <2>1, <2>2
  <2>6. \A i, j \in DOMAIN history : history[i] < history[j] => i < j
    <3> SUFFICES ASSUME NEW i \in DOMAIN history, NEW j \in DOMAIN history,
                        history[i] < history[j], ~ (i < j)
                 PROVE  FALSE
      OBVIOUS
    <3>1. i = j \/ j < i
      BY <2>2
    <3> QED
      BY <2>1, <2>2, <3>1
  <2>7. ASSUME NEW i \in DOMAIN blocks, blocks[i].announced, blocks[i].hash > born
        PROVE  Once(blocks[i].hash, history)
    <3>1. PICK m \in DOMAIN history : history[m] = blocks[i].hash
      BY <2>1, <2>7
    <3>2. \A j \in DOMAIN history : history[j] = blocks[i].hash <=> j = m
      BY <2>5, <3>1
    <3> QED
      BY <3>2 DEF Once
  <2>8. ASSUME NEW i \in DOMAIN blocks, NEW j \in DOMAIN blocks, NEW m \in DOMAIN history, NEW n \in DOMAIN history,
               history[m] = blocks[i].hash, history[n] = blocks[j].hash, i < j
        PROVE  m < n
    BY <2>4, <2>6, <2>8
  <2> QED
    BY <2>7, <2>8 DEF BlocksAreGiven, history, born
<1>4. LogsAreTold
  BY <1>1 DEF LogsAreTold, FilterIsKept, LogsAreKnown
<1>5. TransactionsAreTold
  BY <1>1 DEF TransactionsAreTold, FilterIsKept, TransactionsAreKnown
<1> QED
  BY <1>2, <1>3, <1>4, <1>5 DEF FiltersAreTold

-----------------------------------------------------------------------------
(* The news of a block.                                                    *)

\* Of a block it knew nothing of, a filter is given the logs it wants.
LEMMA NewsAreGiven ==
    ASSUME NEW block \in SoundBlock, NEW n \in Nat, NEW criteria \in AskedFor,
           NEW history \in Seq(Nat \X Logs), \A i \in DOMAIN history : history[i][1] # block.hash
    PROVE  /\ LogsAreGiven(block, n, criteria, history \o SetToSeq(LogsOf(block, n, criteria)))
           /\ history \o SetToSeq(LogsOf(block, n, criteria)) \in Seq(Nat \X Logs)
<1> DEFINE new == LogsOf(block, n, criteria)
           news == SetToSeq(new)
<1>1. IsFiniteSet(new) /\ new \subseteq {block.hash} \X block.logs
  BY LogsOfABlock
<1>2. news \in Seq(new) /\ (\A x \in new : Once(x, news)) /\ \A x : x \notin new => Never(x, news)
  BY <1>1, SetsAreListedOnce
<1>3. new \subseteq Nat \X Logs
  BY <1>1, SoundBlocksAreTyped
<1>4. news \in Seq(Nat \X Logs) /\ history \o news \in Seq(Nat \X Logs)
  BY <1>2, <1>3
<1> HIDE DEF news
<1>5. ASSUME NEW log \in block.logs
      PROVE  IF Wanted(n, log, criteria)
             THEN \/ Once(<<block.hash, log>>, history \o news)
                  \/ Never(<<block.hash, log>>, history \o news) /\ OnlyNullMatches(log, criteria)
             ELSE Never(<<block.hash, log>>, history \o news)
  <2> DEFINE item == <<block.hash, log>>
  <2>1. Never(item, history)
    BY DEF Never
  <2>2. item \in new => Once(item, history \o news)
    BY <1>2, <1>4, <2>1, GivenOnce
  <2>3. item \notin new => Never(item, history \o news)
    BY <1>2, <1>4, <2>1, GivenOnce
  <2>4. item \in new => Wanted(n, log, criteria)
    BY LogsOfABlock
  <2>5. Wanted(n, log, criteria) => item \in new \/ OnlyNullMatches(log, criteria)
    BY LogsOfABlock
  <2> HIDE DEF item, new
  <2> QED
    BY <2>2, <2>3, <2>4, <2>5 DEF item
<1> QED
  BY <1>4, <1>5 DEF LogsAreGiven, news

\* What was given of other blocks is as it was.
LEMMA NewsOfOthers ==
    ASSUME NEW block \in SoundBlock, NEW n \in Nat, NEW criteria \in AskedFor, NEW wanted \in AskedFor,
           NEW other, NEW m, block.hash # other.hash,
           NEW history \in Seq(Nat \X Logs), LogsAreGiven(other, m, wanted, history)
    PROVE  LogsAreGiven(other, m, wanted, history \o SetToSeq(LogsOf(block, n, criteria)))
<1> DEFINE new == LogsOf(block, n, criteria)
           news == SetToSeq(new)
<1>1. IsFiniteSet(new) /\ new \subseteq {block.hash} \X block.logs
  BY LogsOfABlock
<1>2. news \in Seq(new) /\ \A x : x \notin new => Never(x, news)
  BY <1>1, SetsAreListedOnce
<1> HIDE DEF news
<1>3. ASSUME NEW log
      PROVE  /\ Once(<<other.hash, log>>, history) => Once(<<other.hash, log>>, history \o news)
             /\ Never(<<other.hash, log>>, history) => Never(<<other.hash, log>>, history \o news)
  <2>1. Never(<<other.hash, log>>, news)
    BY <1>1, <1>2
  <2> QED
    BY <1>2, <2>1, GivenOnce
<1> HIDE DEF new
<1>4. \A log \in other.logs : IF Wanted(m, log, wanted)
             THEN \/ Once(<<other.hash, log>>, history)
                  \/ Never(<<other.hash, log>>, history) /\ OnlyNullMatches(log, wanted)
             ELSE Never(<<other.hash, log>>, history)
  BY DEF LogsAreGiven
<1>5. LogsAreGiven(other, m, wanted, history \o news)
  BY <1>3, <1>4 DEF LogsAreGiven
<1> QED
  BY <1>5 DEF news, new

\* The logs found when a filter is made are those of the chain.
LEMMA FoundLogs ==
    ASSUME ChainIsOrdered, NEW criteria \in AskedFor, criteria.fromBlock <= LatestNumber
    PROVE  /\ SetToSeq(GetLogs(criteria)) \in Seq(Nat \X Logs)
           /\ \A i \in DOMAIN SetToSeq(GetLogs(criteria)) : SetToSeq(GetLogs(criteria))[i][1] <= mined
           /\ \A n \in 0..LatestNumber : LogsAreGiven(blocks[n + 1], n, criteria, SetToSeq(GetLogs(criteria)))
<1> DEFINE params == ComputeFilterParams(criteria, FALSE)
           range == params.fromBlock .. params.toBlock
           found(n) == LogsOf(blocks[n + 1], n, params)
           all == GetLogs(criteria)
           history == SetToSeq(all)
<1>1. criteria.fromBlock \in Nat /\ criteria.toBlock \in BlockNumbers /\ LatestNumber \in Nat
  BY BlocksAreNumbered DEF AskedFor
<1>2. /\ params \in AskedFor /\ params.fromBlock = criteria.fromBlock
      /\ params.addresses = criteria.addresses /\ params.topics = criteria.topics
      /\ params.toBlock \in 0..LatestNumber
      /\ \A n \in 0..LatestNumber : n <= params.toBlock <=> n <= criteria.toBlock \/ criteria.toBlock = LATEST_BLOCK
  <2>1. Clip(criteria.fromBlock) = criteria.fromBlock
    BY <1>1 DEF Clip, LATEST_BLOCK
  <2>2. Clip(criteria.toBlock) \in 0..LatestNumber
    BY <1>1 DEF Clip, LATEST_BLOCK, BlockNumbers
  <2>3. \A n \in 0..LatestNumber :
          n <= Clip(criteria.toBlock) <=> n <= criteria.toBlock \/ criteria.toBlock = LATEST_BLOCK
    BY <1>1 DEF Clip, LATEST_BLOCK, BlockNumbers
  <2>4. params = [criteria EXCEPT !.fromBlock = Clip(@), !.toBlock = Clip(@)]
    BY DEF ComputeFilterParams
  <2>5. params \in AskedFor
    <3>1. Clip(criteria.fromBlock) \in Nat /\ Clip(criteria.toBlock) \in BlockNumbers
      BY <1>1, <2>1, <2>2 DEF BlockNumbers
    <3> QED
      BY <2>4, <3>1 DEF AskedFor
  <2>6. params.fromBlock = Clip(criteria.fromBlock) /\ params.toBlock = Clip(criteria.toBlock)
        /\ params.addresses = criteria.addresses /\ params.topics = criteria.topics
    BY <2>4 DEF AskedFor
  <2> HIDE DEF params
  <2> QED
    BY <2>1, <2>2, <2>3, <2>5, <2>6
<1> HIDE DEF params
<1>3. range \subseteq 0..LatestNumber
  BY <1>1, <1>2
<1>4. ASSUME NEW n \in 0..LatestNumber
      PROVE  n \in Nat /\ n + 1 \in 1..Len(blocks) /\ blocks[n + 1] \in SoundBlock /\ blocks[n + 1].hash \in 0..mined
  <2>1. n \in Nat /\ n + 1 \in 1..Len(blocks)
    BY BlocksAreNumbered
  <2>2. blocks[n + 1] \in SoundBlock /\ blocks[n + 1].hash \in Nat /\ blocks[n + 1].hash <= mined
    BY <2>1, BlocksAreNumbered DEF ChainIsOrdered
  <2> QED
    BY <2>1, <2>2 DEF ChainIsOrdered
<1>5. ASSUME NEW n \in range
      PROVE  IsFiniteSet(found(n)) /\ found(n) \subseteq {blocks[n + 1].hash} \X blocks[n + 1].logs
  BY <1>2, <1>3, <1>4, LogsOfABlock
<1>6. all = UNION {found(n) : n \in range}
  BY DEF GetLogs, params
<1> HIDE DEF found, all, range
<1>7. IsFiniteSet(all)
  <2> DEFINE f == [n \in range |-> found(n)]
             sets == {found(n) : n \in range}
  <2>1. f \in Surjection(range, sets)
    BY DEF Surjection
  <2>2. IsFiniteSet(range)
    <3>1. params.fromBlock \in Int /\ params.toBlock \in Int
      BY <1>1, <1>2
    <3> QED
      BY <3>1, FS_Interval DEF range
  <2>3. IsFiniteSet(sets)
    BY <2>1, <2>2, FS_Surjection
  <2> QED
    BY <1>5, <1>6, <2>3, FS_UNION
<1>8. ASSUME NEW x \in all
      PROVE  \E n \in range : \E log \in blocks[n + 1].logs : x = <<blocks[n + 1].hash, log>> /\ x \in found(n)
  BY <1>5, <1>6
<1>9. all \subseteq (0..mined) \X Logs
  <2> SUFFICES ASSUME NEW x \in all PROVE x \in (0..mined) \X Logs
    OBVIOUS
  <2>1. PICK n \in range : \E log \in blocks[n + 1].logs : x = <<blocks[n + 1].hash, log>>
    BY <1>8
  <2>2. blocks[n + 1].logs \subseteq Logs /\ blocks[n + 1].hash \in 0..mined
    BY <1>3, <1>4, SoundBlocksAreTyped
  <2> QED
    BY <2>1, <2>2
<1>10. history \in Seq(all) /\ (\A x \in all : Once(x, history)) /\ \A x : x \notin all => Never(x, history)
  BY <1>7, SetsAreListedOnce
<1> HIDE DEF history
<1>11. history \in Seq(Nat \X Logs)
  BY <1>9, <1>10
<1>12. \A i \in DOMAIN history : history[i][1] <= mined
  <2> TAKE i \in DOMAIN history
  <2>1. history[i] \in all
    BY <1>10, ElementOfSeq, LenProperties
  <2>2. mined \in Nat
    BY DEF ChainIsOrdered
  <2> QED
    BY <1>9, <2>1, <2>2
<1>13. ASSUME NEW n \in 0..LatestNumber, NEW log \in blocks[n + 1].logs
       PROVE  <<blocks[n + 1].hash, log>> \in all <=> n \in range /\ <<blocks[n + 1].hash, log>> \in found(n)
  <2> DEFINE item == <<blocks[n + 1].hash, log>>
  <2>1. n \in range /\ item \in found(n) => item \in all
    BY <1>6
  <2>2. ASSUME item \in all PROVE n \in range /\ item \in found(n)
    <3>1. PICK m \in range : \E l \in blocks[m + 1].logs : item = <<blocks[m + 1].hash, l>> /\ item \in found(m)
      BY <1>8, <2>2
    <3>2. m + 1 \in 1..Len(blocks) /\ n + 1 \in 1..Len(blocks) /\ blocks[m + 1].hash = blocks[n + 1].hash
      BY <1>3, <1>4, <3>1
    <3>3. blocks[m + 1].hash \in Nat /\ DOMAIN blocks = 1..Len(blocks)
      BY <3>2, BlocksAreNumbered
    <3>4. ~ (m + 1 < n + 1) /\ ~ (n + 1 < m + 1)
      BY <3>2, <3>3 DEF ChainIsOrdered
    <3>5. m = n
      BY <1>3, <3>4
    <3> QED
      BY <3>1, <3>5
  <2> QED
    BY <2>1, <2>2
<1>14. ASSUME NEW n \in 0..LatestNumber, NEW log \in blocks[n + 1].logs
       PROVE  IF Wanted(n, log, criteria)
              THEN \/ Once(<<blocks[n + 1].hash, log>>, history)
                   \/ Never(<<blocks[n + 1].hash, log>>, history) /\ OnlyNullMatches(log, criteria)
              ELSE Never(<<blocks[n + 1].hash, log>>, history)
  <2> DEFINE item == <<blocks[n + 1].hash, log>>
  <2>1. Wanted(n, log, params) <=> Wanted(n, log, criteria)
    <3>1. n <= params.toBlock \/ params.toBlock = LATEST_BLOCK <=> n <= criteria.toBlock \/ criteria.toBlock = LATEST_BLOCK
      BY <1>1, <1>2 DEF LATEST_BLOCK
    <3> QED
      BY <1>2, <3>1 DEF Wanted
  <2>2. OnlyNullMatches(log, params) <=> OnlyNullMatches(log, criteria)
    BY <1>2 DEF OnlyNullMatches
  <2>3. Wanted(n, log, criteria) => n \in range
    BY <1>1, <1>2 DEF Wanted, range
  <2>4. item \in found(n) => Wanted(n, log, params)
    BY <1>2, <1>4, LogsOfABlock DEF found
  <2>5. Wanted(n, log, params) => item \in found(n) \/ OnlyNullMatches(log, params)
    BY <1>2, <1>4, LogsOfABlock DEF found
  <2>6. item \in all <=> n \in range /\ item \in found(n)
    BY <1>13
  <2> HIDE DEF item
  <2>7. (item \in all => Once(item, history)) /\ (item \notin all => Never(item, history))
    BY <1>10
  <2>8. IF Wanted(n, log, criteria)
        THEN Once(item, history) \/ (Never(item, history) /\ OnlyNullMatches(log, criteria))
        ELSE Never(item, history)
    BY <2>1, <2>2, <2>3, <2>4, <2>5, <2>6, <2>7
  <2> QED
    BY <2>8 DEF item
<1> QED
  BY <1>11, <1>12, <1>14 DEF LogsAreGiven, history, all

-----------------------------------------------------------------------------
(* What the steps mean to one filter.                                      *)

\* The blocks that are new are empty, and nobody was to be told of them.
NothingToTell ==
    /\ mined \in Nat /\ mined' \in Nat /\ mined <= mined'
    /\ \A i \in DOMAIN blocks' :
        \/ i \in DOMAIN blocks /\ blocks'[i] = blocks[i]
        \/ ~ blocks'[i].announced /\ blocks'[i].logs = {}

LEMMA UntoldFilterIsKept ==
    ASSUME ChainIsOrdered, ChainIsOrdered', NothingToTell, UNCHANGED pooled, NEW filter, FilterIsKept(filter)
    PROVE  FilterIsKept(filter)'
<1>1. FilterIsTyped(filter)' /\ TransactionsAreKnown(filter)'
  BY DEF FilterIsKept, FilterIsTyped, TransactionsAreKnown
<1>2. BlocksAreKnown(filter)'
  <2> SUFFICES ASSUME filter.type = "blocks"
               PROVE  /\ filter.history \in Seq(Nat)
                      /\ \A i \in DOMAIN filter.history : filter.history[i] <= mined'
                      /\ \A i, j \in DOMAIN filter.history : i < j => filter.history[i] < filter.history[j]
                      /\ \A i \in DOMAIN blocks' :
                           blocks'[i].announced /\ blocks'[i].hash > filter.born =>
                             \E m \in DOMAIN filter.history : filter.history[m] = blocks'[i].hash
    BY DEF BlocksAreKnown
  <2>1. /\ filter.history \in Seq(Nat)
        /\ \A i \in DOMAIN filter.history : filter.history[i] <= mined
        /\ \A i, j \in DOMAIN filter.history : i < j => filter.history[i] < filter.history[j]
        /\ \A i \in DOMAIN blocks :
             blocks[i].announced /\ blocks[i].hash > filter.born =>
               \E m \in DOMAIN filter.history : filter.history[m] = blocks[i].hash
    BY DEF FilterIsKept, BlocksAreKnown
  <2>2. \A i \in DOMAIN filter.history : filter.history[i] \in Nat
    BY <2>1, ElementOfSeq, LenProperties
  <2>3. \A i \in DOMAIN filter.history : filter.history[i] <= mined'
    BY <2>1, <2>2 DEF NothingToTell
  <2>4. \A i \in DOMAIN blocks' : blocks'[i].announced => i \in DOMAIN blocks /\ blocks'[i] = blocks[i]
    BY DEF NothingToTell
  <2> QED
    BY <2>1, <2>3, <2>4
<1>3. LogsAreKnown(filter)'
  <2> SUFFICES ASSUME filter.type = "logs"
               PROVE  /\ filter.history \in Seq(Nat \X Logs)
                      /\ \A i \in DOMAIN filter.history : filter.history[i][1] <= mined'
                      /\ \A n \in 0..LatestNumber' : LogsAreGiven(blocks'[n + 1], n, filter.criteria, filter.history)
    BY DEF LogsAreKnown
  <2>1. /\ filter.history \in Seq(Nat \X Logs)
        /\ \A i \in DOMAIN filter.history : filter.history[i][1] <= mined
        /\ \A n \in 0..LatestNumber : LogsAreGiven(blocks[n + 1], n, filter.criteria, filter.history)
    BY DEF FilterIsKept, LogsAreKnown
  <2>2. \A i \in DOMAIN filter.history : filter.history[i] \in Nat \X Logs
    BY <2>1, ElementOfSeq, LenProperties
  <2>3. \A i \in DOMAIN filter.history : filter.history[i][1] <= mined'
    BY <2>1, <2>2 DEF NothingToTell
  <2>4. ASSUME NEW n \in 0..LatestNumber'
        PROVE  LogsAreGiven(blocks'[n + 1], n, filter.criteria, filter.history)
    <3>1. /\ LatestNumber \in Nat /\ LatestNumber + 1 = Len(blocks) /\ DOMAIN blocks = 1..Len(blocks)
          /\ LatestNumber' \in Nat /\ LatestNumber' + 1 = Len(blocks') /\ DOMAIN blocks' = 1..Len(blocks')
      <4>1. blocks' \in Seq(SoundBlock) /\ Len(blocks') >= 1
        BY DEF ChainIsOrdered
      <4>2. Len(blocks') \in Nat /\ DOMAIN blocks' = 1..Len(blocks')
        BY <4>1, LenProperties
      <4> QED
        BY <4>1, <4>2, BlocksAreNumbered DEF LatestNumber
    <3>2. n \in Nat /\ n + 1 \in DOMAIN blocks'
      BY <3>1
    <3>3. CASE n + 1 \in DOMAIN blocks /\ blocks'[n + 1] = blocks[n + 1]
      <4>1. n \in 0..LatestNumber
        BY <3>1, <3>2, <3>3
      <4> QED
        BY <2>1, <3>3, <4>1
    <3>4. CASE blocks'[n + 1].logs = {}
      BY <3>4 DEF LogsAreGiven
    <3> QED
      BY <3>2, <3>3, <3>4 DEF NothingToTell
  <2> QED
    BY <2>1, <2>3, <2>4
<1> QED
  BY <1>1, <1>2, <1>3 DEF FilterIsKept

\* A poll only says when it was, and how much was collected.
LEMMA PolledFilterIsKept ==
    ASSUME ChainIsOrdered, UNCHANGED <<blocks, mined, pooled, now>>,
           NEW filter, FilterIsKept(filter), NEW polled, NEW collected \in Nat, collected <= Len(filter.history),
           polled = [filter EXCEPT !.collected = collected, !.polled = now, !.deadline = now + Lifetime]
    PROVE  FilterIsKept(polled)'
<1>1. filter \in FilterRecord /\ now \in Nat /\ now + Lifetime \in Nat
  BY FiltersAssumption DEF FilterIsKept, FilterIsTyped, ChainIsOrdered
<1>2. /\ polled \in FilterRecord /\ polled.collected = collected /\ polled.polled = now
      /\ polled.deadline = now + Lifetime
      /\ polled.type = filter.type /\ polled.history = filter.history /\ polled.criteria = filter.criteria
      /\ polled.born = filter.born /\ polled.bornTx = filter.bornTx
  BY <1>1 DEF FilterRecord
<1>3. FilterIsTyped(polled)
  BY <1>2 DEF FilterIsKept, FilterIsTyped
<1>4. BlocksAreKnown(polled)
  BY <1>2 DEF FilterIsKept, BlocksAreKnown
<1>5. LogsAreKnown(polled)
  BY <1>2 DEF FilterIsKept, LogsAreKnown
<1>6. TransactionsAreKnown(polled)
  BY <1>2 DEF FilterIsKept, TransactionsAreKnown
<1> QED
  BY <1>3, <1>4, <1>5, <1>6 DEF FilterIsKept, FilterIsTyped, BlocksAreKnown, LogsAreKnown, TransactionsAreKnown, LatestNumber

\* What is given to a filter is added to what it has.
LEMMA GivenIsAdded ==
    ASSUME NEW filter \in FilterRecord, filter.collected <= Len(filter.history),
           NEW news \in Seq(Nat \union (Nat \X Logs))
    PROVE  /\ Given(filter, news) \in FilterRecord
           /\ Given(filter, news).history = filter.history \o news
           /\ \A field \in DOMAIN filter \ {"history"} : Given(filter, news)[field] = filter[field]
           /\ DOMAIN filter = {"type", "criteria", "subscription", "deadline", "history", "collected", "born", "bornTx", "polled"}
           /\ Given(filter, news).collected <= Len(Given(filter, news).history)
<1>1. filter.history \in Seq(Nat \union (Nat \X Logs)) /\ filter.collected \in Nat
  BY DEF FilterRecord
<1>2. filter.history \o news \in Seq(Nat \union (Nat \X Logs))
      /\ Len(filter.history \o news) = Len(filter.history) + Len(news)
  BY <1>1, ConcatProperties
<1>3. Len(filter.history) \in Nat /\ Len(news) \in Nat
  BY <1>1, LenProperties
<1> DEFINE longer == filter.history \o news
<1>4. Given(filter, news) = [filter EXCEPT !.history = longer]
  BY DEF Given
<1> HIDE DEF longer
<1>5. longer \in Seq(Nat \union (Nat \X Logs)) /\ filter.collected <= Len(longer)
  BY <1>1, <1>2, <1>3 DEF longer
<1>6. [filter EXCEPT !.history = longer] \in FilterRecord
  BY <1>5 DEF FilterRecord
<1>7. DOMAIN filter = {"type", "criteria", "subscription", "deadline", "history", "collected", "born", "bornTx", "polled"}
  BY DEF FilterRecord
<1>8. /\ [filter EXCEPT !.history = longer].history = longer
      /\ \A field \in DOMAIN filter \ {"history"} : [filter EXCEPT !.history = longer][field] = filter[field]
      /\ [filter EXCEPT !.history = longer].collected = filter.collected
  BY <1>7
<1> QED
  BY <1>4, <1>5, <1>6, <1>7, <1>8 DEF longer
LEMMA OneMore ==
    ASSUME NEW S, NEW s \in Seq(S), NEW x \in S
    PROVE  /\ s \o <<x>> \in Seq(S) /\ DOMAIN (s \o <<x>>) = 1..Len(s) + 1 /\ DOMAIN s = 1..Len(s) /\ Len(s) \in Nat
           /\ (s \o <<x>>)[Len(s) + 1] = x /\ \A i \in 1..Len(s) : (s \o <<x>>)[i] = s[i]
<1>1. <<x>> \in Seq(S) /\ Len(<<x>>) = 1 /\ <<x>>[1] = x
  OBVIOUS
<1>2. Len(s) \in Nat /\ DOMAIN s = 1..Len(s)
  BY LenProperties
<1>3. s \o <<x>> \in Seq(S) /\ Len(s \o <<x>>) = Len(s) + 1
  BY <1>1, ConcatProperties
<1>4. \A i \in 1..Len(s) + 1 : (s \o <<x>>)[i] = IF i <= Len(s) THEN s[i] ELSE <<x>>[i - Len(s)]
  BY <1>1, ConcatProperties
<1>5. (s \o <<x>>)[Len(s) + 1] = x
  BY <1>1, <1>2, <1>4
<1> QED
  BY <1>2, <1>3, <1>4, <1>5, LenProperties

\* A block is mined and announced, or was announced and taken back.
IsAnnounced(block) ==
    /\ block \in SoundBlock /\ block.hash = mined + 1 /\ mined' = mined + 1
    /\ blocks' = blocks \/ blocks' = Append(blocks, block)

\* Each block of the new chain is an old one or the one announced.
LEMMA AnnouncedBlockIsLast ==
    ASSUME ChainIsOrdered, NEW block, IsAnnounced(block)
    PROVE  \A i \in DOMAIN blocks' :
             \/ i \in DOMAIN blocks /\ blocks'[i] = blocks[i]
             \/ i = LatestNumber + 2 /\ blocks'[i] = block
<1>1. blocks \in Seq(SoundBlock) /\ Len(blocks) \in Nat /\ DOMAIN blocks = 1..Len(blocks) /\ LatestNumber + 1 = Len(blocks)
      /\ LatestNumber \in Nat
  BY BlocksAreNumbered DEF ChainIsOrdered
<1>2. CASE blocks' = blocks
  BY <1>2
<1>3. CASE blocks' = Append(blocks, block)
  <2>1. DOMAIN blocks' = 1..Len(blocks) + 1
    BY <1>1, <1>3 DEF IsAnnounced
  <2>2. \A i \in 1..Len(blocks) : blocks'[i] = blocks[i]
    BY <1>1, <1>3 DEF IsAnnounced
  <2>3. blocks'[Len(blocks) + 1] = block
    BY <1>1, <1>3 DEF IsAnnounced
  <2> QED
    BY <1>1, <2>1, <2>2, <2>3
<1> QED
  BY <1>2, <1>3 DEF IsAnnounced

LEMMA BlockNewsAreKnown ==
    ASSUME ChainIsOrdered, NEW block, IsAnnounced(block), NEW filter, FilterIsKept(filter), filter.type = "blocks",
           NEW told \in FilterRecord, told.history = filter.history \o <<block.hash>>, told.born = filter.born
    PROVE  BlocksAreKnown(told)'
<1> DEFINE old == filter.history
           new == told.history
<1>1. /\ old \in Seq(Nat)
      /\ \A i \in DOMAIN old : old[i] <= mined
      /\ \A i, j \in DOMAIN old : i < j => old[i] < old[j]
      /\ \A i \in DOMAIN blocks : blocks[i].announced /\ blocks[i].hash > filter.born =>
           \E m \in DOMAIN old : old[m] = blocks[i].hash
  BY DEF FilterIsKept, BlocksAreKnown
<1>2. block.hash = mined + 1 /\ mined \in Nat /\ mined' = mined + 1
  BY DEF IsAnnounced, ChainIsOrdered
<1>3. /\ new \in Seq(Nat) /\ DOMAIN new = 1..Len(old) + 1 /\ DOMAIN old = 1..Len(old) /\ Len(old) \in Nat
      /\ new[Len(old) + 1] = mined + 1 /\ \A i \in 1..Len(old) : new[i] = old[i]
  BY <1>1, <1>2, OneMore
<1>4. \A i \in DOMAIN old : old[i] \in Nat
  BY <1>1, <1>3, ElementOfSeq
<1> HIDE DEF old, new
<1>5. \A i \in DOMAIN new : new[i] <= mined'
  <2> TAKE i \in DOMAIN new
  <2>1. CASE i \in 1..Len(old)
    <3>1. new[i] = old[i] /\ old[i] \in Nat /\ old[i] <= mined
      BY <1>1, <1>3, <1>4, <2>1
    <3> QED
      BY <1>2, <3>1
  <2>2. CASE i = Len(old) + 1
    BY <1>2, <1>3, <2>2
  <2> QED
    BY <1>3, <2>1, <2>2
<1>6. \A i, j \in DOMAIN new : i < j => new[i] < new[j]
  <2> TAKE i \in DOMAIN new, j \in DOMAIN new
  <2> HAVE i < j
  <2>1. i \in 1..Len(old) /\ new[i] = old[i]
    BY <1>3
  <2>2. CASE j \in 1..Len(old)
    BY <1>1, <1>3, <2>1, <2>2
  <2>3. CASE j = Len(old) + 1
    <3>1. old[i] <= mined /\ old[i] \in Nat /\ new[j] = mined + 1
      BY <1>1, <1>3, <1>4, <2>1, <2>3
    <3> QED
      BY <1>2, <2>1, <3>1
  <2> QED
    BY <1>3, <2>2, <2>3
<1>7. ASSUME NEW i \in DOMAIN blocks', blocks'[i].announced, blocks'[i].hash > told.born
      PROVE  \E m \in DOMAIN new : new[m] = blocks'[i].hash
  <2>1. CASE i \in DOMAIN blocks /\ blocks'[i] = blocks[i]
    <3>1. PICK m \in DOMAIN old : old[m] = blocks[i].hash
      BY <1>1, <1>7, <2>1
    <3>2. m \in DOMAIN new /\ new[m] = old[m]
      BY <1>3
    <3> QED
      BY <2>1, <3>1, <3>2
  <2>2. CASE blocks'[i] = block
    BY <1>2, <1>3, <2>2
  <2> QED
    BY <2>1, <2>2, AnnouncedBlockIsLast
<1> QED
  BY <1>3, <1>5, <1>6, <1>7 DEF BlocksAreKnown, new

LEMMA LogNewsAreKnown ==
    ASSUME ChainIsOrdered, NEW block, IsAnnounced(block), NEW filter, FilterIsKept(filter), filter.type = "logs",
           NEW told \in FilterRecord, told.criteria = filter.criteria,
           told.history = filter.history \o SetToSeq(LogsOf(block, LatestNumber + 1, filter.criteria)),
           Len(blocks') \in Nat, DOMAIN blocks' = 1..Len(blocks')
    PROVE  LogsAreKnown(told)'
<1> DEFINE old == filter.history
           new == told.history
           criteria == filter.criteria
<1>1. /\ old \in Seq(Nat \X Logs)
      /\ \A i \in DOMAIN old : old[i][1] <= mined
      /\ \A n \in 0..LatestNumber : LogsAreGiven(blocks[n + 1], n, criteria, old)
      /\ criteria \in AskedFor
  BY DEF FilterIsKept, FilterIsTyped, FilterRecord, LogsAreKnown
<1>2. block \in SoundBlock /\ block.hash = mined + 1 /\ mined \in Nat /\ mined' = mined + 1
  BY DEF IsAnnounced, ChainIsOrdered
<1>3. /\ LatestNumber \in Nat /\ LatestNumber + 1 \in Nat /\ DOMAIN blocks = 1..LatestNumber + 1
      /\ \A i \in DOMAIN blocks : blocks[i].hash \in Nat /\ blocks[i].hash <= mined
  BY BlocksAreNumbered DEF ChainIsOrdered
<1>4. \A i \in DOMAIN old : old[i] \in Nat \X Logs
  BY <1>1, ElementOfSeq, LenProperties
<1>5. \A i \in DOMAIN old : old[i][1] # block.hash
  BY <1>1, <1>2, <1>4
<1> DEFINE found == LogsOf(block, LatestNumber + 1, criteria)
           news == SetToSeq(found)
<1>6. LogsAreGiven(block, LatestNumber + 1, criteria, old \o news) /\ old \o news \in Seq(Nat \X Logs)
  BY <1>1, <1>2, <1>3, <1>5, NewsAreGiven
<1>7. ASSUME NEW n \in 0..LatestNumber
      PROVE  LogsAreGiven(blocks[n + 1], n, criteria, old \o news)
  <2>1. n + 1 \in DOMAIN blocks /\ block.hash # blocks[n + 1].hash
    BY <1>2, <1>3
  <2>2. LogsAreGiven(blocks[n + 1], n, criteria, old)
    BY <1>1
  <2> QED
    BY <1>1, <1>2, <1>3, <2>1, <2>2, NewsOfOthers
<1>8. \A i \in DOMAIN (old \o news) : (old \o news)[i][1] <= mined'
  <2>1. IsFiniteSet(found) /\ found \subseteq {block.hash} \X block.logs
    BY <1>1, <1>2, <1>3, LogsOfABlock
  <2>2. news \in Seq(found)
    BY <2>1, SetsAreListedOnce
  <2>3. \A x \in found : x[1] = mined + 1
    BY <1>2, <2>1
  <2> HIDE DEF found, news, old
  <2>4. Len(old) \in Nat /\ DOMAIN old = 1..Len(old) /\ Len(news) \in Nat /\ DOMAIN news = 1..Len(news)
    BY <1>1, <2>2, LenProperties
  <2>5. /\ Len(old \o news) = Len(old) + Len(news)
        /\ \A i \in 1..Len(old) + Len(news) : (old \o news)[i] = IF i <= Len(old) THEN old[i] ELSE news[i - Len(old)]
    <3>1. old \in Seq((Nat \X Logs) \union found) /\ news \in Seq((Nat \X Logs) \union found)
      BY <1>1, <2>2
    <3> QED
      BY <3>1, ConcatProperties
  <2>6. DOMAIN (old \o news) = 1..Len(old) + Len(news)
    BY <1>6, <2>5, LenProperties
  <2>7. ASSUME NEW i \in 1..Len(old) + Len(news)
        PROVE  (old \o news)[i][1] <= mined'
    <3>1. CASE i <= Len(old)
      <4>1. i \in DOMAIN old /\ (old \o news)[i] = old[i]
        BY <2>4, <2>5, <3>1
      <4> QED
        BY <1>1, <1>2, <1>4, <4>1
    <3>2. CASE ~ (i <= Len(old))
      <4>1. i - Len(old) \in 1..Len(news) /\ (old \o news)[i] = news[i - Len(old)]
        BY <2>4, <2>5, <3>2
      <4>2. news[i - Len(old)] \in found
        BY <2>2, <2>4, <4>1, ElementOfSeq
      <4> QED
        BY <1>2, <2>3, <4>1, <4>2
    <3> QED
      BY <3>1, <3>2
  <2> QED
    BY <2>6, <2>7
<1> HIDE DEF news
<1>9. ASSUME NEW n \in 0..LatestNumber'
      PROVE  LogsAreGiven(blocks'[n + 1], n, criteria, old \o news)
  <2>1. n + 1 \in DOMAIN blocks'
    BY DEF LatestNumber
  <2>2. CASE n + 1 \in DOMAIN blocks /\ blocks'[n + 1] = blocks[n + 1]
    <3>1. n \in 0..LatestNumber
      BY <1>3, <2>2
    <3> QED
      BY <1>7, <2>2, <3>1
  <2>3. CASE n + 1 = LatestNumber + 2 /\ blocks'[n + 1] = block
    <3>1. n = LatestNumber + 1
      BY <1>3, <2>3
    <3> QED
      BY <1>6, <2>3, <3>1
  <2> QED
    BY <2>1, <2>2, <2>3, AnnouncedBlockIsLast
<1>10. new = old \o news
  BY DEF news
<1> HIDE DEF old, new, criteria
<1>11. /\ new \in Seq(Nat \X Logs)
       /\ \A i \in DOMAIN new : new[i][1] <= mined'
       /\ \A n \in 0..LatestNumber' : LogsAreGiven(blocks'[n + 1], n, criteria, new)
  BY <1>6, <1>8, <1>9, <1>10
<1> QED
  BY <1>11 DEF LogsAreKnown, new, criteria
LEMMA AnnouncedFilterIsKept ==
    ASSUME ChainIsOrdered, ChainIsOrdered', NEW block, IsAnnounced(block), UNCHANGED pooled,
           NEW filter, FilterIsKept(filter), NEW told, told = Given(filter, News(filter, block, LatestNumber + 1))
    PROVE  FilterIsKept(told)'
<1> DEFINE news == News(filter, block, LatestNumber + 1)
           Fields == {"type", "criteria", "subscription", "deadline", "collected", "born", "bornTx", "polled"}
<1>1. filter \in FilterRecord /\ filter.collected <= Len(filter.history) /\ filter.criteria \in AskedFor
  BY DEF FilterIsKept, FilterIsTyped, FilterRecord
<1>2. block \in SoundBlock /\ block.hash \in Nat /\ LatestNumber + 1 \in Nat
  BY BlocksAreNumbered, SoundBlocksAreTyped DEF IsAnnounced
<1>3. news \in Seq(Nat \union (Nat \X Logs))
  <2>1. CASE filter.type = "logs"
    <3>1. IsFiniteSet(LogsOf(block, LatestNumber + 1, filter.criteria))
          /\ LogsOf(block, LatestNumber + 1, filter.criteria) \subseteq {block.hash} \X block.logs
      BY <1>1, <1>2, LogsOfABlock
    <3>2. SetToSeq(LogsOf(block, LatestNumber + 1, filter.criteria)) \in Seq(LogsOf(block, LatestNumber + 1, filter.criteria))
      BY <3>1, SetsAreListedOnce
    <3>3. LogsOf(block, LatestNumber + 1, filter.criteria) \subseteq Nat \X Logs
      BY <1>2, <3>1, SoundBlocksAreTyped
    <3>4. news = SetToSeq(LogsOf(block, LatestNumber + 1, filter.criteria))
      BY <2>1 DEF News
    <3> HIDE DEF news
    <3> QED
      BY <3>2, <3>3, <3>4
  <2>2. CASE filter.type = "blocks"
    BY <1>2, <2>2 DEF News
  <2>3. CASE filter.type = "pendingTransactions"
    BY <2>3 DEF News
  <2> QED
    BY <1>1, <2>1, <2>2, <2>3 DEF FilterRecord
<1> HIDE DEF news
<1>4. told = Given(filter, news)
  BY DEF news
<1>5. told \in FilterRecord /\ told.history = filter.history \o news /\ told.collected <= Len(told.history)
      /\ \A field \in Fields : told[field] = filter[field]
  BY <1>1, <1>3, <1>4, GivenIsAdded
<1>6. /\ told.type = filter.type /\ told.criteria = filter.criteria /\ told.born = filter.born
      /\ told.bornTx = filter.bornTx /\ told.polled = filter.polled /\ told.deadline = filter.deadline
  BY <1>5
<1> HIDE DEF Fields
<1>7. FilterIsTyped(told)'
  BY <1>5, <1>6 DEF FilterIsKept, FilterIsTyped
<1>8. BlocksAreKnown(told)'
  <2>1. CASE told.type = "blocks"
    <3>1. news = <<block.hash>> /\ filter.type = "blocks"
      BY <1>6, <2>1 DEF news, News
    <3>2. told.history = filter.history \o <<block.hash>>
      BY <1>5, <3>1
    <3> QED
      BY <1>5, <1>6, <3>1, <3>2, BlockNewsAreKnown
  <2> QED
    BY <2>1 DEF BlocksAreKnown
<1>9. LogsAreKnown(told)'
  <2>1. CASE told.type = "logs"
    <3>1. news = SetToSeq(LogsOf(block, LatestNumber + 1, filter.criteria)) /\ filter.type = "logs"
      BY <1>6, <2>1 DEF news, News
    <3>2. told.history = filter.history \o SetToSeq(LogsOf(block, LatestNumber + 1, filter.criteria))
      BY <1>5, <3>1
    <3>3. Len(blocks') \in Nat /\ DOMAIN blocks' = 1..Len(blocks')
      BY LenProperties DEF ChainIsOrdered
    <3> QED
      BY <1>5, <1>6, <3>1, <3>2, <3>3, LogNewsAreKnown
  <2> QED
    BY <2>1 DEF LogsAreKnown
<1>10. TransactionsAreKnown(told)'
  <2>1. CASE told.type = "pendingTransactions"
    <3>1. news = <<>> /\ filter.type = "pendingTransactions"
      BY <1>6, <2>1 DEF news, News
    <3>2. filter.history = [i \in 1..pooled - filter.bornTx |-> filter.bornTx + i]
      BY <3>1 DEF FilterIsKept, TransactionsAreKnown
    <3>3. told.history = filter.history
      <4>1. filter.history \in Seq(Nat \union (Nat \X Logs))
        BY <1>1 DEF FilterRecord
      <4> QED
        BY <1>5, <3>1, <4>1, ConcatEmptySeq
    <3> QED
      BY <1>6, <3>2, <3>3 DEF TransactionsAreKnown
  <2> QED
    BY <2>1 DEF TransactionsAreKnown
<1> QED
  BY <1>7, <1>8, <1>9, <1>10 DEF FilterIsKept

\* A transaction is announced to the filters that wait for it.
LEMMA SentFilterIsKept ==
    ASSUME ChainIsOrdered, UNCHANGED <<blocks, mined>>, pooled' = pooled + 1,
           NEW filter, FilterIsKept(filter), NEW told,
           told = IF filter.type = "pendingTransactions" THEN Given(filter, <<pooled + 1>>) ELSE filter
    PROVE  FilterIsKept(told)'
<1>1. filter \in FilterRecord /\ filter.collected <= Len(filter.history) /\ filter.bornTx <= pooled
  BY DEF FilterIsKept, FilterIsTyped
<1>2. pooled \in Nat /\ pooled' = pooled + 1 /\ filter.bornTx \in Nat
  BY <1>1 DEF ChainIsOrdered, FilterRecord
<1>3. LatestNumber' = LatestNumber
  BY DEF LatestNumber
<1>4. CASE filter.type = "pendingTransactions"
  <2>1. <<pooled + 1>> \in Seq(Nat \union (Nat \X Logs))
    BY <1>2
  <2>2. told = Given(filter, <<pooled + 1>>)
    BY <1>4
  <2>3. /\ told \in FilterRecord /\ told.history = filter.history \o <<pooled + 1>> /\ told.collected <= Len(told.history)
        /\ told.type = filter.type /\ told.born = filter.born /\ told.bornTx = filter.bornTx
        /\ told.polled = filter.polled /\ told.deadline = filter.deadline
    <3> DEFINE news == <<pooled + 1>>
               Fields == {"type", "criteria", "subscription", "deadline", "collected", "born", "bornTx", "polled"}
    <3> HIDE DEF news
    <3>1. /\ told \in FilterRecord /\ told.history = filter.history \o news /\ told.collected <= Len(told.history)
          /\ \A field \in Fields : told[field] = filter[field]
      <4>1. news \in Seq(Nat \union (Nat \X Logs)) /\ told = Given(filter, news)
        BY <2>1, <2>2 DEF news
      <4> QED
        BY <1>1, <4>1, GivenIsAdded
    <3> QED
      BY <3>1 DEF news
  <2>4. FilterIsTyped(told)'
    BY <1>1, <1>2, <2>3 DEF FilterIsKept, FilterIsTyped
  <2> DEFINE old == filter.history
             new == told.history
             n == pooled - filter.bornTx
  <2>5. old = [i \in 1..n |-> filter.bornTx + i] /\ n \in Nat
    BY <1>1, <1>2, <1>4 DEF FilterIsKept, TransactionsAreKnown
  <2>6. old \in Seq(Nat) /\ Len(old) = n
    <3>1. \A i \in 1..n : filter.bornTx + i \in Nat
      BY <1>2
    <3> HIDE DEF old, n
    <3>2. old \in [1..n -> Nat]
      BY <2>5, <3>1
    <3> QED
      BY <2>5, <3>2
  <2>7. /\ new \in Seq(Nat) /\ DOMAIN new = 1..n + 1 /\ new[n + 1] = pooled + 1
        /\ \A i \in 1..n : new[i] = old[i]
    <3>1. pooled + 1 \in Nat
      BY <1>2
    <3>2. /\ old \o <<pooled + 1>> \in Seq(Nat) /\ DOMAIN (old \o <<pooled + 1>>) = 1..Len(old) + 1
          /\ (old \o <<pooled + 1>>)[Len(old) + 1] = pooled + 1
          /\ \A i \in 1..Len(old) : (old \o <<pooled + 1>>)[i] = old[i]
      BY <2>6, <3>1, OneMore
    <3>3. new = old \o <<pooled + 1>>
      BY <2>3
    <3> HIDE DEF old, new
    <3> QED
      BY <2>6, <3>2, <3>3
  <2>8. pooled' - told.bornTx = n + 1 /\ pooled + 1 = told.bornTx + (n + 1)
    BY <1>2, <2>3
  <2> HIDE DEF old, new, n
  <2>9. \A i \in 1..n + 1 : new[i] = told.bornTx + i
    BY <2>3, <2>5, <2>7, <2>8
  <2>10. new = [i \in 1..n + 1 |-> told.bornTx + i]
    BY <2>7, <2>9
  <2>11. TransactionsAreKnown(told)'
    BY <2>8, <2>10 DEF TransactionsAreKnown, new
  <2> QED
    BY <1>4, <2>3, <2>4, <2>11 DEF FilterIsKept, BlocksAreKnown, LogsAreKnown
<1>5. CASE filter.type # "pendingTransactions"
  <2>1. FilterIsTyped(filter)'
    BY <1>1, <1>2 DEF FilterIsKept, FilterIsTyped
  <2>2. BlocksAreKnown(filter)' /\ LogsAreKnown(filter)' /\ TransactionsAreKnown(filter)'
    BY <1>3, <1>5 DEF FilterIsKept, BlocksAreKnown, LogsAreKnown, TransactionsAreKnown
  <2> QED
    BY <1>5, <2>1, <2>2 DEF FilterIsKept
<1> QED
  BY <1>4, <1>5

LEMMA NewFilterIsKept ==
    ASSUME ChainIsOrdered, NEW request \in FilterRequests, NEW subscription \in BOOLEAN
    PROVE  FilterIsKept(NewFilter(request, subscription))
<1> DEFINE criteria == ComputeFilterParams(request.criteria, TRUE)
           items == FirstItems(request.type, criteria)
           filter == NewFilter(request, subscription)
<1>1. request.type \in {"blocks", "logs", "pendingTransactions"}
      /\ request.criteria \in Criteria \union {NoCriteria}
  BY DEF FilterRequests
<1>2. request.criteria \in [fromBlock : BlockNumbers, toBlock : BlockNumbers,
                            addresses : {c.addresses : c \in Criteria} \union {{}},
                            topics : {c.topics : c \in Criteria} \union {<<>>}]
  <2>1. CASE request.criteria = NoCriteria
    BY <2>1 DEF NoCriteria, BlockNumbers
  <2>2. CASE request.criteria \in Criteria
    BY <2>2, FiltersAssumption
  <2> QED
    BY <1>1, <2>1, <2>2
<1>3. LatestNumber \in Nat /\ Latest.hash \in Nat /\ Latest.hash <= mined
  BY BlocksAreNumbered DEF ChainIsOrdered
<1>4. criteria \in AskedFor /\ criteria.fromBlock <= LatestNumber
  <2>1. \A n \in BlockNumbers : Clip(n) \in 0..LatestNumber
    BY <1>3 DEF Clip, BlockNumbers, LATEST_BLOCK
  <2> DEFINE from == Clip(request.criteria.fromBlock)
             to == IF request.criteria.toBlock = LATEST_BLOCK THEN LATEST_BLOCK ELSE Clip(request.criteria.toBlock)
  <2>2. from \in Nat /\ from <= LatestNumber /\ to \in BlockNumbers
    <3>1. request.criteria.fromBlock \in BlockNumbers /\ request.criteria.toBlock \in BlockNumbers
      BY <1>2
    <3>2. from \in 0..LatestNumber
      BY <2>1, <3>1
    <3>3. Clip(request.criteria.toBlock) \in 0..LatestNumber
      BY <2>1, <3>1
    <3>4. to \in BlockNumbers
      BY <1>3, <3>3 DEF BlockNumbers
    <3> QED
      BY <1>3, <3>2, <3>4
  <2>3. criteria = [request.criteria EXCEPT !.fromBlock = from, !.toBlock = to]
    BY <1>2 DEF ComputeFilterParams
  <2> HIDE DEF from, to, criteria
  <2> QED
    BY <1>2, <2>2, <2>3 DEF AskedFor
<1>5. now \in Nat /\ mined \in Nat /\ pooled \in Nat /\ now + Lifetime \in Nat
  BY FiltersAssumption DEF ChainIsOrdered
<1> HIDE DEF criteria
<1>6. items \in Seq(Nat \union (Nat \X Logs))
  <2>1. CASE request.type = "logs"
    <3>1. items = SetToSeq(GetLogs(criteria))
      BY <2>1 DEF FirstItems
    <3>2. items \in Seq(Nat \X Logs)
      BY <1>4, <3>1, FoundLogs
    <3> HIDE DEF items
    <3> QED
      BY <3>2
  <2>2. CASE request.type # "logs"
    <3>1. CASE request.type = "blocks"
      <4>1. items = <<Latest.hash>>
        BY <2>2, <3>1 DEF FirstItems
      <4> QED
        BY <1>3, <4>1
    <3>2. CASE request.type # "blocks"
      BY <2>2, <3>2 DEF FirstItems
    <3> QED
      BY <3>1, <3>2
  <2> QED
    BY <2>1, <2>2
<1>7. filter = [type |-> request.type, criteria |-> criteria, subscription |-> subscription,
                deadline |-> now + Lifetime, history |-> items, collected |-> 0,
                born |-> mined, bornTx |-> pooled, polled |-> now]
  BY DEF NewFilter, Filter, criteria
<1> HIDE DEF items, filter
<1>8. /\ filter \in FilterRecord /\ filter.type = request.type /\ filter.criteria = criteria /\ filter.history = items
      /\ filter.collected = 0 /\ filter.born = mined /\ filter.bornTx = pooled
      /\ filter.deadline = filter.polled + Lifetime
  BY <1>1, <1>4, <1>5, <1>6, <1>7 DEF FilterRecord
<1>9. FilterIsTyped(filter)
  <2>1. Len(items) \in Nat
    BY <1>6, LenProperties
  <2> QED
    BY <1>5, <1>8, <2>1 DEF FilterIsTyped
<1>10. BlocksAreKnown(filter)
  <2>1. CASE filter.type = "blocks"
    <3>1. items = <<Latest.hash>>
      BY <1>8, <2>1 DEF items, FirstItems
    <3>2. \A i \in DOMAIN blocks : ~ (blocks[i].hash > mined)
      <4>1. \A i \in DOMAIN blocks : blocks[i].hash \in Nat /\ blocks[i].hash <= mined
        BY BlocksAreNumbered DEF ChainIsOrdered
      <4> QED
        BY <1>5, <4>1
    <3>3. /\ items \in Seq(Nat) /\ DOMAIN items = {1} /\ items[1] <= mined
      BY <1>3, <3>1
    <3> QED
      BY <1>8, <3>2, <3>3 DEF BlocksAreKnown
  <2> QED
    BY <2>1 DEF BlocksAreKnown
<1>11. LogsAreKnown(filter)
  <2>1. CASE filter.type = "logs"
    <3>1. items = SetToSeq(GetLogs(criteria))
      BY <1>8, <2>1 DEF items, FirstItems
    <3>2. /\ items \in Seq(Nat \X Logs)
          /\ \A i \in DOMAIN items : items[i][1] <= mined
          /\ \A n \in 0..LatestNumber : LogsAreGiven(blocks[n + 1], n, criteria, items)
      BY <1>4, <3>1, FoundLogs
    <3> QED
      BY <1>8, <3>2 DEF LogsAreKnown
  <2> QED
    BY <2>1 DEF LogsAreKnown
<1>12. TransactionsAreKnown(filter)
  <2>1. CASE filter.type = "pendingTransactions"
    <3>1. items = <<>> /\ filter.bornTx = pooled /\ pooled - pooled = 0
      BY <1>5, <1>8, <2>1 DEF items, FirstItems
    <3>2. <<>> = [i \in 1..0 |-> pooled + i]
      OBVIOUS
    <3> QED
      BY <1>8, <3>1, <3>2 DEF TransactionsAreKnown
  <2> QED
    BY <2>1 DEF TransactionsAreKnown
<1> QED
  BY <1>9, <1>10, <1>11, <1>12 DEF FilterIsKept, filter
-----------------------------------------------------------------------------
(* What the steps mean to the chain.                                       *)

LEMMA ChainMayRest ==
    ASSUME ChainIsOrdered, UNCHANGED blocks, mined' \in {mined, mined + 1}, pooled' \in {pooled, pooled + 1},
           now' \in {now, now + 1}, lastFilterId' \in {lastFilterId, lastFilterId + 1},
           lengths' \in {lengths, <<Len(blocks)>>}
    PROVE  ChainIsOrdered'
<1>1. mined \in Nat /\ mined' \in Nat /\ mined <= mined' /\ pooled' \in Nat /\ now' \in Nat /\ lastFilterId' \in Nat
  BY DEF ChainIsOrdered
<1>2. \A i \in DOMAIN blocks : blocks[i].hash \in Nat /\ blocks[i].hash <= mined
  BY BlocksAreNumbered DEF ChainIsOrdered
<1>3. \A i \in DOMAIN blocks : blocks[i].hash <= mined'
  BY <1>1, <1>2
<1>4. Len(blocks) \in 1..Len(blocks)
  BY BlocksAreNumbered
<1>5. lengths' = <<>> \/ \E n \in 1..Len(blocks) : lengths' = <<n>>
  BY <1>4 DEF ChainIsOrdered
<1> QED
  BY <1>1, <1>3, <1>5 DEF ChainIsOrdered

LEMMA ChainMayGrow ==
    ASSUME ChainIsOrdered, NEW block \in SoundBlock, block.hash = mined + 1, ~ block.announced => block.logs = {},
           mined' = mined + 1, blocks' = Append(blocks, block), UNCHANGED <<pooled, lengths, lastFilterId, now>>
    PROVE  ChainIsOrdered'
<1>1. blocks \in Seq(SoundBlock) /\ Len(blocks) \in Nat /\ DOMAIN blocks = 1..Len(blocks) /\ mined \in Nat
      /\ \A i \in DOMAIN blocks : blocks[i].hash \in Nat /\ blocks[i].hash <= mined
  BY BlocksAreNumbered DEF ChainIsOrdered
<1>2. blocks' \in Seq(SoundBlock) /\ Len(blocks') = Len(blocks) + 1 /\ DOMAIN blocks' = 1..Len(blocks) + 1
  BY <1>1
<1>3. blocks'[Len(blocks) + 1] = block /\ \A i \in 1..Len(blocks) : blocks'[i] = blocks[i]
  BY <1>1
<1>4. \A i \in DOMAIN blocks' : i \in DOMAIN blocks \/ i = Len(blocks) + 1
  BY <1>1, <1>2
<1>5. \A i \in DOMAIN blocks' :
        blocks'[i].hash <= mined' /\ (~ blocks'[i].announced => blocks'[i].logs = {})
  <2> TAKE i \in DOMAIN blocks'
  <2>1. CASE i \in DOMAIN blocks
    <3>1. blocks'[i] = blocks[i] /\ (~ blocks[i].announced => blocks[i].logs = {})
      BY <1>1, <1>3, <2>1 DEF ChainIsOrdered
    <3> QED
      BY <1>1, <2>1, <3>1
  <2>2. CASE i = Len(blocks) + 1
    BY <1>1, <1>3, <2>2
  <2> QED
    BY <1>4, <2>1, <2>2
<1>6. \A i, j \in DOMAIN blocks' : i < j => blocks'[i].hash < blocks'[j].hash
  <2> TAKE i \in DOMAIN blocks', j \in DOMAIN blocks'
  <2> HAVE i < j
  <2>1. i \in DOMAIN blocks /\ blocks'[i] = blocks[i]
    BY <1>1, <1>2, <1>3
  <2>2. CASE j \in DOMAIN blocks
    <3>1. blocks'[j] = blocks[j]
      BY <1>1, <1>3, <2>2
    <3> QED
      BY <2>1, <2>2, <3>1 DEF ChainIsOrdered
  <2>3. CASE j = Len(blocks) + 1
    BY <1>1, <1>3, <2>1, <2>3
  <2> QED
    BY <1>4, <2>2, <2>3
<1>7. lengths' = <<>> \/ \E n \in 1..Len(blocks') : lengths' = <<n>>
  <2>1. 1..Len(blocks) \subseteq 1..Len(blocks')
    BY <1>1, <1>2
  <2> QED
    BY <2>1 DEF ChainIsOrdered
<1> QED
  BY <1>1, <1>2, <1>5, <1>6, <1>7 DEF ChainIsOrdered

LEMMA ChainMayShrink ==
    ASSUME ChainIsOrdered, NEW n \in 1..Len(blocks), blocks' = SubSeq(blocks, 1, n), lengths' = <<>>,
           UNCHANGED <<mined, pooled, lastFilterId, now>>
    PROVE  ChainIsOrdered' /\ NothingToTell
<1>1. blocks \in Seq(SoundBlock) /\ Len(blocks) \in Nat /\ DOMAIN blocks = 1..Len(blocks) /\ mined \in Nat
  BY BlocksAreNumbered DEF ChainIsOrdered
<1>2. blocks' \in Seq(SoundBlock) /\ Len(blocks') = n /\ DOMAIN blocks' = 1..n /\ \A i \in 1..n : blocks'[i] = blocks[i]
  BY <1>1, SubSeqProperties, LenProperties
<1>3. \A i \in DOMAIN blocks' : i \in DOMAIN blocks /\ blocks'[i] = blocks[i]
  BY <1>1, <1>2
<1>4. NothingToTell
  BY <1>1, <1>3 DEF NothingToTell
<1>5. ChainIsOrdered'
  BY <1>1, <1>2, <1>3 DEF ChainIsOrdered
<1> QED
  BY <1>4, <1>5

LEMMA ReservedBlocksAreSound == MinedBlock(mined + 1, {}, {}, FALSE).logs = {}
BY DEF MinedBlock

\* What is mined is a block with a bloom that has everything in it.
LEMMA MinedBlocksAreSound ==
    ASSUME mined \in Nat, NEW logs \in LogsOfBlocks \union {{}}, NEW bloom \in Blooms(logs) \union {{}},
           Items(logs) \subseteq bloom, NEW announced \in BOOLEAN
    PROVE  /\ MinedBlock(mined + 1, logs, bloom, announced) \in SoundBlock
           /\ MinedBlock(mined + 1, logs, bloom, announced).hash = mined + 1
           /\ MinedBlock(mined + 1, logs, bloom, announced).announced = announced
           /\ MinedBlock(mined + 1, logs, bloom, announced).logs = logs
<1>1. logs \subseteq Logs
  BY DEF Logs
<1>2. Items(logs) \subseteq Items(Logs)
  BY <1>1 DEF Items
<1>3. bloom \subseteq Items(Logs)
  BY <1>2 DEF Blooms, Logs
<1> QED
  BY <1>3 DEF MinedBlock, SoundBlock

LEMMA BloomsHaveEverything ==
    ASSUME NEW logs \in LogsOfBlocks, NEW bloom \in Blooms(logs)
    PROVE  Items(logs) \subseteq bloom
<1>1. logs \subseteq UNION LogsOfBlocks
  OBVIOUS
<1>2. Items(logs) \subseteq Items(UNION LogsOfBlocks)
  BY <1>1 DEF Items
<1> QED
  BY <1>2 DEF Blooms

-----------------------------------------------------------------------------
(* The steps.                                                              *)

LEMMA NothingChanges ==
    ASSUME FiltersInv, ChainIsOrdered', NothingToTell, UNCHANGED <<pooled, filters, lastFilterId>>
    PROVE  FiltersInv'
<1>1. \A id \in DOMAIN filters : FilterIsKept(filters[id])'
  BY UntoldFilterIsKept DEF FiltersInv
<1> QED
  BY <1>1 DEF FiltersInv

LEMMA RestIsSilent ==
    ASSUME ChainIsOrdered, UNCHANGED <<blocks, mined>>
    PROVE  NothingToTell
BY DEF NothingToTell, ChainIsOrdered

LEMMA MakeFilterStep ==
    ASSUME FiltersInv, NEW request \in FilterRequests, NEW subscription \in BOOLEAN, MakeFilter(request, subscription)
    PROVE  FiltersInv'
<1> DEFINE new == NewFilter(request, subscription)
           id == lastFilterId + 1
<1>1. /\ ChainIsOrdered /\ lastFilterId \in Nat /\ lastFilterId' = id
      /\ filters' = [i \in DOMAIN filters \union {id} |-> IF i \in DOMAIN filters THEN filters[i] ELSE new]
      /\ UNCHANGED <<blocks, mined, pooled, lengths, now>>
  BY DEF FiltersInv, ChainIsOrdered, MakeFilter, AddFilter
<1>2. ChainIsOrdered'
  BY <1>1, ChainMayRest
<1>3. NothingToTell
  BY <1>1, RestIsSilent
<1>4. FilterIsKept(new)
  BY <1>1, NewFilterIsKept
<1> HIDE DEF new, id
<1>5. \A i \in DOMAIN filters' : FilterIsKept(filters[i])'
  <2> TAKE i \in DOMAIN filters'
  <2>1. PICK f : f = filters'[i]
    OBVIOUS
  <2>2. FilterIsKept(f)
    <3>1. CASE i \in DOMAIN filters
      BY <1>1, <2>1, <3>1 DEF FiltersInv
    <3>2. CASE i \notin DOMAIN filters
      BY <1>1, <1>4, <2>1, <3>2
    <3> QED
      BY <3>1, <3>2
  <2>3. FilterIsKept(f)'
    BY <1>1, <1>2, <1>3, <2>2, UntoldFilterIsKept
  <2> QED
    BY <2>1, <2>3
<1>6. filters' = [i \in DOMAIN filters' |-> filters'[i]] /\ DOMAIN filters' \subseteq 1..lastFilterId'
  BY <1>1 DEF FiltersInv, id
<1> QED
  BY <1>2, <1>5, <1>6 DEF FiltersInv
\* Poll and GetLogsOf: one filter was polled, and some or all of it collected.
LEMMA PollStep ==
    ASSUME FiltersInv, NEW id \in DOMAIN filters, NEW collected \in {filters[id].collected, Len(filters[id].history)},
           filters' = [filters EXCEPT ![id] = [filters[id] EXCEPT
                         !.collected = collected, !.polled = now, !.deadline = now + Lifetime]],
           UNCHANGED <<blocks, mined, pooled, lengths, lastFilterId, now>>
    PROVE  FiltersInv'
<1>1. ChainIsOrdered /\ ChainIsOrdered' /\ NothingToTell
  BY ChainMayRest, RestIsSilent DEF FiltersInv
<1>2. PICK f : f = filters[id]
  OBVIOUS
<1>3. FilterIsKept(f) /\ f \in FilterRecord /\ f.collected <= Len(f.history)
  BY <1>2 DEF FiltersInv, FilterIsKept, FilterIsTyped
<1>4. Len(f.history) \in Nat /\ f.collected \in Nat
  BY <1>3, LenProperties DEF FilterRecord
<1>5. collected \in Nat /\ collected <= Len(f.history)
  BY <1>2, <1>3, <1>4
<1>6. PICK polled : polled = [f EXCEPT !.collected = collected, !.polled = now, !.deadline = now + Lifetime]
  OBVIOUS
<1>7. FilterIsKept(polled)'
  BY <1>1, <1>3, <1>5, <1>6, PolledFilterIsKept
<1>8. DOMAIN filters' = DOMAIN filters /\ filters'[id] = polled /\ \A i \in DOMAIN filters \ {id} : filters'[i] = filters[i]
  BY <1>2, <1>6 DEF FiltersInv
<1>9. \A i \in DOMAIN filters' : FilterIsKept(filters[i])'
  <2> TAKE i \in DOMAIN filters'
  <2>1. CASE i = id
    BY <1>7, <1>8, <2>1
  <2>2. CASE i # id
    <3>1. PICK g : g = filters[i]
      OBVIOUS
    <3>2. FilterIsKept(g)
      BY <1>8, <3>1 DEF FiltersInv
    <3>3. FilterIsKept(g)'
      BY <1>1, <3>2, UntoldFilterIsKept
    <3> QED
      BY <1>8, <2>2, <3>1, <3>3
  <2> QED
    BY <2>1, <2>2
<1>10. filters' = [i \in DOMAIN filters' |-> filters'[i]] /\ DOMAIN filters' \subseteq 1..lastFilterId'
  BY <1>8 DEF FiltersInv
<1> QED
  BY <1>1, <1>9, <1>10 DEF FiltersInv

LEMMA UninstallStep ==
    ASSUME FiltersInv, NEW id, NEW subscription, Uninstall(id, subscription)
    PROVE  FiltersInv'
<1>1. ChainIsOrdered /\ ChainIsOrdered' /\ NothingToTell /\ UNCHANGED <<pooled, lastFilterId>>
  BY ChainMayRest, RestIsSilent DEF FiltersInv, Uninstall
<1>2. filters' = [i \in DOMAIN filters \ {id} |-> filters[i]]
  BY DEF Uninstall
<1>3. \A i \in DOMAIN filters' : FilterIsKept(filters[i])'
  <2> TAKE i \in DOMAIN filters'
  <2>1. PICK f : f = filters'[i]
    OBVIOUS
  <2>2. FilterIsKept(f)
    BY <1>2, <2>1 DEF FiltersInv
  <2>3. FilterIsKept(f)'
    BY <1>1, <2>2, UntoldFilterIsKept
  <2> QED
    BY <2>1, <2>3
<1>4. filters' = [i \in DOMAIN filters' |-> filters'[i]] /\ DOMAIN filters' \subseteq 1..lastFilterId'
  BY <1>1, <1>2 DEF FiltersInv
<1> QED
  BY <1>1, <1>3, <1>4 DEF FiltersInv

LEMMA AnnounceStep ==
    ASSUME FiltersInv, ChainIsOrdered', NEW block, IsAnnounced(block), Announce(block, LatestNumber + 1),
           UNCHANGED <<pooled, lastFilterId>>
    PROVE  FiltersInv'
<1>1. filters' = [id \in {i \in DOMAIN filters : ~ Expired(filters[i])} |->
                    Given(filters[id], News(filters[id], block, LatestNumber + 1))]
  BY DEF Announce
<1>2. \A i \in DOMAIN filters' : FilterIsKept(filters[i])'
  <2> TAKE i \in DOMAIN filters'
  <2>1. PICK f : f = filters[i]
    OBVIOUS
  <2>2. PICK told : told = Given(f, News(f, block, LatestNumber + 1))
    OBVIOUS
  <2>3. FilterIsKept(f) /\ filters'[i] = told
    BY <1>1, <2>1, <2>2 DEF FiltersInv
  <2>4. FilterIsKept(told)'
    BY <2>2, <2>3, AnnouncedFilterIsKept DEF FiltersInv
  <2> QED
    BY <2>3, <2>4
<1>3. filters' = [i \in DOMAIN filters' |-> filters'[i]] /\ DOMAIN filters' \subseteq 1..lastFilterId'
  BY <1>1 DEF FiltersInv
<1> QED
  BY <1>2, <1>3 DEF FiltersInv

LEMMA SentTransactionStep ==
    ASSUME FiltersInv, SendTransaction
    PROVE  FiltersInv'
<1>1. ChainIsOrdered /\ ChainIsOrdered' /\ pooled' = pooled + 1 /\ UNCHANGED <<blocks, mined, lastFilterId>>
  BY ChainMayRest DEF FiltersInv, SendTransaction
<1>2. filters' = [id \in DOMAIN filters |->
                    IF filters[id].type = "pendingTransactions"
                    THEN Given(filters[id], <<pooled + 1>>) ELSE filters[id]]
  BY DEF SendTransaction
<1>3. \A i \in DOMAIN filters' : FilterIsKept(filters[i])'
  <2> TAKE i \in DOMAIN filters'
  <2>1. PICK f : f = filters[i]
    OBVIOUS
  <2>2. PICK told : told = IF f.type = "pendingTransactions" THEN Given(f, <<pooled + 1>>) ELSE f
    OBVIOUS
  <2>3. FilterIsKept(f) /\ filters'[i] = told
    BY <1>2, <2>1, <2>2 DEF FiltersInv
  <2>4. FilterIsKept(told)'
    BY <1>1, <2>2, <2>3, SentFilterIsKept
  <2> QED
    BY <2>3, <2>4
<1>4. filters' = [i \in DOMAIN filters' |-> filters'[i]] /\ DOMAIN filters' \subseteq 1..lastFilterId'
  BY <1>1, <1>2 DEF FiltersInv
<1> QED
  BY <1>1, <1>3, <1>4 DEF FiltersInv

LEMMA MineStep ==
    ASSUME FiltersInv, MineBlock
    PROVE  FiltersInv'
<1>0. PICK logs \in LogsOfBlocks : \E bloom \in Blooms(logs) :
        /\ blocks' = Append(blocks, MinedBlock(mined + 1, logs, bloom, TRUE)) /\ mined' = mined + 1
        /\ Announce(MinedBlock(mined + 1, logs, bloom, TRUE), LatestNumber + 1)
        /\ UNCHANGED <<pooled, lengths, lastFilterId, now>>
  BY DEF MineBlock
<1>1. PICK bloom \in Blooms(logs) :
        /\ blocks' = Append(blocks, MinedBlock(mined + 1, logs, bloom, TRUE)) /\ mined' = mined + 1
        /\ Announce(MinedBlock(mined + 1, logs, bloom, TRUE), LatestNumber + 1)
        /\ UNCHANGED <<pooled, lengths, lastFilterId, now>>
  BY <1>0
<1>2. PICK block : block = MinedBlock(mined + 1, logs, bloom, TRUE)
  OBVIOUS
<1>3. ChainIsOrdered /\ block \in SoundBlock /\ block.hash = mined + 1 /\ block.announced
  BY <1>2, MinedBlocksAreSound, BloomsHaveEverything DEF FiltersInv, ChainIsOrdered
<1>4. ChainIsOrdered'
  BY <1>1, <1>2, <1>3, ChainMayGrow
<1>5. IsAnnounced(block) /\ Announce(block, LatestNumber + 1)
  BY <1>1, <1>2, <1>3 DEF IsAnnounced
<1> QED
  BY <1>1, <1>4, <1>5, AnnounceStep

LEMMA ReadPendingStep ==
    ASSUME FiltersInv, ReadPendingBlock
    PROVE  FiltersInv'
<1>0. PICK logs \in LogsOfBlocks : \E bloom \in Blooms(logs) :
        /\ mined' = mined + 1
        /\ Announce(MinedBlock(mined + 1, logs, bloom, TRUE), LatestNumber + 1)
        /\ UNCHANGED <<blocks, pooled, lengths, lastFilterId, now>>
  BY DEF ReadPendingBlock
<1>1. PICK bloom \in Blooms(logs) :
        /\ mined' = mined + 1
        /\ Announce(MinedBlock(mined + 1, logs, bloom, TRUE), LatestNumber + 1)
        /\ UNCHANGED <<blocks, pooled, lengths, lastFilterId, now>>
  BY <1>0
<1>2. PICK block : block = MinedBlock(mined + 1, logs, bloom, TRUE)
  OBVIOUS
<1>3. ChainIsOrdered /\ block \in SoundBlock /\ block.hash = mined + 1
  BY <1>2, MinedBlocksAreSound, BloomsHaveEverything DEF FiltersInv, ChainIsOrdered
<1>4. ChainIsOrdered'
  BY <1>1, <1>3, ChainMayRest
<1>5. IsAnnounced(block) /\ Announce(block, LatestNumber + 1)
  BY <1>1, <1>2, <1>3 DEF IsAnnounced
<1> QED
  BY <1>1, <1>4, <1>5, AnnounceStep

LEMMA ReserveStep ==
    ASSUME FiltersInv, ReserveBlock
    PROVE  FiltersInv'
<1>1. PICK block : block = MinedBlock(mined + 1, {}, {}, FALSE)
  OBVIOUS
<1>2. blocks' = Append(blocks, block) /\ mined' = mined + 1 /\ UNCHANGED <<pooled, lengths, filters, lastFilterId, now>>
  BY <1>1 DEF ReserveBlock
<1>3. ChainIsOrdered /\ mined \in Nat
  BY DEF FiltersInv, ChainIsOrdered
<1>4. block \in SoundBlock /\ block.hash = mined + 1 /\ ~ block.announced /\ block.logs = {}
  <2>1. Items({}) = {}
    BY DEF Items
  <2> QED
    BY <1>1, <1>3, <2>1, MinedBlocksAreSound
<1>5. ChainIsOrdered'
  BY <1>2, <1>3, <1>4, ChainMayGrow
<1>6. blocks \in Seq(SoundBlock) /\ Len(blocks) \in Nat /\ DOMAIN blocks = 1..Len(blocks)
  BY <1>3, BlocksAreNumbered DEF ChainIsOrdered
<1>7. DOMAIN blocks' = 1..Len(blocks) + 1 /\ blocks'[Len(blocks) + 1] = block
      /\ \A i \in 1..Len(blocks) : blocks'[i] = blocks[i]
  BY <1>2, <1>4, <1>6
<1>8. NothingToTell
  <2>1. mined' \in Nat /\ mined <= mined'
    BY <1>2, <1>3
  <2>2. \A i \in DOMAIN blocks' : i \in DOMAIN blocks \/ i = Len(blocks) + 1
    BY <1>6, <1>7
  <2> QED
    BY <1>3, <1>4, <1>6, <1>7, <2>1, <2>2 DEF NothingToTell
<1> QED
  BY <1>2, <1>5, <1>8, NothingChanges

LEMMA ReturnStep ==
    ASSUME FiltersInv, ReturnToLength
    PROVE  FiltersInv'
<1>1. ChainIsOrdered
  BY DEF FiltersInv
<1>2. PICK n \in 1..Len(blocks) : lengths = <<n>>
  BY <1>1 DEF ChainIsOrdered, ReturnToLength
<1>3. Last(lengths) = n
  BY <1>2 DEF Last
<1>4. blocks' = SubSeq(blocks, 1, n) /\ lengths' = <<>> /\ UNCHANGED <<mined, pooled, filters, lastFilterId, now>>
  BY <1>3 DEF ReturnToLength
<1>5. ChainIsOrdered' /\ NothingToTell
  BY <1>1, <1>4, ChainMayShrink
<1> QED
  BY <1>4, <1>5, NothingChanges

LEMMA FiltersStep ==
    ASSUME FiltersInv, [FiltersNext]_filterVars
    PROVE  FiltersInv'
<1>1. ASSUME NEW request \in FilterRequests, NEW subscription \in BOOLEAN, MakeFilter(request, subscription)
      PROVE  FiltersInv'
  BY <1>1, MakeFilterStep
<1>2. ASSUME NEW id \in DOMAIN filters, Poll(id)
      PROVE  FiltersInv'
  <2>1. filters' = [filters EXCEPT ![id] = [filters[id] EXCEPT
                      !.collected = Len(filters[id].history), !.polled = now, !.deadline = now + Lifetime]]
    BY <1>2 DEF Poll
  <2> QED
    BY <1>2, <2>1, PollStep DEF Poll
<1>3. ASSUME NEW id \in DOMAIN filters, GetLogsOf(id)
      PROVE  FiltersInv'
  <2> DEFINE collected == IF filters[id].type = "logs" THEN Len(filters[id].history) ELSE filters[id].collected
  <2>1. filters' = [filters EXCEPT ![id] = [filters[id] EXCEPT
                      !.collected = collected, !.polled = now, !.deadline = now + Lifetime]]
    BY <1>3 DEF GetLogsOf
  <2>2. collected \in {filters[id].collected, Len(filters[id].history)}
    OBVIOUS
  <2> HIDE DEF collected
  <2> QED
    BY <1>3, <2>1, <2>2, PollStep DEF GetLogsOf
<1>4. ASSUME NEW id \in DOMAIN filters, NEW subscription \in BOOLEAN, Uninstall(id, subscription)
      PROVE  FiltersInv'
  BY <1>4, UninstallStep
<1>5. CASE MineBlock
  BY <1>5, MineStep
<1>6. CASE ReserveBlock
  BY <1>6, ReserveStep
<1>7. CASE ReadPendingBlock
  BY <1>7, ReadPendingStep
<1>8. CASE SendTransaction
  BY <1>8, SentTransactionStep
<1>9. CASE KeepLength
  <2>1. /\ ChainIsOrdered /\ lengths' = <<Len(blocks)>>
        /\ UNCHANGED <<blocks, mined, pooled, filters, lastFilterId, now>>
    BY <1>9 DEF KeepLength, FiltersInv
  <2>2. ChainIsOrdered' /\ NothingToTell
    BY <2>1, ChainMayRest, RestIsSilent
  <2> QED
    BY <2>1, <2>2, NothingChanges
<1>10. CASE ReturnToLength
  BY <1>10, ReturnStep
<1>11. CASE Tick
  <2>1. /\ ChainIsOrdered /\ now' = now + 1
        /\ UNCHANGED <<blocks, mined, pooled, lengths, filters, lastFilterId>>
    BY <1>11 DEF Tick, FiltersInv
  <2>2. ChainIsOrdered' /\ NothingToTell
    BY <2>1, ChainMayRest, RestIsSilent
  <2> QED
    BY <2>1, <2>2, NothingChanges
<1>12. CASE UNCHANGED filterVars
  <2>1. ChainIsOrdered /\ UNCHANGED <<blocks, mined, pooled, lengths, filters, lastFilterId, now>>
    BY <1>12 DEF filterVars, FiltersInv
  <2>2. ChainIsOrdered' /\ NothingToTell
    BY <2>1, ChainMayRest, RestIsSilent
  <2> QED
    BY <2>1, <2>2, NothingChanges
<1> QED
  BY <1>1, <1>2, <1>3, <1>4, <1>5, <1>6, <1>7, <1>8, <1>9, <1>10, <1>11, <1>12 DEF FiltersNext, FilterSteps

LEMMA FiltersStart == FiltersInit => FiltersInv
<1> SUFFICES ASSUME FiltersInit PROVE FiltersInv
  OBVIOUS
<1>1. PICK block : block = MinedBlock(0, {}, {}, TRUE)
  OBVIOUS
<1>2. block \in SoundBlock /\ block.hash = 0 /\ block.announced
  BY <1>1 DEF MinedBlock, SoundBlock, Items
<1>3. blocks = <<block>> /\ mined = 0 /\ pooled = 0 /\ now = 0 /\ lastFilterId = 0 /\ lengths = <<>> /\ filters = <<>>
  BY <1>1 DEF FiltersInit
<1>4. ChainIsOrdered
  BY <1>2, <1>3 DEF ChainIsOrdered
<1>5. DOMAIN filters = {} /\ filters = [id \in DOMAIN filters |-> filters[id]]
  BY <1>3
<1> QED
  BY <1>4, <1>5 DEF FiltersInv

LEMMA FiltersStayKept == FiltersSpec => []FiltersInv
BY FiltersStart, FiltersStep, PTL DEF FiltersSpec

-----------------------------------------------------------------------------
(* Theorems.                                                               *)

\* Ids are those that were handed out, and nothing is collected that was not given.
THEOREM FiltersTypeCorrect == FiltersSpec => []FiltersTypeOK
BY FiltersStayKept, KeptFiltersAreTold, PTL

\* What expires was not polled for longer than its lifetime.
LEMMA OnlyUnpolledFiltersExpire ==
    ASSUME FiltersInv, FiltersNext, NEW id \in DOMAIN filters, id \notin DOMAIN filters'
    PROVE  now - filters[id].polled > Lifetime \/ \E b \in BOOLEAN : Uninstall(id, b)
<1>1. filters[id].deadline = filters[id].polled + Lifetime /\ filters[id].polled \in Nat /\ now \in Nat /\ Lifetime \in Nat
  BY FiltersAssumption DEF FiltersInv, ChainIsOrdered, FilterIsKept, FilterIsTyped, FilterRecord
<1>2. ASSUME NEW block, NEW n, Announce(block, n)
      PROVE  now - filters[id].polled > Lifetime
  <2>1. Expired(filters[id])
    BY <1>2 DEF Announce
  <2> QED
    BY <1>1, <2>1 DEF Expired
<1>3. CASE MineBlock
  BY <1>2, <1>3 DEF MineBlock
<1>4. CASE ReadPendingBlock
  BY <1>2, <1>4 DEF ReadPendingBlock
<1>5. ASSUME NEW i \in DOMAIN filters, NEW b \in BOOLEAN, Uninstall(i, b)
      PROVE  \E c \in BOOLEAN : Uninstall(id, c)
  <2>1. i = id
    BY <1>5 DEF Uninstall
  <2> QED
    BY <1>5, <2>1
<1>6. ASSUME NEW request \in FilterRequests, NEW b \in BOOLEAN, MakeFilter(request, b)
      PROVE  FALSE
  BY <1>6 DEF MakeFilter, AddFilter
<1>7. ASSUME NEW i \in DOMAIN filters, Poll(i) \/ GetLogsOf(i)
      PROVE  FALSE
  BY <1>7 DEF Poll, GetLogsOf
<1>8. CASE SendTransaction
  BY <1>8 DEF SendTransaction
<1>9. CASE ReserveBlock \/ KeepLength \/ ReturnToLength \/ Tick
  BY <1>9 DEF ReserveBlock, KeepLength, ReturnToLength, Tick
<1> QED
  BY <1>3, <1>4, <1>5, <1>6, <1>7, <1>8, <1>9 DEF FiltersNext, FilterSteps

\* A filter is told of everything it waits for exactly once, whatever is mined, reserved,
\* read in the pending block or reverted, and goes only when it is uninstalled or was not
\* polled for longer than its lifetime: for any logs, criteria and lifetime.
THEOREM FiltersStayServed == FiltersSpec => FiltersAreServed
<1>1. FiltersInv /\ [FiltersNext]_filterVars =>
        [\A id \in DOMAIN filters :
            id \notin DOMAIN filters' =>
                now - filters[id].polled > Lifetime \/ \E b \in BOOLEAN : Uninstall(id, b)]_filterVars
  BY OnlyUnpolledFiltersExpire
<1>2. FiltersSpec => PolledFiltersStay
  BY <1>1, FiltersStayKept, PTL DEF FiltersSpec, PolledFiltersStay
<1>3. FiltersSpec => []FiltersAreTold
  BY FiltersStayKept, KeptFiltersAreTold, PTL
<1> QED
  BY <1>2, <1>3, PTL DEF FiltersAreServed

=============================================================================
