--------------------------- MODULE TBCacheProofs ---------------------------
(***************************************************************************)
(* Proofs about TBCache, for every set of guest pcs, every pair of hash    *)
(* functions and every size of the tables.                                 *)
(***************************************************************************)
EXTENDS TBCache, TLAPS

\* The inductive invariant: lookups are exact because each block is chained in
\* its bucket, and blocks are unique because they are made after exact lookups.
IInv == TypeOK /\ OneBlockPerPC /\ ChainsPartitionBlocks

\* The block that exists for a pc, in terms of the array tbs[] alone.
IsBlockOf(t, pc) ==
  \/ t \in 1 .. nb_tbs /\ tbs[t].pc = pc
  \/ t = NULL /\ \A u \in 1 .. nb_tbs : tbs[u].pc # pc

\* The chain walk of tb_find_slow returns exactly the block of pc, or NULL.
LEMMA SlowLookup ==
  ASSUME TypeOK, OneBlockPerPC, ChainsPartitionBlocks, NEW pc \in PCs
  PROVE  IsBlockOf(tb_find_slow(pc), pc)
<1> DEFINE h == tb_phys_hash_func[pc]
<1> DEFINE chain == tb_phys_hash[h]
<1>1. h \in Buckets
  BY HashAssumption
<1>2. chain \in Seq(1 .. nb_tbs)
  BY <1>1 DEF TypeOK
<1>3. nb_tbs \in Nat
  BY DEF TypeOK, nb_tbs
<1>4. \A i \in 1 .. Len(chain) : chain[i] \in 1 .. nb_tbs
  BY <1>2, <1>3
<1>5. CASE Matches(pc) = {}
  <2>1. tb_find_slow(pc) = NULL
    BY <1>5 DEF tb_find_slow
  <2>2. ASSUME NEW u \in 1 .. nb_tbs, tbs[u].pc = pc PROVE FALSE
    <3>1. PICK i \in 1 .. Len(chain) : chain[i] = u
      BY <1>1, <2>2 DEF ChainsPartitionBlocks
    <3>2. i \in Matches(pc)
      BY <3>1, <2>2 DEF Matches
    <3> QED BY <3>2, <1>5
  <2> QED BY <2>1, <2>2 DEF IsBlockOf
<1>6. CASE Matches(pc) # {}
  <2>1. PICK i \in Matches(pc) : TRUE
    BY <1>6
  <2>2. i \in 1 .. Len(chain) /\ chain[i] \in 1 .. nb_tbs /\ tbs[chain[i]].pc = pc
    BY <2>1, <1>4 DEF Matches
  <2>3. \A j \in Matches(pc) : j = i
    <3>1. TAKE j \in Matches(pc)
    <3>2. j \in 1 .. Len(chain) /\ chain[j] \in 1 .. nb_tbs /\ tbs[chain[j]].pc = pc
      BY <1>4 DEF Matches
    <3>3. chain[i] = chain[j]
      BY <2>2, <3>2 DEF OneBlockPerPC
    <3> QED BY <3>3, <2>2, <3>2, <1>1 DEF ChainsPartitionBlocks
  <2>4. i \in Nat
    BY <2>2
  <2>5. (CHOOSE k \in Matches(pc) : \A j \in Matches(pc) : k <= j) = i
    <3> DEFINE First(k) == \A j \in Matches(pc) : k <= j
    <3>1. \E k \in Matches(pc) : First(k)
      BY <2>1, <2>3, <2>4
    <3> HIDE DEF First
    <3>2. (CHOOSE k \in Matches(pc) : First(k)) \in Matches(pc)
      BY <3>1
    <3>3. (CHOOSE k \in Matches(pc) : First(k)) = i
      BY <2>3, <3>2
    <3> QED BY <3>3 DEF First
  <2>6. tb_find_slow(pc) = chain[i]
    BY <1>6, <2>5 DEF tb_find_slow
  <2> QED BY <2>2, <2>6 DEF IsBlockOf
<1> QED BY <1>5, <1>6

\* With the lookup cache in front of it the answer is the same.
LEMMA FastLookup ==
  ASSUME TypeOK, OneBlockPerPC, ChainsPartitionBlocks, NEW pc \in PCs
  PROVE  IsBlockOf(tb_find_fast(pc), pc)
<1> DEFINE line == tb_jmp_cache[tb_jmp_cache_hash_func[pc]]
<1>1. line \in 0 .. nb_tbs
  BY HashAssumption DEF TypeOK
<1>2. nb_tbs \in Nat
  BY DEF TypeOK, nb_tbs
<1>3. CASE CacheHit(pc)
  <2>1. line \in 1 .. nb_tbs /\ tbs[line].pc = pc
    BY <1>1, <1>2, <1>3 DEF CacheHit, NULL
  <2> QED BY <2>1, <1>3 DEF tb_find_fast, IsBlockOf
<1>4. CASE ~ CacheHit(pc)
  BY <1>4, SlowLookup DEF tb_find_fast
<1> QED BY <1>3, <1>4

\* Exact lookup, in the words of the property that TLC checks.
LEMMA ExactLookup == IInv => LookupIsExact
<1> SUFFICES ASSUME IInv, NEW pc \in PCs
             PROVE  /\ tb_find_fast(pc) = NULL => \A t \in 1 .. nb_tbs : tbs[t].pc # pc
                    /\ tb_find_fast(pc) # NULL => /\ tb_find_fast(pc) \in 1 .. nb_tbs
                                                  /\ tbs[tb_find_fast(pc)].pc = pc
  BY DEF LookupIsExact
<1>1. IsBlockOf(tb_find_fast(pc), pc)
  BY FastLookup DEF IInv
<1>2. nb_tbs \in Nat
  BY DEF IInv, TypeOK, nb_tbs
<1> QED BY <1>1, <1>2 DEF IsBlockOf, NULL

\* The state that codecache_prologue_init leaves satisfies the invariant.
LEMMA InitIInv == Init => IInv
<1> SUFFICES ASSUME Init PROVE IInv
  OBVIOUS
<1> USE EntryAssumption, HashAssumption DEF Init, nb_tbs, NULL
<1>1. Len(tbs) = 1 /\ tbs[1].pc = EntryPC
  OBVIOUS
<1>2. TypeOK
  <2>1. tbs \in Seq([pc : PCs, func_addr : PCs \cup {0}])
    OBVIOUS
  <2>2. tb_phys_hash \in [Buckets -> Seq(1 .. 1)]
    <3>1. <<1>> \in Seq(1 .. 1) /\ <<>> \in Seq(1 .. 1)
      OBVIOUS
    <3> QED BY <3>1
  <2>3. tb_jmp_cache \in [Lines -> 0 .. 1]
    OBVIOUS
  <2> QED BY <1>1, <2>1, <2>2, <2>3 DEF TypeOK
<1>3. OneBlockPerPC
  BY <1>1 DEF OneBlockPerPC
<1>4. ChainsPartitionBlocks
  BY <1>1 DEF ChainsPartitionBlocks
<1> QED BY <1>2, <1>3, <1>4 DEF IInv

\* A lookup leaves tbs[] and the chains alone; what it writes into the cache is
\* the block it found.
LEMMA FindStep ==
  ASSUME IInv, NEW pc \in PCs, FindTB(pc)
  PROVE  IInv'
<1> USE DEF IInv
<1>1. IsBlockOf(tb_find_fast(pc), pc) /\ IsBlockOf(tb_find_slow(pc), pc)
  BY FastLookup, SlowLookup
<1>2. nb_tbs \in Nat /\ nb_tbs' = nb_tbs
  BY DEF FindTB, TypeOK, nb_tbs
<1>3. tb_find_fast(pc) \in 0 .. nb_tbs /\ tb_find_slow(pc) \in 0 .. nb_tbs
  BY <1>1, <1>2 DEF IsBlockOf, NULL
<1>4. tb_jmp_cache' \in [Lines -> 0 .. nb_tbs]
  BY <1>3, HashAssumption DEF FindTB, CacheAfterFind, TypeOK
<1>5. TypeOK'
  BY <1>2, <1>3, <1>4 DEF FindTB, TypeOK
<1>6. OneBlockPerPC' /\ ChainsPartitionBlocks'
  BY <1>2 DEF FindTB, OneBlockPerPC, ChainsPartitionBlocks
<1> QED BY <1>5, <1>6

\* make_tb after a failed lookup: the new block is the only one of its pc, and it
\* becomes the head of the right chain.
LEMMA MakeStep ==
  ASSUME IInv, NEW pc \in PCs, NEW func_addr \in PCs \cup {0},
         tb_find_fast(pc) = NULL, make_tb(pc, func_addr)
  PROVE  /\ IInv'
         /\ nb_tbs' = nb_tbs + 1 /\ tbs'[nb_tbs + 1].pc = pc
         /\ \A t \in 1 .. nb_tbs : tbs'[t] = tbs[t]
         /\ nb_tbs + 1 \in 1 .. code_gen_max_blocks
<1> DEFINE n == nb_tbs + 1
<1> DEFINE tb == [pc |-> pc, func_addr |-> func_addr]
<1> DEFINE h == tb_phys_hash_func[pc]
<1> USE DEF IInv
<1>1. tbs \in Seq([pc : PCs, func_addr : PCs \cup {0}]) /\ nb_tbs \in Nat
  BY DEF TypeOK, nb_tbs
<1>2. h \in Buckets /\ tb_jmp_cache_hash_func[pc] \in Lines
  BY HashAssumption
<1>3. \A t \in 1 .. nb_tbs : tbs[t].pc # pc
  <2>1. IsBlockOf(NULL, pc)
    BY FastLookup
  <2> QED BY <2>1, <1>1 DEF IsBlockOf, NULL
<1>4. tb \in [pc : PCs, func_addr : PCs \cup {0}]
  OBVIOUS
<1>5. /\ tbs' \in Seq([pc : PCs, func_addr : PCs \cup {0}])
      /\ nb_tbs' = n
      /\ \A t \in 1 .. nb_tbs : tbs'[t] = tbs[t]
      /\ tbs'[n] = tb
  BY <1>1, <1>4 DEF make_tb, nb_tbs
<1>6. tb_phys_hash' = [tb_phys_hash EXCEPT ![h] = <<n>> \o tb_phys_hash[h]]
  BY DEF make_tb, tb_link_page
<1>7. \A b \in Buckets : tb_phys_hash[b] \in Seq(1 .. nb_tbs)
  BY DEF TypeOK
<1>7a. \A b \in Buckets : /\ Len(tb_phys_hash[b]) \in Nat
                           /\ \A k \in 1 .. Len(tb_phys_hash[b]) : tb_phys_hash[b][k] \in 1 .. nb_tbs
  <2>1. TAKE b \in Buckets
  <2>2. tb_phys_hash[b] \in Seq(1 .. nb_tbs)
    BY <1>7
  <2> QED BY <2>2, <1>1
<1>8. \A b \in Buckets : b # h => tb_phys_hash'[b] = tb_phys_hash[b]
  BY <1>6 DEF TypeOK
<1>9. tb_phys_hash'[h] = <<n>> \o tb_phys_hash[h]
  BY <1>2, <1>6 DEF TypeOK
<1>10. /\ Len(tb_phys_hash'[h]) = Len(tb_phys_hash[h]) + 1
       /\ tb_phys_hash'[h][1] = n
       /\ \A i \in 1 .. Len(tb_phys_hash[h]) : tb_phys_hash'[h][i + 1] = tb_phys_hash[h][i]
       /\ tb_phys_hash'[h] \in Seq(1 .. n)
  <2>1. tb_phys_hash[h] \in Seq(1 .. n)
    BY <1>1, <1>2, <1>7
  <2>2. <<n>> \in Seq(1 .. n)
    BY <1>1
  <2> HIDE DEF n
  <2> QED BY <2>1, <2>2, <1>9
<1>11. TypeOK'
  <2>1. tb_phys_hash' \in [Buckets -> Seq(1 .. n)]
    <3>1. ASSUME NEW b \in Buckets PROVE tb_phys_hash'[b] \in Seq(1 .. n)
      <4>1. CASE b = h
        BY <4>1, <1>10
      <4>2. CASE b # h
        <5>1. tb_phys_hash[b] \in Seq(1 .. n)
          BY <1>1, <1>7
        <5> QED BY <5>1, <4>2, <1>8
      <4> QED BY <4>1, <4>2
    <3>2. tb_phys_hash' = [b \in Buckets |-> tb_phys_hash'[b]]
      BY <1>6 DEF TypeOK
    <3> QED BY <3>1, <3>2
  <2>2. tb_jmp_cache' \in [Lines -> 0 .. n]
    BY <1>1, <1>2 DEF make_tb, TypeOK
  <2>3. code_size' = code_size /\ status' = status /\ asked' = pc /\ found' = n
    BY DEF make_tb
  <2> QED BY <1>1, <1>5, <2>1, <2>2, <2>3 DEF TypeOK
<1>12. OneBlockPerPC'
  <2>1. SUFFICES ASSUME NEW s \in 1 .. n, NEW t \in 1 .. n, tbs'[s].pc = tbs'[t].pc
                 PROVE  s = t
    BY <1>5 DEF OneBlockPerPC
  <2>2. \A u \in 1 .. n : u # n => u \in 1 .. nb_tbs /\ tbs'[u].pc = tbs[u].pc /\ tbs'[u].pc # pc
    BY <1>1, <1>3, <1>5
  <2>3. tbs'[n].pc = pc
    BY <1>5
  <2> QED BY <2>1, <2>2, <2>3 DEF OneBlockPerPC
<1>13. ChainsPartitionBlocks'
  <2>1. ASSUME NEW t \in 1 .. n, NEW b \in Buckets
        PROVE  b = tb_phys_hash_func[tbs'[t].pc] <=>
                  \E i \in 1 .. Len(tb_phys_hash'[b]) : tb_phys_hash'[b][i] = t
    <3>1. CASE t = n /\ b = h
      <4>1. 1 \in 1 .. Len(tb_phys_hash'[h])
        BY <1>2, <1>7a, <1>10
      <4> QED BY <3>1, <4>1, <1>5, <1>10
    <3>2. CASE t = n /\ b # h
      <4>1. \A i \in 1 .. Len(tb_phys_hash[b]) : tb_phys_hash[b][i] \in 1 .. nb_tbs
        BY <1>7a
      <4> QED BY <3>2, <4>1, <1>1, <1>5, <1>8
    <3>3. CASE t # n /\ b # h
      <4>1. t \in 1 .. nb_tbs
        BY <3>3, <1>1
      <4> QED BY <3>3, <4>1, <1>5, <1>8 DEF ChainsPartitionBlocks
    <3>4. CASE t # n /\ b = h
      <4>1. t \in 1 .. nb_tbs /\ tbs'[t] = tbs[t]
        BY <3>4, <1>1, <1>5
      <4>2. h = tb_phys_hash_func[tbs[t].pc] <=>
               \E i \in 1 .. Len(tb_phys_hash[h]) : tb_phys_hash[h][i] = t
        BY <4>1, <1>2 DEF ChainsPartitionBlocks
      <4>3. (\E i \in 1 .. Len(tb_phys_hash[h]) : tb_phys_hash[h][i] = t) =>
               \E i \in 1 .. Len(tb_phys_hash'[h]) : tb_phys_hash'[h][i] = t
        <5>1. SUFFICES ASSUME NEW i \in 1 .. Len(tb_phys_hash[h]), tb_phys_hash[h][i] = t
                       PROVE  \E j \in 1 .. Len(tb_phys_hash'[h]) : tb_phys_hash'[h][j] = t
          OBVIOUS
        <5>2. Len(tb_phys_hash[h]) \in Nat
          BY <1>2, <1>7a
        <5>3. i + 1 \in 1 .. Len(tb_phys_hash'[h]) /\ tb_phys_hash'[h][i + 1] = t
          BY <5>1, <5>2, <1>10
        <5> QED BY <5>3
      <4>4. (\E i \in 1 .. Len(tb_phys_hash'[h]) : tb_phys_hash'[h][i] = t) =>
               \E i \in 1 .. Len(tb_phys_hash[h]) : tb_phys_hash[h][i] = t
        <5>1. SUFFICES ASSUME NEW i \in 1 .. Len(tb_phys_hash'[h]), tb_phys_hash'[h][i] = t
                       PROVE  \E j \in 1 .. Len(tb_phys_hash[h]) : tb_phys_hash[h][j] = t
          OBVIOUS
        <5>2. Len(tb_phys_hash[h]) \in Nat
          BY <1>2, <1>7a
        <5>3. i # 1
          BY <5>1, <1>10, <3>4
        <5>4. i - 1 \in 1 .. Len(tb_phys_hash[h]) /\ i = (i - 1) + 1
          BY <5>2, <5>3, <1>10
        <5>5. tb_phys_hash[h][i - 1] = t
          BY <5>1, <5>4, <1>10
        <5> QED BY <5>4, <5>5
      <4> QED BY <3>4, <4>1, <4>2, <4>3, <4>4
    <3> QED BY <3>1, <3>2, <3>3, <3>4
  <2>2. ASSUME NEW b \in Buckets, NEW i \in 1 .. Len(tb_phys_hash'[b]),
               NEW j \in 1 .. Len(tb_phys_hash'[b]), tb_phys_hash'[b][i] = tb_phys_hash'[b][j]
        PROVE  i = j
    <3>1. CASE b # h
      BY <3>1, <2>2, <1>8 DEF ChainsPartitionBlocks
    <3>2. CASE b = h
      <4>1. Len(tb_phys_hash[h]) \in Nat
        BY <1>2, <1>7a
      <4>2. \A k \in 1 .. Len(tb_phys_hash'[h]) : k # 1 =>
               /\ k - 1 \in 1 .. Len(tb_phys_hash[h])
               /\ tb_phys_hash'[h][k] = tb_phys_hash[h][k - 1]
        <5>1. TAKE k \in 1 .. Len(tb_phys_hash'[h])
        <5>2. HAVE k # 1
        <5>3. k - 1 \in 1 .. Len(tb_phys_hash[h]) /\ k = (k - 1) + 1
          BY <5>2, <4>1, <1>10
        <5> QED BY <5>3, <1>10
      <4>3. \A k \in 1 .. Len(tb_phys_hash'[h]) : k # 1 => tb_phys_hash'[h][k] # n
        <5>1. TAKE k \in 1 .. Len(tb_phys_hash'[h])
        <5>2. HAVE k # 1
        <5>3. tb_phys_hash'[h][k] \in 1 .. nb_tbs
          BY <5>2, <4>2, <1>2, <1>7a
        <5> QED BY <5>3, <1>1
      <4>4. CASE i = 1 \/ j = 1
        BY <3>2, <2>2, <4>3, <4>4, <1>10
      <4>5. CASE i # 1 /\ j # 1
        <5>1. /\ i - 1 \in 1 .. Len(tb_phys_hash[h]) /\ j - 1 \in 1 .. Len(tb_phys_hash[h])
              /\ tb_phys_hash[h][i - 1] = tb_phys_hash[h][j - 1]
          BY <3>2, <2>2, <4>2, <4>5
        <5>2. i - 1 = j - 1
          BY <5>1, <1>2 DEF ChainsPartitionBlocks
        <5>3. i \in Nat /\ j \in Nat
          BY <2>2
        <5> QED BY <5>2, <5>3
      <4> QED BY <4>4, <4>5
    <3> QED BY <3>1, <3>2
  <2> QED BY <2>1, <2>2, <1>5 DEF ChainsPartitionBlocks
<1>14. n \in 1 .. code_gen_max_blocks
  BY <1>1, LimitAssumption DEF make_tb, tb_alloc_fails
<1> QED BY <1>5, <1>11, <1>12, <1>13, <1>14

\* A step that leaves blocks, chains and cache alone preserves the invariant.
LEMMA SameStoreIInv ==
  ASSUME IInv, UNCHANGED <<tbs, tb_phys_hash, tb_jmp_cache, asked, found>>,
         code_size' \in Nat, status' \in {"running", "aborted"}
  PROVE  IInv'
<1>1. nb_tbs' = nb_tbs
  BY DEF nb_tbs
<1>2. TypeOK'
  BY <1>1 DEF IInv, TypeOK
<1>3. OneBlockPerPC'
  BY <1>1 DEF IInv, OneBlockPerPC
<1>4. ChainsPartitionBlocks'
  BY <1>1 DEF IInv, ChainsPartitionBlocks
<1> QED BY <1>2, <1>3, <1>4 DEF IInv

\* Every step of the specification preserves the invariant.
LEMMA NextIInv == IInv /\ [Next]_vars => IInv'
<1> SUFFICES ASSUME IInv, [Next]_vars PROVE IInv'
  OBVIOUS
<1>1. ASSUME NEW pc \in PCs, FindTB(pc) PROVE IInv'
  BY <1>1, FindStep
<1>2. ASSUME NEW pc \in PCs, NEW func_addr \in {0, EntryPC, pc}, FindOrMakeTB(pc, func_addr)
      PROVE  IInv'
  <2>1. func_addr \in PCs \cup {0}
    BY EntryAssumption
  <2>2. CASE make_tb(pc, func_addr)
    BY <1>2, <2>1, <2>2, MakeStep DEF FindOrMakeTB
  <2>3. CASE tb_flush
    BY <2>3, SameStoreIInv DEF tb_flush, IInv, TypeOK
  <2> QED BY <1>2, <2>2, <2>3 DEF FindOrMakeTB
<1>3. ASSUME NEW size \in 1 .. MaxBlockSize, cpu_gen_code(size) PROVE IInv'
  <2>1. code_size' \in Nat
    BY <1>3, LimitAssumption DEF cpu_gen_code, IInv, TypeOK
  <2> QED BY <1>3, <2>1, SameStoreIInv DEF cpu_gen_code, IInv, TypeOK
<1>4. CASE UNCHANGED vars
  BY <1>4, SameStoreIInv DEF vars, IInv, TypeOK
<1> QED BY <1>1, <1>2, <1>3, <1>4 DEF Next

\* The inductive invariant holds in every reachable state.
THEOREM Invariance == Spec => []IInv
BY InitIInv, NextIInv, PTL DEF Spec

\* Type correctness of the store: no chain and no cache line ever holds a pointer
\* to a block that was not allocated.
THEOREM TypeCorrect == Spec => []TypeOK
<1>1. IInv => TypeOK
  BY DEF IInv
<1> QED BY <1>1, Invariance, PTL

\* No two blocks are made for one guest pc, for all hash functions and sizes.
THEOREM UniqueBlocks == Spec => []OneBlockPerPC
<1>1. IInv => OneBlockPerPC
  BY DEF IInv
<1> QED BY <1>1, Invariance, PTL

\* Every block is found in the chain of its bucket and nowhere else.
THEOREM ChainsAreAPartition == Spec => []ChainsPartitionBlocks
<1>1. IInv => ChainsPartitionBlocks
  BY DEF IInv
<1> QED BY <1>1, Invariance, PTL

\* tb_find_fast is exact in every reachable state.
THEOREM LookupsAreExact == Spec => []LookupIsExact
BY Invariance, ExactLookup, PTL

\* BlockOf[pc] is the one value that IsBlockOf allows for pc.
BlockOfSpec ==
  /\ \A pc \in PCs : IsBlockOf(BlockOf[pc], pc)
  /\ \A pc \in PCs : \A t : IsBlockOf(t, pc) => t = BlockOf[pc]

\* The map BlockOf that the store represents, in terms of IsBlockOf.
LEMMA BlockOfIsBlock == IInv => BlockOfSpec
<1> SUFFICES ASSUME IInv, NEW pc \in PCs
             PROVE  IsBlockOf(BlockOf[pc], pc) /\ \A t : IsBlockOf(t, pc) => t = BlockOf[pc]
  BY DEF BlockOfSpec
<1>1. nb_tbs \in Nat
  BY DEF IInv, TypeOK, nb_tbs
<1>2. CASE \E t \in 1 .. nb_tbs : tbs[t].pc = pc
  <2>1. BlockOf[pc] = CHOOSE t \in 1 .. nb_tbs : tbs[t].pc = pc
    BY <1>2 DEF BlockOf
  <2>2. BlockOf[pc] \in 1 .. nb_tbs /\ tbs[BlockOf[pc]].pc = pc
    BY <1>2, <2>1
  <2>3. ASSUME NEW t, IsBlockOf(t, pc) PROVE t = BlockOf[pc]
    <3>1. t \in 1 .. nb_tbs /\ tbs[t].pc = pc
      BY <1>2, <2>3 DEF IsBlockOf
    <3> QED BY <3>1, <2>2 DEF IInv, OneBlockPerPC
  <2> QED BY <2>2, <2>3 DEF IsBlockOf
<1>3. CASE \A t \in 1 .. nb_tbs : tbs[t].pc # pc
  <2>1. BlockOf[pc] = NULL
    BY <1>3 DEF BlockOf
  <2> QED BY <1>3, <2>1 DEF IsBlockOf
<1> QED BY <1>2, <1>3

\* The initial state of the store is an initial state of the map.
LEMMA InitRefines == Init => Abstract!Init
<1> SUFFICES ASSUME Init PROVE Abstract!Init
  OBVIOUS
<1>1. nb_tbs = 1 /\ tbs[1].pc = EntryPC /\ asked = EntryPC /\ found = 1
  BY DEF Init, nb_tbs
<1>2. IInv
  BY InitIInv
<1>3. BlockOf = [pc \in PCs |-> BlockOf[pc]]
  BY DEF BlockOf
<1>4. \A pc \in PCs : BlockOf[pc] = IF pc = EntryPC THEN 1 ELSE NULL
  <2>1. TAKE pc \in PCs
  <2>2. IsBlockOf(IF pc = EntryPC THEN 1 ELSE NULL, pc)
    BY <1>1 DEF IsBlockOf
  <2> QED BY <2>2, <1>2, BlockOfIsBlock DEF BlockOfSpec
<1>5. BlockOf = [pc \in PCs |-> IF pc = EntryPC THEN 1 ELSE NULL]
  BY <1>3, <1>4
<1>6. 1 \in 1 .. code_gen_max_blocks
  BY LimitAssumption
<1> QED BY <1>1, <1>5, <1>6, EntryAssumption DEF Abstract!Init, Abstract!NULL, NULL

\* Every step of the store is a step of the map or leaves it unchanged.
LEMMA StepRefines == IInv /\ [Next]_vars => [Abstract!Next]_(Abstract!vars)
<1> SUFFICES ASSUME IInv, [Next]_vars
             PROVE  Abstract!Next \/ UNCHANGED <<BlockOf, asked, found>>
  BY DEF Abstract!vars
<1>1. tbs' = tbs => BlockOf' = BlockOf
  BY DEF BlockOf, nb_tbs
<1>2. ASSUME NEW pc \in PCs, FindTB(pc) PROVE Abstract!Next
  <2>1. IsBlockOf(tb_find_fast(pc), pc)
    BY FastLookup DEF IInv
  <2>2. asked' = pc /\ found' = BlockOf[pc]
    BY <1>2, <2>1, BlockOfIsBlock DEF FindTB, BlockOfSpec
  <2>3. BlockOf' = BlockOf
    BY <1>1, <1>2 DEF FindTB
  <2> QED BY <2>2, <2>3 DEF Abstract!Next, Abstract!Find
<1>3. ASSUME NEW pc \in PCs, NEW func_addr \in {0, EntryPC, pc}, FindOrMakeTB(pc, func_addr)
      PROVE  Abstract!Next \/ UNCHANGED <<BlockOf, asked, found>>
  <2>1. CASE tb_flush
    BY <2>1, <1>1 DEF tb_flush
  <2>2. CASE make_tb(pc, func_addr)
    <3> DEFINE n == nb_tbs + 1
    <3>1. /\ IInv'
          /\ nb_tbs' = n /\ tbs'[n].pc = pc
          /\ \A t \in 1 .. nb_tbs : tbs'[t] = tbs[t]
          /\ n \in 1 .. code_gen_max_blocks
      <4>1. func_addr \in PCs \cup {0}
        BY EntryAssumption
      <4> QED BY <1>3, <2>2, <4>1, MakeStep DEF FindOrMakeTB
    <3>2. nb_tbs \in Nat
      BY DEF IInv, TypeOK, nb_tbs
    <3>3. BlockOfSpec'
      <4>1. IInv' => BlockOfSpec'
        BY BlockOfIsBlock, PTL
      <4> QED BY <4>1, <3>1
    <3>4. BlockOfSpec
      BY BlockOfIsBlock
    <3>5. BlockOf[pc] = NULL
      <4>1. IsBlockOf(NULL, pc)
        BY <1>3, FastLookup DEF FindOrMakeTB, IInv
      <4> QED BY <4>1, <3>4 DEF BlockOfSpec
    <3>6. BlockOf'[pc] = n
      <4>1. \A t : t = n => IsBlockOf(t, pc)'
        BY <3>1, <3>2 DEF IsBlockOf
      <4> QED BY <4>1, <3>3 DEF BlockOfSpec
    <3>7. \A q \in PCs : q # pc => BlockOf'[q] = BlockOf[q]
      <4>1. TAKE q \in PCs
      <4>2. HAVE q # pc
      <4>3. IsBlockOf(BlockOf[q], q)
        BY <3>4 DEF BlockOfSpec
      <4>4. \A t : IsBlockOf(t, q) => IsBlockOf(t, q)'
        BY <3>1, <3>2, <4>2 DEF IsBlockOf
      <4> QED BY <4>3, <4>4, <3>3 DEF BlockOfSpec
    <3>8. \A q \in PCs : BlockOf[q] # n
      BY <3>2, <3>4 DEF BlockOfSpec, IsBlockOf, NULL
    <3>9. BlockOf' = [BlockOf EXCEPT ![pc] = n]
      <4>1. BlockOf = [q \in PCs |-> BlockOf[q]]
        BY DEF BlockOf
      <4>2. BlockOf' = [q \in PCs |-> BlockOf'[q]]
        BY DEF BlockOf
      <4> HIDE DEF n
      <4> QED BY <4>1, <4>2, <3>6, <3>7
    <3>10. asked' = pc /\ found' = n
      BY <2>2 DEF make_tb
    <3> HIDE DEF n
    <3> QED BY <3>1, <3>5, <3>8, <3>9, <3>10
            DEF Abstract!Next, Abstract!Make, Abstract!NULL, NULL
  <2> QED BY <1>3, <2>1, <2>2 DEF FindOrMakeTB
<1>4. ASSUME NEW size \in 1 .. MaxBlockSize, cpu_gen_code(size) PROVE UNCHANGED <<BlockOf, asked, found>>
  BY <1>1, <1>4 DEF cpu_gen_code
<1>5. CASE UNCHANGED vars
  BY <1>1, <1>5 DEF vars
<1> QED BY <1>2, <1>3, <1>4, <1>5 DEF Next

\* The store with its chains and its lookup cache implements the map of TBMap.
THEOREM Refinement == Spec => ImplementsTBMap
BY InitRefines, StepRefines, Invariance, PTL DEF Spec, ImplementsTBMap, Abstract!Spec
=============================================================================
