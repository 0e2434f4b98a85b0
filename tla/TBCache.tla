------------------------------ MODULE TBCache ------------------------------
(***************************************************************************)
(* The store of translation blocks: the array tbs[], the hash table        *)
(* tb_phys_hash[] with its chains, and the CPU's direct-mapped lookup      *)
(* cache tb_jmp_cache[] (exec.c, cpu-exec.c, exec-all.h).                   *)
(*                                                                         *)
(* A block is its index in tbs; 0 is the NULL pointer.  The chain hanging  *)
(* from a bucket is a sequence, its head first.  tb_tag is forced to 0 by  *)
(* make_tb and every lookup asks for NORMAL_TB_TAG = 0, so it is left out. *)
(***************************************************************************)
EXTENDS Naturals, Sequences

CONSTANTS
  PCs,                        \* guest program counters
  EntryPC,                    \* where the guest program starts
  Buckets,                    \* indices of tb_phys_hash
  Lines,                      \* indices of tb_jmp_cache
  tb_phys_hash_func,          \* pc -> bucket
  tb_jmp_cache_hash_func,     \* pc -> line
  code_gen_max_blocks,        \* size of tbs[]
  code_gen_buffer_max_size,   \* code size from which no block is allocated
  MaxBlockSize                \* bound: host code emitted by one translation

ASSUME EntryAssumption == EntryPC \in PCs
ASSUME HashAssumption ==
  /\ tb_phys_hash_func \in [PCs -> Buckets]
  /\ tb_jmp_cache_hash_func \in [PCs -> Lines]
ASSUME LimitAssumption ==
  /\ code_gen_max_blocks \in Nat \ {0}
  /\ code_gen_buffer_max_size \in Nat
  /\ MaxBlockSize \in Nat

NULL == 0

VARIABLES
  tbs,            \* the allocated blocks; nb_tbs = Len(tbs)
  tb_phys_hash,   \* bucket -> chain of blocks, most recent first
  tb_jmp_cache,   \* line -> block or NULL
  code_size,      \* code_gen_ptr - code_gen_buffer
  asked,          \* the pc of the last lookup or make_tb
  found,          \* the block it returned
  status          \* "running", or "aborted" after abort()

vars == <<tbs, tb_phys_hash, tb_jmp_cache, code_size, asked, found, status>>

nb_tbs == Len(tbs)

(***************************************************************************)
(* Lookup                                                                  *)
(***************************************************************************)

\* The positions of pc's block in the chain that tb_find_slow walks.
Matches(pc) ==
  LET chain == tb_phys_hash[tb_phys_hash_func[pc]]
  IN  {i \in 1 .. Len(chain) : tbs[chain[i]].pc = pc}

\* The chain walk stops at the first match.
tb_find_slow(pc) ==
  IF Matches(pc) = {} THEN NULL
  ELSE tb_phys_hash[tb_phys_hash_func[pc]]
         [CHOOSE i \in Matches(pc) : \A j \in Matches(pc) : i <= j]

\* Mutant: the line is trusted whatever pc it holds a block of.
CacheHit_any_pc(pc) == tb_jmp_cache[tb_jmp_cache_hash_func[pc]] # NULL

\* The cache line of pc is trusted only if it holds a block of this very pc.
CacheHit(pc) ==
  LET tb == tb_jmp_cache[tb_jmp_cache_hash_func[pc]]
  IN  tb # NULL /\ tbs[tb].pc = pc

tb_find_fast(pc) ==
  IF CacheHit(pc) THEN tb_jmp_cache[tb_jmp_cache_hash_func[pc]]
                  ELSE tb_find_slow(pc)

\* tb_jmp_cache after a lookup: the slow path refills the line when it finds.
CacheAfterFind(pc) ==
  IF CacheHit(pc) \/ tb_find_slow(pc) = NULL THEN tb_jmp_cache
  ELSE [tb_jmp_cache EXCEPT ![tb_jmp_cache_hash_func[pc]] = tb_find_slow(pc)]

(***************************************************************************)
(* Allocation                                                              *)
(***************************************************************************)

tb_alloc_fails == nb_tbs >= code_gen_max_blocks \/ code_size >= code_gen_buffer_max_size

\* Mutant: phys_hash_next is not set, so the rest of the chain is lost.
tb_link_page_no_next(tb, pc) ==
  tb_phys_hash' = [tb_phys_hash EXCEPT ![tb_phys_hash_func[pc]] = <<tb>>]

tb_link_page(tb, pc) ==
  tb_phys_hash' = [tb_phys_hash EXCEPT ![tb_phys_hash_func[pc]] = <<tb>> \o @]

\* Mutant: tb_alloc forgets nb_tbs++.
make_tb_no_count(pc, func_addr) ==
  /\ ~ tb_alloc_fails
  /\ tb_link_page(nb_tbs + 1, pc)
  /\ tb_jmp_cache' = [tb_jmp_cache EXCEPT ![tb_jmp_cache_hash_func[pc]] = nb_tbs + 1]
  /\ asked' = pc
  /\ found' = nb_tbs + 1
  /\ UNCHANGED <<tbs, code_size, status>>

\* make_tb when tb_alloc succeeds: the block is chained and cached.
make_tb(pc, func_addr) ==
  /\ ~ tb_alloc_fails
  /\ tbs' = Append(tbs, [pc |-> pc, func_addr |-> func_addr])
  /\ tb_link_page(nb_tbs + 1, pc)
  /\ tb_jmp_cache' = [tb_jmp_cache EXCEPT ![tb_jmp_cache_hash_func[pc]] = nb_tbs + 1]
  /\ asked' = pc
  /\ found' = nb_tbs + 1
  /\ UNCHANGED <<code_size, status>>

\* make_tb when tb_alloc fails: tb_flush calls abort() before it flushes.
tb_flush ==
  /\ tb_alloc_fails
  /\ status' = "aborted"
  /\ UNCHANGED <<tbs, tb_phys_hash, tb_jmp_cache, code_size, asked, found>>

(***************************************************************************)
(* Operations of the callers.  Each of get_next_tb, lazy_patch, trans_next *)
(* and emit_jmp looks the pc up first and calls make_tb only on NULL.      *)
(***************************************************************************)

\* Mutant: a failed chain walk leaves the block of the cache line as the answer.
FindTB_stale(pc) ==
  /\ status = "running"
  /\ asked' = pc
  /\ found' = IF tb_find_fast(pc) = NULL THEN tb_jmp_cache[tb_jmp_cache_hash_func[pc]]
                                         ELSE tb_find_fast(pc)
  /\ tb_jmp_cache' = CacheAfterFind(pc)
  /\ UNCHANGED <<tbs, tb_phys_hash, code_size, status>>

FindTB(pc) ==
  /\ status = "running"
  /\ asked' = pc
  /\ found' = tb_find_fast(pc)
  /\ tb_jmp_cache' = CacheAfterFind(pc)
  /\ UNCHANGED <<tbs, tb_phys_hash, code_size, status>>

\* Mutant: the caller makes the block without looking it up.
FindOrMakeTB_no_lookup(pc, func_addr) ==
  /\ status = "running"
  /\ make_tb(pc, func_addr) \/ tb_flush

FindOrMakeTB(pc, func_addr) ==
  /\ status = "running"
  /\ tb_find_fast(pc) = NULL
  /\ make_tb(pc, func_addr) \/ tb_flush

\* gen_target_code moves code_gen_ptr past what it emitted.  (Bound: the model
\* stops counting once the size alone makes tb_alloc fail.)
cpu_gen_code(size) ==
  /\ status = "running"
  /\ code_size < code_gen_buffer_max_size
  /\ code_size' = code_size + size
  /\ UNCHANGED <<tbs, tb_phys_hash, tb_jmp_cache, asked, found, status>>

\* codecache_prologue_init makes the block of the entry point.
Init ==
  /\ tbs = <<[pc |-> EntryPC, func_addr |-> EntryPC]>>
  /\ tb_phys_hash = [h \in Buckets |-> IF h = tb_phys_hash_func[EntryPC] THEN <<1>> ELSE <<>>]
  /\ tb_jmp_cache = [l \in Lines |-> IF l = tb_jmp_cache_hash_func[EntryPC] THEN 1 ELSE NULL]
  /\ code_size = 0
  /\ asked = EntryPC
  /\ found = 1
  /\ status = "running"

\* func_addr is the pc itself, the caller's func_addr, or 0 when unknown.
Next ==
  \/ \E pc \in PCs : FindTB(pc)
  \/ \E pc \in PCs : \E func_addr \in {0, EntryPC, pc} : FindOrMakeTB(pc, func_addr)
  \/ \E size \in 1 .. MaxBlockSize : cpu_gen_code(size)

Spec == Init /\ [][Next]_vars

(***************************************************************************)
(* Properties                                                              *)
(***************************************************************************)

\* Every variable stays in its type; chains and cache lines hold allocated
\* blocks only, so no lookup follows a dangling pointer.
TypeOK ==
  /\ tbs \in Seq([pc : PCs, func_addr : PCs \cup {0}])
  /\ tb_phys_hash \in [Buckets -> Seq(1 .. nb_tbs)]
  /\ tb_jmp_cache \in [Lines -> 0 .. nb_tbs]
  /\ code_size \in Nat
  /\ asked \in PCs
  /\ found \in 0 .. nb_tbs
  /\ status \in {"running", "aborted"}

\* No two blocks are ever made for the same guest pc, although make_tb itself
\* does not check and five callers decide when to call it: a second block would
\* be translated again and linked to by some exits and not by others.
OneBlockPerPC ==
  \A s, t \in 1 .. nb_tbs : tbs[s].pc = tbs[t].pc => s = t

\* Each block hangs in the chain of its own pc's bucket, in no other chain, and
\* only once: otherwise tb_find_slow would miss a block that exists, or walk in
\* circles.
ChainsPartitionBlocks ==
  /\ \A t \in 1 .. nb_tbs : \A h \in Buckets :
        h = tb_phys_hash_func[tbs[t].pc] <=>
           \E i \in 1 .. Len(tb_phys_hash[h]) : tb_phys_hash[h][i] = t
  /\ \A h \in Buckets : \A i, j \in 1 .. Len(tb_phys_hash[h]) :
        tb_phys_hash[h][i] = tb_phys_hash[h][j] => i = j

\* tb_find_fast(pc) returns a block if and only if one was made for pc, and
\* then that block, whatever aliases share its bucket or evicted it from the
\* direct-mapped cache.
LookupIsExact ==
  \A pc \in PCs :
     /\ tb_find_fast(pc) = NULL => \A t \in 1 .. nb_tbs : tbs[t].pc # pc
     /\ tb_find_fast(pc) # NULL => /\ tb_find_fast(pc) \in 1 .. nb_tbs
                                   /\ tbs[tb_find_fast(pc)].pc = pc

\* The map from pc to block that the store represents.
BlockOf ==
  [pc \in PCs |-> IF \E t \in 1 .. nb_tbs : tbs[t].pc = pc
                  THEN CHOOSE t \in 1 .. nb_tbs : tbs[t].pc = pc
                  ELSE NULL]

Abstract == INSTANCE TBMap WITH map <- BlockOf, Blocks <- 1 .. code_gen_max_blocks

\* The store with its chains and cache implements the growing map of TBMap:
\* lookups answer from the map, blocks are fresh, and none is lost or moved.
ImplementsTBMap == Abstract!Spec

\* exec.c:308-311 and 382-383 say that running out of blocks or code space is
\* handled by flushing ("flush must be done", "cannot fail at this point").
AllocationAlwaysRecovers == status # "aborted"
=============================================================================
