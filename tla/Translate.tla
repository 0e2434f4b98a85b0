----------------------------- MODULE Translate -----------------------------
(***************************************************************************)
(* The i386-to-i386 translator of target-i386/translate.c, in the build    *)
(* that opt-def.h selects: SIEVE_OPT, SEP_SIEVE, J_IND_OPT, CALL_IND_OPT,  *)
(* RET_CACHE and TRANS_NEXT.  gen_target_code translates a superblock: it  *)
(* emits one guest instruction after the other, opening a new translation  *)
(* block after each conditional branch and call (trans_next), records each *)
(* direct jump in patch_array, and finally resolves the jumps to translated *)
(* code or to an exit stub (lazy_patch).                                   *)
(*                                                                         *)
(* Host addresses: a > 0 is the a-th host operation of the code buffer,    *)
(* -k is the k-th exit stub of the sieve buffer, 0 is sieve_stub.  A host  *)
(* operation stands for the few host instructions that one emitter writes. *)
(* Its field pc is the guest pc that control has reached when it runs.     *)
(* The store of blocks is used through the map that TBCache implements.    *)
(***************************************************************************)
EXTENDS Integers, Sequences

CONSTANTS
  Programs,                   \* guest programs, see Guest
  MaxStack,                   \* guest stack bound, see Guest
  code_gen_max_blocks,        \* size of tbs[]
  code_gen_buffer_size,       \* size of the code buffer
  code_gen_buffer_max_size,   \* code size from which tb_alloc fails
  PATCH_ARRAY_SIZE,           \* size of env->patch_array
  MAX_INSNS,                  \* instruction limit of a superblock
  PATCH_MAX,                  \* direct exits of a block
  TB_FROM_MAX,                \* size of the jmp_from ring
  IND_SLOT_MAX,               \* inlined targets of an indirect branch
  OffsetRange,                \* 2^16: tb_jmp_offset is a uint16_t
  RET_CACHE_SIZE,             \* entries of ret_hash_table
  SIEVE_SIZE                  \* buckets of sieve_hashtable

ASSUME SizeAssumption ==
  /\ {code_gen_max_blocks, code_gen_buffer_size, code_gen_buffer_max_size} \subseteq Nat
  /\ {PATCH_MAX, TB_FROM_MAX, OffsetRange, RET_CACHE_SIZE, SIEVE_SIZE} \subseteq Nat \ {0}
  /\ {IND_SLOT_MAX, MAX_INSNS, MaxStack} \subseteq Nat
  /\ PATCH_ARRAY_SIZE \in Nat /\ PATCH_ARRAY_SIZE > 2 /\ PATCH_MAX > 1

\* Translation runs ahead of execution, so code must not end in the middle: a
\* program ends with an instruction that never falls through.
ASSUME ProgramAssumption ==
  \A p \in Programs :
     /\ p \in Seq(UNION {{p[i]} : i \in DOMAIN p}) /\ p # <<>>
     /\ p[Len(p)].kind \in {"jmp", "ijmp", "ret"}
     /\ \A i \in DOMAIN p :
           /\ p[i].kind \in {"jcond", "loop", "jmp", "call"} => p[i].to \in DOMAIN p
           /\ p[i].kind \in {"ijmp", "icall"} => p[i].tgts \subseteq DOMAIN p
           /\ p[i].kind = "push" => p[i].v \in Nat
           /\ p[i].kind = "ret" => p[i].n \in Nat

NULL == 0             \* the NULL TranslationBlock
NOT_TRANS_YET == 0    \* tc_ptr of a block without code
UNPATCHED == 0        \* the NEED_PATCH_32 place holder of a jump
NOT_IND == "NOT_IND"
IND_TYPE_CALL == "IND_TYPE_CALL"
IND_TYPE_JMP == "IND_TYPE_JMP"
NoJmpFrom == [tb |-> NULL, n |-> 0]

RET_HASH_FUNC(addr) == addr % RET_CACHE_SIZE
SIEVE_HASH(addr) == addr % SIEVE_SIZE

VARIABLES
  prog,             \* the guest program
  mode,             \* what runs now: a step of the dispatch loop, of the
                    \* translator, or the code cache
  tbs,              \* the translation blocks
  code,             \* the code buffer
  code_gen_ptr,     \* its first free address, as of the last superblock
  stubs,            \* exit stubs in the sieve buffer
  sieve_hashtable,  \* bucket -> sieve nodes, the most recent first
  ret_hash_table,   \* return cache: address of a cmp site, 0 for proc_enter
  cur_tb,           \* block being emitted
  pc_ptr,           \* guest pc of the next instruction to decode
  num_insns,        \* loop counter of gen_target_code
  patch_array       \* jumps of this superblock still to resolve

transVars == <<cur_tb, pc_ptr, num_insns, patch_array>>
cacheVars == <<tbs, code, code_gen_ptr, stubs, sieve_hashtable, ret_hash_table>>

code_ptr == Len(code) + 1
insn == prog[pc_ptr]

(***************************************************************************)
(* Translation blocks                                                      *)
(***************************************************************************)

NewTB(pc, func_addr) ==
  [pc |-> pc, tc_ptr |-> NOT_TRANS_YET, func_addr |-> func_addr, patch_num |-> 0,
   tb_jmp_offset |-> [n \in 0 .. PATCH_MAX - 1 |-> 0],
   jmp_from |-> [i \in 0 .. TB_FROM_MAX - 1 |-> NoJmpFrom], jmp_from_index |-> 0,
   ind_addr |-> 0, jmp_ind_index |-> 0]

\* The answer of TBMap: the block made for pc, NULL if there is none.
tb_find_fast(pc) ==
  IF \E t \in DOMAIN tbs : tbs[t].pc = pc
  THEN CHOOSE t \in DOMAIN tbs : tbs[t].pc = pc
  ELSE NULL

Translated(t) == t # NULL /\ tbs[t].tc_ptr # NOT_TRANS_YET

\* code_gen_ptr is not advanced inside a superblock: the test uses a stale size.
tb_alloc_fails ==
  \/ Len(tbs) >= code_gen_max_blocks
  \/ code_gen_ptr - 1 >= code_gen_buffer_max_size

\* tb_flush calls abort().
tb_flush ==
  /\ tb_alloc_fails
  /\ mode' = "aborted"
  /\ UNCHANGED <<cacheVars, transVars>>

\* Mutant: the ring of the wrong block records the jump.
tb_add_jmp_from_swapped(ts, t, next, n) ==
  [ts EXCEPT ![t].jmp_from[ts[t].jmp_from_index] = [tb |-> next, n |-> n],
             ![t].jmp_from_index = (@ + 1) % TB_FROM_MAX]

\* ts with one more predecessor recorded in the ring of block next.
tb_add_jmp_from(ts, t, next, n) ==
  [ts EXCEPT ![next].jmp_from[ts[next].jmp_from_index] = [tb |-> t, n |-> n],
             ![next].jmp_from_index = (@ + 1) % TB_FROM_MAX]

\* ts with tb_jmp_offset[n] of block t set for the jump at address at.
SetJmpOffset(ts, t, n, at) ==
  [ts EXCEPT ![t].tb_jmp_offset[n] = (at - ts[t].tc_ptr) % OffsetRange]

(***************************************************************************)
(* Host operations                                                         *)
(***************************************************************************)

OpInsn(pc) == [op |-> "insn", pc |-> pc]
OpExit(pc) == [op |-> "exit", pc |-> pc]
OpJcc(pc, to) == [op |-> "jcc", pc |-> pc, to |-> to, dest |-> UNPATCHED]
OpLoop(pc) == [op |-> "loop", pc |-> pc]
OpJmp(pc, to, dest) == [op |-> "jmp", pc |-> pc, to |-> to, dest |-> dest]

\* push the return address, set a return-cache entry to the cmp site
OpCall(pc, ret, entry, site) ==
  [op |-> "call", pc |-> pc, ret |-> ret, entry |-> entry, site |-> site]
OpICall(pc, ret, site) == [op |-> "icall", pc |-> pc, ret |-> ret, site |-> site]
OpIJmp(pc, func_addr) == [op |-> "ijmp", pc |-> pc, func_addr |-> func_addr]

\* cemit_ind_opt: compare slots, then the exit that ind_patch_sieve overwrites
OpInd(tb, ind_type) ==
  [op |-> "ind", tb |-> tb, ind_type |-> ind_type, slots |-> <<>>, to_sieve |-> FALSE]

\* cemit_rc_cmp: the return site of a call
OpRcCmp(ret) == [op |-> "rc_cmp", ret |-> ret]
OpRet(pc, n, entry) == [op |-> "ret", pc |-> pc, n |-> n, entry |-> entry]
OpCopyRc(pc, from, to) == [op |-> "copy_rc", pc |-> pc, from |-> from, to |-> to]

(***************************************************************************)
(* gen_target_code: the emitters, one per kind of instruction              *)
(***************************************************************************)

\* Where the loop of gen_target_code goes after an emitter.
Continue == mode' = "limit"
EndOfSuperblock == mode' = "patch"
CallTransNext == mode' = "trans_next"

Decode(kinds) ==
  /\ mode = "emit"
  /\ pc_ptr \in DOMAIN prog
  /\ insn.kind \in kinds
  /\ pc_ptr' = pc_ptr + 1
  /\ UNCHANGED <<cur_tb, num_insns, code_gen_ptr, stubs, sieve_hashtable, ret_hash_table>>

\* simple_disas_insn reads the guest's memory: no code there is a fatal signal.
FetchFault ==
  /\ mode = "emit"
  /\ pc_ptr \notin DOMAIN prog
  /\ mode' = "faulted"
  /\ UNCHANGED <<cacheVars, transVars>>

\* Mutant: the jump is queued but not counted.
note_patch_no_count(ts, at, to, t, func_addr) ==
  /\ tbs' = ts
  /\ patch_array' = Append(patch_array, [at |-> at, to |-> to, tb |-> t, func_addr |-> func_addr])

\* note_patch: queue the jump at address at, and count it in its block.
note_patch(ts, at, to, t, func_addr) ==
  /\ tbs' = [ts EXCEPT ![t].patch_num = @ + 1]
  /\ patch_array' = Append(patch_array, [at |-> at, to |-> to, tb |-> t, func_addr |-> func_addr])

emit_normal ==
  /\ Decode({"nop", "push", "pop"})
  /\ code' = Append(code, OpInsn(pc_ptr))
  /\ UNCHANGED <<tbs, patch_array>>
  /\ Continue

\* System calls run natively; exit_group first calls exit_stub.
emit_int ==
  /\ Decode({"int", "exit"})
  /\ code' = Append(code, IF insn.kind = "exit" THEN OpExit(pc_ptr) ELSE OpInsn(pc_ptr))
  /\ UNCHANGED <<tbs, patch_array>>
  /\ Continue

\* Mutant: the branch is not queued for lazy_patch.
emit_jcond_unnoted ==
  /\ Decode({"jcond"})
  /\ code' = Append(code, OpJcc(pc_ptr, insn.to))
  /\ UNCHANGED <<tbs, patch_array>>
  /\ CallTransNext

emit_jcond ==
  /\ Decode({"jcond"})
  /\ code' = Append(code, OpJcc(pc_ptr, insn.to))
  /\ note_patch(tbs, code_ptr, insn.to, cur_tb, tbs[cur_tb].func_addr)
  /\ CallTransNext

emit_other_jcond ==
  /\ Decode({"loop"})
  /\ code' = code \o <<OpLoop(pc_ptr), OpJmp(insn.to, insn.to, UNPATCHED)>>
  /\ note_patch(tbs, code_ptr + 1, insn.to, cur_tb, tbs[cur_tb].func_addr)
  /\ CallTransNext

emit_call_disp ==
  /\ Decode({"call"})
  /\ code' = code \o
       <<OpCall(pc_ptr, pc_ptr + 1, RET_HASH_FUNC(insn.to), code_ptr + 2),
         OpJmp(insn.to, insn.to, UNPATCHED),
         OpRcCmp(pc_ptr + 1)>>
  /\ note_patch(tbs, code_ptr + 1, insn.to, cur_tb, insn.to)
  /\ CallTransNext

emit_call_near_mem ==
  /\ Decode({"icall"})
  /\ code' = code \o
       <<OpICall(pc_ptr, pc_ptr + 1, code_ptr + 2),
         OpInd(cur_tb, IND_TYPE_CALL),
         OpRcCmp(pc_ptr + 1)>>
  /\ tbs' = [tbs EXCEPT ![cur_tb].ind_addr = code_ptr + 1]
  /\ UNCHANGED patch_array
  /\ CallTransNext

emit_jmp_near_mem ==
  /\ Decode({"ijmp"})
  /\ code' = code \o <<OpIJmp(pc_ptr, tbs[cur_tb].func_addr), OpInd(cur_tb, IND_TYPE_JMP)>>
  /\ tbs' = [tbs EXCEPT ![cur_tb].ind_addr = code_ptr + 1]
  /\ UNCHANGED patch_array
  /\ EndOfSuperblock

\* emit_ret and emit_ret_Iw
emit_ret ==
  /\ Decode({"ret"})
  /\ code' = Append(code, OpRet(pc_ptr, insn.n, RET_HASH_FUNC(tbs[cur_tb].func_addr)))
  /\ UNCHANGED <<tbs, patch_array>>
  /\ EndOfSuperblock

is_function_patten(addr) == prog[addr].kind = "push" /\ prog[addr].v = 0

\* A jump that may enter another function carries the return-cache entry over.
emit_jmp ==
  LET to == insn.to
      func_addr == tbs[cur_tb].func_addr
      dest == tb_find_fast(to)
      isNew == dest = NULL /\ (to < func_addr \/ is_function_patten(to))
      destFunc == IF dest # NULL THEN tbs[dest].func_addr ELSE IF isNew THEN to ELSE 0
      copies == isNew \/ (destFunc # 0 /\ destFunc # func_addr)
      emitted == IF copies THEN <<OpCopyRc(pc_ptr, RET_HASH_FUNC(func_addr), RET_HASH_FUNC(destFunc))>>
                           ELSE <<>>
  IN  \/ /\ Decode({"jmp"})
         /\ isNew => ~ tb_alloc_fails
         /\ code' = code \o emitted \o <<OpJmp(pc_ptr, to, UNPATCHED)>>
         /\ note_patch(IF isNew THEN Append(tbs, NewTB(to, to)) ELSE tbs,
                       Len(code'), to, cur_tb, func_addr)
         /\ EndOfSuperblock
      \/ /\ mode = "emit" /\ pc_ptr \in DOMAIN prog /\ insn.kind = "jmp"
         /\ isNew
         /\ tb_flush

\* trans_next: the code after a branch or a call starts a block of its own,
\* unless that pc is translated already: then jump there and stop.
trans_next ==
  LET t == tb_find_fast(pc_ptr)
      n == tbs[cur_tb].patch_num
  IN  /\ mode = "trans_next"
      /\ \/ /\ Translated(t)
            /\ code' = Append(code, OpJmp(pc_ptr, pc_ptr, tbs[t].tc_ptr))
            /\ tbs' = tb_add_jmp_from(SetJmpOffset(tbs, cur_tb, n, code_ptr), cur_tb, t, n)
            /\ UNCHANGED <<cur_tb, pc_ptr, num_insns, patch_array, code_gen_ptr, stubs,
                           sieve_hashtable, ret_hash_table>>
            /\ EndOfSuperblock
         \/ /\ ~ Translated(t)
            /\ t = NULL => ~ tb_alloc_fails
            /\ LET new == IF t = NULL THEN Len(tbs) + 1 ELSE t
                   all == IF t = NULL THEN Append(tbs, NewTB(pc_ptr, tbs[cur_tb].func_addr)) ELSE tbs
               IN  /\ tbs' = [all EXCEPT ![new].tc_ptr = code_ptr]
                   /\ cur_tb' = new
            /\ UNCHANGED <<pc_ptr, num_insns, patch_array, code, code_gen_ptr, stubs,
                           sieve_hashtable, ret_hash_table>>
            /\ Continue
         \/ /\ t = NULL
            /\ tb_flush

LimitReached == Len(patch_array) >= PATCH_ARRAY_SIZE - 2 \/ num_insns >= MAX_INSNS

\* Mutant: the block keeps the address of the closing jump.
CloseEmptyBlock_kept == tbs

\* Mutant: a block with code loses its address too.
CloseEmptyBlock_always == [tbs EXCEPT ![cur_tb].tc_ptr = NOT_TRANS_YET]

\* A block that trans_next opened at this very address gets no code after all.
CloseEmptyBlock ==
  IF tbs[cur_tb].tc_ptr = code_ptr
  THEN [tbs EXCEPT ![cur_tb].tc_ptr = NOT_TRANS_YET] ELSE tbs

\* The end of the loop body: at a limit the superblock is closed by a jump to
\* the next pc.
CheckLimit ==
  /\ mode = "limit"
  /\ \/ /\ ~ LimitReached
        /\ num_insns' = num_insns + 1
        /\ mode' = "emit"
        /\ UNCHANGED <<cacheVars, cur_tb, pc_ptr, patch_array>>
     \/ /\ LimitReached
        /\ note_patch(CloseEmptyBlock, code_ptr, pc_ptr, cur_tb, tbs[cur_tb].func_addr)
        /\ code' = Append(code, OpJmp(pc_ptr, pc_ptr, UNPATCHED))
        /\ UNCHANGED <<cur_tb, pc_ptr, num_insns, code_gen_ptr, stubs, sieve_hashtable,
                       ret_hash_table>>
        /\ EndOfSuperblock

(***************************************************************************)
(* lazy_patch, one queued jump per step                                    *)
(***************************************************************************)

\* Mutant: a block is made even if there is one without code.
BlockForExit_always(ts, pc, func_addr) == Append(ts, NewTB(pc, func_addr))

\* ts with a block for pc, which the exit stub will ask the dispatcher for.
BlockForExit(ts, pc, func_addr) ==
  IF tb_find_fast(pc) = NULL THEN Append(ts, NewTB(pc, func_addr)) ELSE ts

lazy_patch ==
  LET p == Head(patch_array)
      dest == tb_find_fast(p.to)
      n == tbs[p.tb].patch_num - 1
      counted == SetJmpOffset([tbs EXCEPT ![p.tb].patch_num = n], p.tb, n, p.at)
  IN  /\ mode = "patch"
      /\ patch_array # <<>>
      /\ \/ /\ Translated(dest)
            /\ code' = [code EXCEPT ![p.at].dest = tbs[dest].tc_ptr]
            /\ tbs' = tb_add_jmp_from(counted, p.tb, dest, n)
            /\ patch_array' = Tail(patch_array)
            /\ UNCHANGED <<stubs, code_gen_ptr, sieve_hashtable, ret_hash_table,
                           cur_tb, pc_ptr, num_insns, mode>>
         \/ /\ ~ Translated(dest)
            /\ dest = NULL => ~ tb_alloc_fails
            /\ tbs' = BlockForExit(counted, p.to, p.func_addr)
            /\ stubs' = Append(stubs, [tb |-> p.tb, patch_num |-> n, to |-> p.to])
            /\ code' = [code EXCEPT ![p.at].dest = - Len(stubs')]
            /\ patch_array' = Tail(patch_array)
            /\ UNCHANGED <<code_gen_ptr, sieve_hashtable, ret_hash_table,
                           cur_tb, pc_ptr, num_insns, mode>>
         \/ /\ dest = NULL
            /\ tb_flush

\* Mutant: the end of the buffer is not published.
EndTranslation_unpublished ==
  /\ mode = "patch"
  /\ patch_array = <<>>
  /\ mode' = "link"
  /\ UNCHANGED <<tbs, code, code_gen_ptr, stubs, sieve_hashtable, ret_hash_table, transVars>>

\* The superblock is done: publish the end of the buffer, back to cpu_exec.  Only
\* now is the buffer's size compared with what has been written.
EndTranslation ==
  /\ mode = "patch"
  /\ patch_array = <<>>
  /\ code_gen_ptr' = code_ptr
  /\ \/ Len(code) <= code_gen_buffer_size /\ mode' = "link"
     \/ Len(code) > code_gen_buffer_size /\ mode' = "aborted"
  /\ UNCHANGED <<tbs, code, stubs, sieve_hashtable, ret_hash_table, transVars>>

gen_target_code ==
  \/ emit_normal \/ emit_int \/ emit_jcond \/ emit_other_jcond \/ emit_call_disp
  \/ emit_call_near_mem \/ emit_jmp_near_mem \/ emit_ret \/ emit_jmp
  \/ FetchFault \/ trans_next \/ CheckLimit \/ lazy_patch \/ EndTranslation
=============================================================================
