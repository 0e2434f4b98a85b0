------------------------------ MODULE CpuExec ------------------------------
(***************************************************************************)
(* The whole translator: cpu_exec (cpu-exec.c) looks the guest pc up,      *)
(* has it translated (Translate), links the block it came from to the one  *)
(* it goes to, and enters the code cache (CodeCache) until the code comes   *)
(* back through the epilogue.  The composition implements Guest.           *)
(***************************************************************************)
EXTENDS CodeCache

LOCAL INSTANCE FiniteSetsExt

CONSTANTS
  STB_MAX,              \* superblocks that are ever translated
  SIEVE_BUFFER_SIZE     \* stubs and nodes that the sieve buffer holds

ASSUME BufferAssumption == STB_MAX \in Nat /\ SIEVE_BUFFER_SIZE \in Nat

VARIABLES
  tb,           \* the block get_next_tb returned
  stb_count     \* cgc->stb_count

execVars == <<tb, stb_count>>
vars == <<prog, mode, cacheVars, transVars, hostVars, envVars, execVars>>

prev_tb == ret_tb     \* what tcg_qemu_tb_exec returned

(***************************************************************************)
(* get_next_tb                                                             *)
(***************************************************************************)

\* The function a block found missing by the dispatcher is filed under.
FuncAddrOfNext ==
  CASE ind_type = IND_TYPE_CALL -> eip
    [] ind_type = IND_TYPE_JMP -> ind_dest
    [] ind_type = NOT_IND -> IF prev_tb # NULL THEN tbs[prev_tb].func_addr ELSE 0

\* cpu_gen_code: the block's code starts at code_gen_ptr.
cpu_gen_code(ts, t) ==
  /\ tb' = t
  /\ tbs' = [ts EXCEPT ![t].tc_ptr = code_gen_ptr]
  /\ cur_tb' = t
  /\ pc_ptr' = ts[t].pc
  /\ num_insns' = 0
  /\ patch_array' = <<>>
  /\ stb_count' = stb_count + 1
  /\ mode' = IF stb_count' >= STB_MAX THEN "aborted" ELSE "emit"
  /\ UNCHANGED <<code, code_gen_ptr, stubs, sieve_hashtable, ret_hash_table>>

get_next_tb ==
  LET t == tb_find_fast(eip)
  IN  /\ mode = "dispatch"
      /\ \/ /\ t = NULL /\ ~ tb_alloc_fails
            /\ cpu_gen_code(Append(tbs, NewTB(eip, FuncAddrOfNext)), Len(tbs) + 1)
         \/ /\ t = NULL
            /\ tb_flush /\ UNCHANGED execVars
         \/ /\ t # NULL /\ ~ Translated(t)
            /\ cpu_gen_code(tbs, t)
         \/ /\ Translated(t)
            /\ tb' = t
            /\ mode' = "link"
            /\ UNCHANGED <<cacheVars, transVars, stb_count>>
      /\ UNCHANGED <<prog, hostVars, envVars>>

(***************************************************************************)
(* Linking, then entering the code cache                                   *)
(***************************************************************************)

EnterCodeCache ==
  /\ hp' = tbs[tb].tc_ptr
  /\ ret_tb' = NULL
  /\ ind_type' = NOT_IND
  /\ mode' = "exec"
  /\ UNCHANGED <<prog, transVars, stack, ecx, eip, patch_num, ind_dest, execVars>>
  /\ UNCHANGED <<code_gen_ptr, stubs, ret_hash_table>>

\* What the sieve buffer holds: exit stubs and sieve nodes.
SieveSize(table) == Len(stubs) + MapThenSumSet(LAMBDA b : Len(table[b]), DOMAIN table)

\* Mutant: the bucket is not made to lead to the new node.
SieveWith_unlinked(t) == sieve_hashtable

\* The hash table with block t in front of its bucket's chain.
SieveWith(t) ==
  [sieve_hashtable EXCEPT ![SIEVE_HASH(tbs[t].pc)] =
     <<[pc |-> tbs[t].pc, dest |-> tbs[t].tc_ptr]>> \o @]

\* Back from the sieve: remember the target there.  The size of the buffer is
\* compared after the node is written, and at no other place.
add_sieve_entry ==
  /\ mode = "link" /\ ind_type # NOT_IND /\ prev_tb = NULL
  /\ sieve_hashtable' = IF Translated(tb) THEN SieveWith(tb) ELSE sieve_hashtable
  /\ UNCHANGED <<tbs, code>>
  /\ \/ /\ SieveSize(sieve_hashtable') <= SIEVE_BUFFER_SIZE
        /\ EnterCodeCache
     \/ /\ SieveSize(sieve_hashtable') > SIEVE_BUFFER_SIZE
        /\ mode' = "aborted"
        /\ UNCHANGED <<prog, transVars, hostVars, envVars, execVars>>
        /\ UNCHANGED <<code_gen_ptr, stubs, ret_hash_table>>

\* Back from an indirect branch: fill its next slot, or send it to the sieve.
patch_ind_opt ==
  LET at == tbs[prev_tb].ind_addr
  IN  /\ mode = "link" /\ ind_type # NOT_IND /\ prev_tb # NULL
      /\ \/ /\ tbs[prev_tb].jmp_ind_index < IND_SLOT_MAX
            /\ code' = [code EXCEPT ![at].slots =
                          Append(@, [src |-> eip, dest |-> tbs[tb].tc_ptr])]
            /\ tbs' = [tbs EXCEPT ![prev_tb].jmp_ind_index = @ + 1]
         \/ /\ tbs[prev_tb].jmp_ind_index >= IND_SLOT_MAX
            /\ code' = [code EXCEPT ![at].to_sieve = TRUE]
            /\ UNCHANGED tbs
      /\ UNCHANGED sieve_hashtable
      /\ EnterCodeCache

\* Mutant: the address after the jump.
LinkAddress_past == tbs[prev_tb].tc_ptr + tbs[prev_tb].tb_jmp_offset[patch_num] + 1

\* The address tb_set_jmp_target writes to.
LinkAddress == tbs[prev_tb].tc_ptr + tbs[prev_tb].tb_jmp_offset[patch_num]

\* Back from an exit stub: let the jump lead straight to tb from now on.
tb_add_jump ==
  /\ mode = "link" /\ ind_type = NOT_IND
  /\ \/ /\ prev_tb # NULL /\ tb # prev_tb
        /\ code' = [code EXCEPT ![LinkAddress].dest = tbs[tb].tc_ptr]
        /\ tbs' = tb_add_jmp_from(tbs, prev_tb, tb, patch_num)
     \/ /\ prev_tb = NULL \/ tb = prev_tb
        /\ UNCHANGED <<code, tbs>>
  /\ UNCHANGED sieve_hashtable
  /\ EnterCodeCache

cpu_exec == get_next_tb \/ add_sieve_entry \/ patch_ind_opt \/ tb_add_jump

(***************************************************************************)
(* Specification                                                           *)
(***************************************************************************)

\* After codecache_prologue_init: the entry block exists, nothing is translated.
Init ==
  /\ prog \in Programs
  /\ mode = "dispatch"
  /\ tbs = <<NewTB(1, 1)>>
  /\ code = <<>> /\ code_gen_ptr = 1 /\ stubs = <<>>
  /\ sieve_hashtable = [b \in 0 .. SIEVE_SIZE - 1 |-> <<>>]
  /\ ret_hash_table = [b \in 0 .. RET_CACHE_SIZE - 1 |-> 0]
  /\ cur_tb = NULL /\ pc_ptr = 1 /\ num_insns = 0 /\ patch_array = <<>>
  /\ hp = 0 /\ stack = <<>> /\ ecx = GuestECX
  /\ eip = 1 /\ ret_tb = NULL /\ ind_type = NOT_IND /\ patch_num = 0 /\ ind_dest = 0
  /\ tb = NULL /\ stb_count = 0

\* The process is gone.
Stopped ==
  /\ mode \in {"halted", "faulted", "aborted"}
  /\ UNCHANGED vars

Step ==
  \/ cpu_exec
  \/ gen_target_code /\ UNCHANGED <<prog, hostVars, envVars, execVars>>
  \/ RunCodeCache /\ UNCHANGED execVars

Next == Step \/ Stopped

Spec == Init /\ [][Next]_vars

\* One thread runs all of this and nothing in it waits.
LiveSpec == Spec /\ WF_vars(Step)

(***************************************************************************)
(* Refinement: the guest state that a state of the translator represents   *)
(***************************************************************************)

InCodeCache == mode \in {"exec", "halted"}

\* An indirect target in flight is a word on the stack: the operand pushed by
\* an indirect branch, or the return address when a return reaches a cmp site.
TargetOnStack == InCodeCache /\ hp > 0 /\ code[hp].op \in {"ind", "rc_cmp"}
InSieve == InCodeCache /\ hp = sieve_stub

GuestPC ==
  IF ~ InCodeCache THEN eip
  ELSE IF hp < 0 THEN stubs[-hp].to
  ELSE IF InSieve THEN stack[2]
  ELSE IF TargetOnStack THEN stack[1]
  ELSE code[hp].pc

GuestStack ==
  IF InSieve THEN DropN(stack, 2) ELSE IF TargetOnStack THEN DropN(stack, 1) ELSE stack

G == INSTANCE Guest WITH pc <- GuestPC, stack <- GuestStack, alive <- mode \notin {"halted", "faulted"}

\* Every run of the translator is a run of the guest program: links, inlined
\* targets, sieve nodes and return sites only ever take control where the
\* guest's own instruction would, with the guest's stack.
ImplementsGuest == G!Spec

\* And the guest program makes progress: neither the dispatcher nor a lookup
\* nor a chain of jumps in the code cache loops without executing a guest
\* instruction.
ImplementsLiveGuest == G!LiveSpec

(***************************************************************************)
(* Safety                                                                  *)
(***************************************************************************)

IsJump(a) == code[a].op \in {"jcc", "jmp"}

\* Every variable stays in its type; in particular patch_array and the
\* tb_jmp_offset index of each block stay inside their C arrays.
TypeOK ==
  /\ prog \in Programs
  /\ mode \in {"dispatch", "emit", "trans_next", "limit", "patch", "link", "exec",
              "halted", "faulted", "aborted"}
  /\ \A t \in DOMAIN tbs : /\ tbs[t].tc_ptr \in 0 .. code_ptr
                          /\ tbs[t].patch_num \in 0 .. PATCH_MAX - 1
                          /\ tbs[t].jmp_ind_index \in 0 .. IND_SLOT_MAX
                          /\ tbs[t].jmp_from_index \in 0 .. TB_FROM_MAX - 1
  /\ Len(patch_array) < PATCH_ARRAY_SIZE
  /\ {cur_tb, ret_tb, tb} \subseteq 0 .. Len(tbs)
  /\ eip \in Nat
  /\ ind_type \in {NOT_IND, IND_TYPE_CALL, IND_TYPE_JMP}
  /\ patch_num \in 0 .. PATCH_MAX - 1
  /\ hp \in - Len(stubs) .. Len(code)
  /\ ecx \in {GuestECX, Scratch}

\* make_tb is called at five places, each after a lookup of its own; together
\* they never make two blocks for one guest pc.
OneBlockPerPC == \A s, t \in DOMAIN tbs : tbs[s].pc = tbs[t].pc => s = t

\* A block's tc_ptr is where the code of the block's own guest pc starts.  The
\* one exception is the block being opened, which has no code yet; a superblock
\* that ends just there must not leave the exception behind.
CodeStartsAtTcPtr ==
  \A t \in DOMAIN tbs : Translated(t) =>
     \/ tbs[t].tc_ptr \in DOMAIN code /\ code[tbs[t].tc_ptr].pc = tbs[t].pc
     \/ tbs[t].tc_ptr = code_ptr /\ t = cur_tb /\ mode \in {"emit", "limit", "faulted", "aborted"}

\* When the dispatcher links two blocks, the address it computes from
\* tb_jmp_offset is that of a jump whose guest target is the pc linked to.
LinkHitsItsJump ==
  mode = "link" /\ ind_type = NOT_IND /\ prev_tb \notin {NULL, tb} =>
    /\ LinkAddress \in DOMAIN code /\ IsJump(LinkAddress)
    /\ code[LinkAddress].to = tbs[tb].pc

\* No jump is run before lazy_patch has given it a destination, and every
\* destination is the code, or a stub that asks for the code, of its target; a
\* stub that reaches the dispatcher asks for a pc that has a block, so that the
\* "unexpected path" of get_next_tb is dead.
JumpsResolved ==
  /\ mode \in {"dispatch", "link", "exec"} =>
       \A a \in DOMAIN code : IsJump(a) =>
          \/ \E k \in DOMAIN stubs : code[a].dest = -k /\ stubs[k].to = code[a].to
          \/ \E t \in DOMAIN tbs : /\ Translated(t) /\ code[a].dest = tbs[t].tc_ptr
                                  /\ tbs[t].pc = code[a].to
  /\ mode = "dispatch" /\ ind_type = NOT_IND => tb_find_fast(eip) # NULL

\* Each prediction is remembered once: the slots of an indirect branch have
\* distinct targets and the sieve has one node per pc, so lookups stay short
\* and the slots and nodes are not used up by repetitions.
PredictionsDistinct ==
  /\ \A a \in DOMAIN code : code[a].op = "ind" =>
        \A i, j \in DOMAIN code[a].slots : code[a].slots[i].src = code[a].slots[j].src => i = j
  /\ \A b \in DOMAIN sieve_hashtable : \A i, j \in DOMAIN sieve_hashtable[b] :
        sieve_hashtable[b][i].pc = sieve_hashtable[b][j].pc => i = j

\* jmp_from "indicated which tbs are jumped into this tb, and from which of
\* their jmp_stub" (exec-all.h:166-167): each recorded predecessor's jump, found
\* through its tb_jmp_offset, leads to this block.
JmpFromSound ==
  mode = "exec" =>
    \A t \in DOMAIN tbs : \A i \in 0 .. TB_FROM_MAX - 1 :
       LET from == tbs[t].jmp_from[i]
           at == tbs[from.tb].tc_ptr + tbs[from.tb].tb_jmp_offset[from.n]
       IN  from.tb # NULL => at \in DOMAIN code /\ IsJump(at) /\ code[at].dest = tbs[t].tc_ptr

\* Whenever guest code or the dispatcher runs, %ecx holds the guest's value;
\* only the sieve sees the scratch value, and then the guest's is on the stack.
EcxIsRestored ==
  IF InSieve THEN stack[1] = GuestECX ELSE ecx = GuestECX

(***************************************************************************)
(* Liveness and step properties                                            *)
(***************************************************************************)

\* A block that has code never moves: links, inlined targets and sieve nodes
\* hold copies of its tc_ptr that nobody would update.
TcPtrIsFinal ==
  [][ \A t \in DOMAIN tbs : tbs[t].tc_ptr \in DOMAIN code =>
         tbs'[t].tc_ptr = tbs[t].tc_ptr ]_vars

\* The program settles in the code cache: after finitely many visits to the
\* dispatcher every exit is linked, inlined or in the sieve.
SettlesInCodeCache == <>[](mode \in {"exec", "halted", "faulted"})

\* The assertion "code_buffer overflow" of gen_target_code (translate.c:549-550)
\* stops the process when a superblock does not fit the code buffer; code beyond
\* its end is never written by a process that goes on.
CodeFitsBuffer == Len(code) > code_gen_buffer_size => mode = "aborted"

\* The assertion "out of sieve buffer" of add_sieve_entry (translate.c:453-454)
\* stops the process when stubs and nodes do not fit the sieve buffer.
SieveFitsBuffer == SieveSize(sieve_hashtable) > SIEVE_BUFFER_SIZE => mode = "aborted"
=============================================================================
