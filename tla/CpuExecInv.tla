----------------------------- MODULE CpuExecInv -----------------------------
(***************************************************************************)
(* The inductive invariant of CpuExec: why links, inlined targets, sieve    *)
(* nodes, exit stubs and return sites lead where the guest program goes.    *)
(* Its parts are about the store of blocks, the code, the jumps waiting for *)
(* lazy_patch, the links between blocks, and the machine state.            *)
(***************************************************************************)
EXTENDS CpuExec

(***************************************************************************)
(* Hypothesis on the programs                                              *)
(***************************************************************************)

StraightKinds == {"nop", "int", "push", "pop", "exit"}

\* The code of a run of instructions without a branch is shorter than what the
\* uint16_t tb_jmp_offset can express.
ShortBlocks ==
  \A p \in Programs : \A i, j \in DOMAIN p :
     i <= j /\ (\A k \in i .. j - 1 : p[k].kind \in StraightKinds) => j - i + 3 < OffsetRange

(***************************************************************************)
(* Types                                                                   *)
(***************************************************************************)

TBs ==
  [pc : Nat, tc_ptr : Nat, func_addr : Nat, patch_num : {0, 1},
   tb_jmp_offset : [0 .. PATCH_MAX - 1 -> Nat],
   jmp_from : [0 .. TB_FROM_MAX - 1 -> [tb : Nat, n : 0 .. PATCH_MAX - 1]],
   jmp_from_index : 0 .. TB_FROM_MAX - 1,
   ind_addr : Nat, jmp_ind_index : 0 .. IND_SLOT_MAX]

PlainOps == [op : {"insn", "exit", "loop"}, pc : Nat]
JumpOps == [op : {"jcc", "jmp"}, pc : Nat, to : Nat, dest : Int]
CallOps == [op : {"call"}, pc : Nat, ret : Nat, entry : 0 .. RET_CACHE_SIZE - 1, site : Nat]
ICallOps == [op : {"icall"}, pc : Nat, ret : Nat, site : Nat]
IJmpOps == [op : {"ijmp"}, pc : Nat, func_addr : Nat]
IndOps == [op : {"ind"}, tb : Nat, ind_type : {IND_TYPE_CALL, IND_TYPE_JMP},
           slots : Seq([src : Nat, dest : Int]), to_sieve : BOOLEAN]
RcCmpOps == [op : {"rc_cmp"}, ret : Nat]
RetOps == [op : {"ret"}, pc : Nat, n : Nat, entry : 0 .. RET_CACHE_SIZE - 1]
CopyRcOps == [op : {"copy_rc"}, pc : Nat, from : 0 .. RET_CACHE_SIZE - 1, to : 0 .. RET_CACHE_SIZE - 1]

HostOps == PlainOps \cup JumpOps \cup CallOps \cup ICallOps \cup IJmpOps \cup IndOps
             \cup RcCmpOps \cup RetOps \cup CopyRcOps

Patches == [at : Nat, to : Nat, tb : Nat, func_addr : Nat]
Stubs == [tb : Nat, patch_num : 0 .. PATCH_MAX - 1, to : Nat]

CacheTypes ==
  /\ prog \in Programs
  /\ tbs \in Seq(TBs)
  /\ code \in Seq(HostOps)
  /\ code_gen_ptr \in Nat
  /\ stubs \in Seq(Stubs)
  /\ sieve_hashtable \in [0 .. SIEVE_SIZE - 1 -> Seq([pc : Nat, dest : Int])]
  /\ cur_tb \in 0 .. Len(tbs)
  /\ pc_ptr \in Nat
  /\ num_insns \in Nat
  /\ patch_array \in Seq(Patches)
  /\ tb \in 0 .. Len(tbs)
  /\ stb_count \in Nat

HostTypes ==
  /\ mode \in {"dispatch", "emit", "trans_next", "limit", "patch", "link", "exec",
               "halted", "faulted", "aborted"}
  /\ ret_hash_table \in [0 .. RET_CACHE_SIZE - 1 -> Nat]
  /\ hp \in - Len(stubs) .. Len(code)
  /\ stack \in Seq(Int)
  /\ ecx \in {GuestECX, Scratch}
  /\ eip \in Nat
  /\ ret_tb \in 0 .. Len(tbs)
  /\ ind_type \in {NOT_IND, IND_TYPE_CALL, IND_TYPE_JMP}
  /\ patch_num \in 0 .. PATCH_MAX - 1
  /\ ind_dest \in Nat

(***************************************************************************)
(* The code                                                                *)
(***************************************************************************)

Emitting == mode \in {"emit", "limit"}
Unfinished == mode \in {"emit", "limit", "trans_next", "faulted", "aborted"}
Stable == mode \in {"dispatch", "link", "exec", "halted"}

\* The code of guest pc q starts at a: neither an indirect branch's comparisons
\* nor a return site, which expect a word on the stack.
At(a, q) == a \in DOMAIN code /\ code[a].op \notin {"ind", "rc_cmp"} /\ code[a].pc = q

\* Control goes on behind a at guest pc q; at the end of the buffer, where the
\* translator is going to emit.
FallsTo(a, q) ==
  \/ At(a + 1, q)
  \/ a = Len(code) /\ Unfinished /\ pc_ptr = q

OpIs(a, op) == a \in DOMAIN code /\ code[a].op = op
IsInsn(q, kinds) == q \in DOMAIN prog /\ prog[q].kind \in kinds

\* The jump at a leads, without an instruction of the guest, to guest pc q.
Leads(a, q) == OpIs(a, "jmp") /\ code[a].pc = q /\ code[a].to = q

OpOK(a) ==
  LET c == code[a]
  IN  /\ c.op = "insn" => IsInsn(c.pc, {"nop", "int", "push", "pop"}) /\ FallsTo(a, c.pc + 1)
      /\ c.op = "exit" => IsInsn(c.pc, {"exit"})
      /\ c.op = "jcc" => IsInsn(c.pc, {"jcond"}) /\ prog[c.pc].to = c.to /\ FallsTo(a, c.pc + 1)
      /\ c.op = "loop" => /\ IsInsn(c.pc, {"loop"}) /\ Leads(a + 1, prog[c.pc].to)
                          /\ FallsTo(a + 1, c.pc + 1)
      /\ c.op = "jmp" => c.to = c.pc \/ (IsInsn(c.pc, {"jmp"}) /\ prog[c.pc].to = c.to)
      /\ c.op = "call" => /\ IsInsn(c.pc, {"call"}) /\ Leads(a + 1, prog[c.pc].to)
                          /\ c.ret = c.pc + 1 /\ c.site = a + 2 /\ OpIs(a + 2, "rc_cmp")
      /\ c.op = "icall" => /\ IsInsn(c.pc, {"icall"}) /\ OpIs(a + 1, "ind")
                           /\ c.ret = c.pc + 1 /\ c.site = a + 2 /\ OpIs(a + 2, "rc_cmp")
      /\ c.op = "ijmp" => IsInsn(c.pc, {"ijmp"}) /\ OpIs(a + 1, "ind")
      /\ c.op = "ind" => \A i \in DOMAIN c.slots : At(c.slots[i].dest, c.slots[i].src)
      /\ c.op = "rc_cmp" => FallsTo(a, c.ret)
      /\ c.op = "ret" => IsInsn(c.pc, {"ret"}) /\ prog[c.pc].n = c.n
      /\ c.op = "copy_rc" => OpIs(a + 1, "jmp") /\ code[a + 1].pc = c.pc

OpsOK == \A a \in DOMAIN code : OpOK(a)

(***************************************************************************)
(* Blocks                                                                  *)
(***************************************************************************)

BlocksOK ==
  \A t \in DOMAIN tbs : tbs[t].tc_ptr # NOT_TRANS_YET =>
     \/ At(tbs[t].tc_ptr, tbs[t].pc)
     \/ tbs[t].tc_ptr = code_ptr /\ t = cur_tb /\ mode \in {"emit", "limit", "faulted", "aborted"}

\* The block being emitted holds one host operation for each instruction so far.
OpenBlockOK ==
  Emitting =>
    /\ cur_tb # NULL
    /\ tbs[cur_tb].tc_ptr # NOT_TRANS_YET
    /\ code_ptr - tbs[cur_tb].tc_ptr = pc_ptr - tbs[cur_tb].pc
    /\ pc_ptr >= tbs[cur_tb].pc
    /\ \A q \in tbs[cur_tb].pc .. pc_ptr - 1 : IsInsn(q, StraightKinds)

\* The block that the dispatcher asked for starts the superblock.
AskedOK ==
  /\ mode \in {"emit", "limit", "trans_next", "patch", "link"} =>
       tb # NULL /\ tbs[tb].pc = eip /\ tbs[tb].tc_ptr # NOT_TRANS_YET
  /\ mode \in {"limit", "trans_next", "patch", "link"} => tbs[tb].tc_ptr \in DOMAIN code
  /\ mode \in {"dispatch", "link", "exec"} => code_gen_ptr = code_ptr
  /\ mode \in {"emit", "limit", "trans_next", "patch"} => cur_tb # NULL
  \* only the first instruction of a superblock can be missing
  /\ mode = "emit" => pc_ptr \in DOMAIN prog \/ pc_ptr = eip
  /\ mode \in {"limit", "trans_next"} => pc_ptr \in DOMAIN prog

(***************************************************************************)
(* Jumps waiting for lazy_patch                                            *)
(***************************************************************************)

PatchOK(p) ==
  /\ p.at \in DOMAIN code /\ IsJump(p.at) /\ code[p.at].to = p.to
  /\ p.tb \in DOMAIN tbs /\ tbs[p.tb].patch_num = 1
  /\ \/ /\ tbs[p.tb].tc_ptr \in DOMAIN code
        /\ p.at - tbs[p.tb].tc_ptr \in 0 .. OffsetRange - 1
     \/ mode \in {"patch", "aborted"} /\ tbs[p.tb].tc_ptr = NOT_TRANS_YET /\ tbs[p.tb].pc = p.to

PatchesOK ==
  /\ \A i \in DOMAIN patch_array : PatchOK(patch_array[i])
  /\ \A i, j \in DOMAIN patch_array : patch_array[i].tb = patch_array[j].tb => i = j
  /\ \A t \in DOMAIN tbs : tbs[t].patch_num = 1 => \E i \in DOMAIN patch_array : patch_array[i].tb = t
  /\ Emitting => tbs[cur_tb].patch_num = 0
  /\ Stable => patch_array = <<>>
  /\ Len(patch_array) < PATCH_ARRAY_SIZE
  /\ mode \in {"limit", "trans_next"} => Len(patch_array) < PATCH_ARRAY_SIZE - 1
  /\ mode = "emit" => Len(patch_array) < PATCH_ARRAY_SIZE - 2

Resolved(a) ==
  \/ \E k \in DOMAIN stubs : code[a].dest = -k /\ stubs[k].to = code[a].to
  \/ \E t \in DOMAIN tbs : /\ Translated(t) /\ code[a].dest = tbs[t].tc_ptr
                           /\ tbs[t].pc = code[a].to /\ tbs[t].tc_ptr \in DOMAIN code

JumpsOK ==
  \A a \in DOMAIN code : IsJump(a) =>
     Resolved(a) \/ \E i \in DOMAIN patch_array : patch_array[i].at = a

(***************************************************************************)
(* Links between blocks                                                    *)
(***************************************************************************)

LinkAt(t, n) == tbs[t].tc_ptr + tbs[t].tb_jmp_offset[n]

\* Exit n of block t is a jump to guest pc q.
JumpAt(t, n, q) ==
  /\ tbs[t].tc_ptr \in DOMAIN code
  /\ LinkAt(t, n) \in DOMAIN code /\ IsJump(LinkAt(t, n)) /\ code[LinkAt(t, n)].to = q

\* Exit n of block t is in nobody's hands, but for stubs that ask for t itself,
\* which are never linked.
Unused(t, n) ==
  /\ \A k \in DOMAIN stubs : stubs[k].tb = t /\ stubs[k].patch_num = n => stubs[k].to = tbs[t].pc
  /\ \A u \in DOMAIN tbs : \A i \in 0 .. TB_FROM_MAX - 1 : tbs[u].jmp_from[i] # [tb |-> t, n |-> n]

StubOK(s) ==
  /\ s.tb \in DOMAIN tbs
  /\ \E u \in DOMAIN tbs : tbs[u].pc = s.to
  /\ JumpAt(s.tb, s.patch_num, s.to) \/ tbs[s.tb].pc = s.to

StubsOK == \A k \in DOMAIN stubs : StubOK(stubs[k])

\* Block u is where exit from.n of block from.tb jumps to.
RingOK(u, from) ==
  from.tb # NULL =>
    /\ from.tb \in DOMAIN tbs
    /\ JumpAt(from.tb, from.n, tbs[u].pc)
    /\ tbs[u].tc_ptr \in DOMAIN code
    /\ code[LinkAt(from.tb, from.n)].dest = tbs[u].tc_ptr

RingsOK == \A u \in DOMAIN tbs : \A i \in 0 .. TB_FROM_MAX - 1 : RingOK(u, tbs[u].jmp_from[i])

ExitsOK ==
  /\ \A t \in DOMAIN tbs : tbs[t].tc_ptr = NOT_TRANS_YET => \A n \in 0 .. PATCH_MAX - 1 : Unused(t, n)
  /\ Emitting => \A n \in 0 .. PATCH_MAX - 1 : Unused(cur_tb, n)
  /\ mode = "trans_next" => /\ Unused(cur_tb, tbs[cur_tb].patch_num)
                            /\ tbs[cur_tb].tc_ptr \in DOMAIN code
                            /\ code_ptr - tbs[cur_tb].tc_ptr < OffsetRange
  /\ \A i \in DOMAIN patch_array : Unused(patch_array[i].tb, 0)

(***************************************************************************)
(* Predicted targets                                                       *)
(***************************************************************************)

\* The comparisons of an indirect branch are found through its block.
IndOK(a) ==
  /\ code[a].tb \in DOMAIN tbs
  /\ tbs[code[a].tb].ind_addr = a
  /\ tbs[code[a].tb].tc_ptr \in DOMAIN code
  /\ Emitting => code[a].tb # cur_tb
  /\ Len(code[a].slots) = tbs[code[a].tb].jmp_ind_index
  /\ \A i, j \in DOMAIN code[a].slots : code[a].slots[i].src = code[a].slots[j].src => i = j

IndsOK ==
  /\ \A a \in DOMAIN code : code[a].op = "ind" => IndOK(a)
  /\ \A t \in DOMAIN tbs : tbs[t].tc_ptr = NOT_TRANS_YET => tbs[t].jmp_ind_index = 0
  /\ Emitting => tbs[cur_tb].jmp_ind_index = 0

SieveOK ==
  \A b \in DOMAIN sieve_hashtable :
     /\ \A i \in DOMAIN sieve_hashtable[b] :
           /\ SIEVE_HASH(sieve_hashtable[b][i].pc) = b
           /\ At(sieve_hashtable[b][i].dest, sieve_hashtable[b][i].pc)
     /\ \A i, j \in DOMAIN sieve_hashtable[b] :
           sieve_hashtable[b][i].pc = sieve_hashtable[b][j].pc => i = j

(***************************************************************************)
(* The machine                                                             *)
(***************************************************************************)

ReturnCacheOK ==
  \A e \in DOMAIN ret_hash_table : ret_hash_table[e] # 0 =>
     OpIs(ret_hash_table[e], "rc_cmp")

MachineOK ==
  IF InSieve
  THEN Len(stack) >= 2 /\ stack[1] = GuestECX /\ \A i \in 2 .. Len(stack) : stack[i] \in Nat
  ELSE ecx = GuestECX /\ \A i \in DOMAIN stack : stack[i] \in Nat

HostPointerOK ==
  InCodeCache =>
    /\ hp > 0 /\ code[hp].op \in {"ind", "rc_cmp"} => stack # <<>>
    /\ ret_tb = NULL /\ ind_type = NOT_IND

\* Why the dispatcher was asked: by a stub, by an indirect branch whose slots do
\* not have the target, or by the sieve, which has no node for it.
Dispatching == mode \in {"dispatch", "emit", "limit", "trans_next", "patch", "link"}

RequestOK ==
  Dispatching =>
    /\ ind_type = NOT_IND /\ ret_tb # NULL =>
         \E k \in DOMAIN stubs : stubs[k] = [tb |-> ret_tb, patch_num |-> patch_num, to |-> eip]
    /\ ind_type = NOT_IND => \E u \in DOMAIN tbs : tbs[u].pc = eip
    /\ ind_type # NOT_IND /\ ret_tb # NULL =>
         \E a \in DOMAIN code : /\ code[a].op = "ind" /\ code[a].tb = ret_tb
                                /\ \A i \in DOMAIN code[a].slots : code[a].slots[i].src # eip
    /\ ind_type # NOT_IND /\ ret_tb = NULL =>
         \A i \in DOMAIN sieve_hashtable[SIEVE_HASH(eip)] : sieve_hashtable[SIEVE_HASH(eip)][i].pc # eip

(***************************************************************************)
(* The invariant                                                           *)
(***************************************************************************)

\* Between any two steps of translator, dispatcher and emitted code, the store and
\* the code agree: each block's code starts with its instruction, each jump has a
\* resolved destination or waits for lazy_patch, each exit stub, link, inlined
\* target and sieve node belongs to the jump or target it was made for.
CacheInv ==
  /\ CacheTypes /\ OneBlockPerPC /\ OpsOK /\ BlocksOK /\ OpenBlockOK /\ AskedOK
  /\ PatchesOK /\ JumpsOK /\ StubsOK /\ RingsOK /\ ExitsOK /\ IndsOK /\ SieveOK

HostInv == HostTypes /\ ReturnCacheOK /\ MachineOK /\ HostPointerOK /\ RequestOK

\* The cache is sound, the host's stack and %ecx stand for the guest's, and what the
\* dispatcher is asked for comes from a stub, a missed slot or a missed sieve
\* lookup. This is what makes the translated code do what the guest's code does.
IInv == CacheInv /\ HostInv
=============================================================================
