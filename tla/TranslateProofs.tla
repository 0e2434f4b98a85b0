--------------------------- MODULE TranslateProofs ---------------------------
(***************************************************************************)
(* Translating keeps the invariant of CpuExecInv: the emitters, the blocks *)
(* that trans_next opens and the limit closes, lazy_patch, and the end of  *)
(* a superblock.                                                           *)
(***************************************************************************)
EXTENDS CodeCacheProofs

(***************************************************************************)
(* Emitters                                                                *)
(***************************************************************************)

\* The step of an emitter that writes new at the end of the code; new[j], if j
\* is not 0, is the jump that it notes for lazy_patch.
Emission(new, j) ==
  /\ mode = "emit" /\ mode' \in {"limit", "trans_next", "patch"}
  /\ pc_ptr \in DOMAIN prog /\ pc_ptr' = pc_ptr + 1
  /\ UNCHANGED <<prog, cur_tb, num_insns, code_gen_ptr, stubs, sieve_hashtable, ret_hash_table>>
  /\ UNCHANGED <<hostVars, envVars, execVars>>
  /\ new \in Seq(HostOps) /\ Len(new) \in 1 .. 3 /\ code' = code \o new
  /\ new[1].op \notin {"ind", "rc_cmp"} /\ new[1].pc = pc_ptr
  /\ j \in 0 .. Len(new) /\ \A i \in 1 .. Len(new) : new[i].op \in {"jcc", "jmp"} <=> i = j
  /\ j = 0 => patch_array' = patch_array
  /\ j # 0 => \E f \in Nat : patch_array' = Append(patch_array,
                [at |-> Len(code) + j, to |-> new[j].to, tb |-> cur_tb, func_addr |-> f])
  /\ mode' = "limit" => j = 0 /\ Len(new) = 1 /\ insn.kind \in StraightKinds
  /\ mode' = "trans_next" => insn.kind \notin {"jmp", "ijmp", "ret"}

\* What it does to the blocks.
EmittedBlocks(new, j) ==
  /\ tbs' \in Seq(TBs) /\ OneBlockPerPC'
  /\ \A t \in DOMAIN tbs :
        /\ t \in DOMAIN tbs'
        /\ tbs'[t].pc = tbs[t].pc /\ tbs'[t].tc_ptr = tbs[t].tc_ptr
        /\ tbs'[t].tb_jmp_offset = tbs[t].tb_jmp_offset /\ tbs'[t].jmp_from = tbs[t].jmp_from
        /\ tbs'[t].jmp_ind_index = tbs[t].jmp_ind_index
        /\ t # cur_tb => tbs'[t].ind_addr = tbs[t].ind_addr /\ tbs'[t].patch_num = tbs[t].patch_num
  /\ \A t \in DOMAIN tbs' \ DOMAIN tbs : \E q, f : tbs'[t] = NewTB(q, f)
  /\ tbs'[cur_tb].patch_num = IF j = 0 THEN 0 ELSE 1
  /\ \A i \in 1 .. Len(new) : new[i].op = "ind" =>
        /\ new[i].tb = cur_tb /\ new[i].slots = <<>>
        /\ tbs'[cur_tb].ind_addr = Len(code) + i

NewOpsOK == \A a \in DOMAIN code' \ DOMAIN code : OpOK(a)'

\* The code grows, and everything in it stays.
LEMMA EmissionGrows ==
  ASSUME IInv, NEW new, NEW j, Emission(new, j)
  PROVE  /\ code' \in Seq(HostOps) /\ Len(code') = Len(code) + Len(new)
         /\ DOMAIN code = 1 .. Len(code) /\ Len(code) \in Nat /\ Len(new) \in 1 .. 3
         /\ DOMAIN code' = 1 .. Len(code) + Len(new)
         /\ \A a \in DOMAIN code : code'[a] = code[a]
         /\ \A i \in 1 .. Len(new) : code'[Len(code) + i] = new[i]
         /\ \A a \in DOMAIN code' \ DOMAIN code : a - Len(code) \in 1 .. Len(new) /\ code'[a] = new[a - Len(code)]
         /\ KeepsCode /\ KeepsSlots
<1>1. CacheTypes /\ new \in Seq(HostOps) /\ code' = code \o new /\ prog' = prog /\ Len(new) \in 1 .. 3
  BY DEF IInv, CacheInv, Emission
<1>2. DOMAIN code = 1 .. Len(code) /\ Len(code) \in Nat
  BY <1>1, Domains
<1>3. \A i \in 1 .. Len(new) : code'[Len(code) + i] = new[i]
  BY <1>1, Grow
<1>4. ASSUME NEW a \in DOMAIN code' \ DOMAIN code
      PROVE  a - Len(code) \in 1 .. Len(new) /\ code'[a] = new[a - Len(code)]
  <2>1. a \in 1 .. Len(code) + Len(new) /\ a \notin 1 .. Len(code)
    BY <1>1, <1>2, <1>4, Grow
  <2>2. a - Len(code) \in 1 .. Len(new) /\ Len(code) + (a - Len(code)) = a
    BY <1>1, <1>2, <2>1
  <2>3. code'[Len(code) + (a - Len(code))] = new[a - Len(code)]
    BY <1>3, <2>2
  <2> QED BY <2>2, <2>3
<1>5. /\ code' \in Seq(HostOps) /\ Len(code') = Len(code) + Len(new)
      /\ DOMAIN code' = 1 .. Len(code) + Len(new)
      /\ \A a \in DOMAIN code : code'[a] = code[a]
      /\ KeepsCode /\ KeepsSlots
  BY <1>1, Grow
<1> QED BY <1>1, <1>2, <1>3, <1>4, <1>5

\* The block being emitted.
LEMMA OpenBlock ==
  ASSUME IInv, Emitting
  PROVE  /\ cur_tb \in DOMAIN tbs /\ tbs[cur_tb] \in TBs
         /\ tbs[cur_tb].tc_ptr # NOT_TRANS_YET /\ tbs[cur_tb].patch_num = 0
         /\ tbs[cur_tb].jmp_ind_index = 0
         /\ code_ptr - tbs[cur_tb].tc_ptr = pc_ptr - tbs[cur_tb].pc
         /\ pc_ptr >= tbs[cur_tb].pc
         /\ \A q \in tbs[cur_tb].pc .. pc_ptr - 1 : IsInsn(q, StraightKinds)
         /\ code_ptr = Len(code) + 1 /\ Len(code) \in Nat /\ pc_ptr \in Nat
<1>1. cur_tb \in 0 .. Len(tbs) /\ cur_tb # NULL
  BY DEF IInv, CacheInv, CacheTypes, OpenBlockOK, Emitting
<1>2. cur_tb \in DOMAIN tbs /\ tbs[cur_tb] \in TBs /\ Len(code) \in Nat
  BY <1>1, Domains DEF IInv, CacheInv, NULL
<1> QED BY <1>2 DEF IInv, CacheInv, CacheTypes, OpenBlockOK, PatchesOK, IndsOK, Emitting, code_ptr

\* The pc that an emitter is at.
LEMMA AtInsn ==
  ASSUME IInv, mode = "emit"
  PROVE  /\ cur_tb \in DOMAIN tbs /\ tbs[cur_tb] \in TBs
         /\ tbs[cur_tb].tc_ptr # NOT_TRANS_YET /\ tbs[cur_tb].patch_num = 0
         /\ tbs[cur_tb].jmp_ind_index = 0
         /\ code_ptr - tbs[cur_tb].tc_ptr = pc_ptr - tbs[cur_tb].pc
         /\ pc_ptr >= tbs[cur_tb].pc
         /\ \A q \in tbs[cur_tb].pc .. pc_ptr - 1 : IsInsn(q, StraightKinds)
         /\ code_ptr = Len(code) + 1 /\ Len(code) \in Nat /\ pc_ptr \in Nat
BY OpenBlock DEF Emitting

\* A block fits the offsets that its exits are recorded with.
LEMMA OpenBlockIsShort ==
  ASSUME IInv, ShortBlocks, Emitting, pc_ptr \in DOMAIN prog
  PROVE  code_ptr + 3 - tbs[cur_tb].tc_ptr \in 0 .. OffsetRange - 1
<1> DEFINE q == tbs[cur_tb].pc
<1>1. prog \in Programs /\ OffsetRange \in Nat
  BY SizeAssumption DEF IInv, CacheInv, CacheTypes
<1>2. DOMAIN prog = 1 .. Len(prog) /\ Len(prog) \in Nat
  BY <1>1, ProgramFacts
<1>3. q \in Nat /\ tbs[cur_tb].tc_ptr \in Nat /\ pc_ptr \in Nat
  BY OpenBlock DEF TBs
<1>4. q \in DOMAIN prog /\ q <= pc_ptr
  <2>1. CASE q = pc_ptr
    BY <2>1, <1>3
  <2>2. CASE q # pc_ptr
    <3>1. q \in q .. pc_ptr - 1 /\ q <= pc_ptr
      BY <1>3, <2>2, OpenBlock
    <3> QED BY <3>1, OpenBlock DEF IsInsn
  <2> QED BY <2>1, <2>2
<1>5. \A k \in q .. pc_ptr - 1 : prog[k].kind \in StraightKinds
  BY OpenBlock DEF IsInsn
<1>6. pc_ptr - q + 3 < OffsetRange
  BY <1>1, <1>4, <1>5 DEF ShortBlocks
<1>7. code_ptr - tbs[cur_tb].tc_ptr = pc_ptr - q /\ code_ptr \in Nat
  BY OpenBlock
<1> HIDE DEF q
<1> QED BY <1>1, <1>3, <1>4, <1>6, <1>7

\* The same, as an emitter finds it.
LEMMA BlockIsShort ==
  ASSUME IInv, ShortBlocks, mode = "emit", pc_ptr \in DOMAIN prog
  PROVE  code_ptr + 3 - tbs[cur_tb].tc_ptr \in 0 .. OffsetRange - 1
BY OpenBlockIsShort DEF Emitting

\* The types after an emitter.
LEMMA EmissionTypes ==
  ASSUME IInv, NEW new, NEW j, Emission(new, j), EmittedBlocks(new, j)
  PROVE  CacheTypes' /\ KeepsBlocks /\ KeepsStubs
<1>1. KeepsBlocks /\ KeepsStubs
  BY DEF KeepsBlocks, KeepsStubs, EmittedBlocks, Emission
<1>2. tbs' \in Seq(TBs) /\ code' \in Seq(HostOps)
  BY EmissionGrows DEF EmittedBlocks
<1>3. Len(tbs) <= Len(tbs') /\ Len(tbs') \in Nat /\ Len(tbs) \in Nat
  <2>1. DOMAIN tbs' = 1 .. Len(tbs') /\ Len(tbs') \in Nat
    BY <1>2
  <2>2. DOMAIN tbs = 1 .. Len(tbs) /\ Len(tbs) \in Nat
    BY Domains DEF IInv, CacheInv
  <2>3. CASE Len(tbs) = 0
    BY <2>1, <2>3
  <2>4. CASE Len(tbs) # 0
    BY <1>1, <2>1, <2>2, <2>4 DEF KeepsBlocks
  <2> QED BY <2>1, <2>2, <2>3, <2>4
<1>4. patch_array' \in Seq(Patches)
  <2>1. patch_array \in Seq(Patches) /\ Len(code) \in Nat /\ cur_tb \in Nat
    BY Domains DEF IInv, CacheInv, CacheTypes
  <2>2. CASE j = 0
    BY <2>1, <2>2 DEF Emission
  <2>3. CASE j # 0
    <3>1. j \in 1 .. Len(new) /\ new[j] \in HostOps /\ new[j].op \in {"jcc", "jmp"} /\ j \in Nat
      BY <2>3 DEF Emission
    <3>2. new[j].to \in Nat
      BY <3>1, OpKinds DEF JumpOps
    <3>3. PICK f \in Nat : patch_array' = Append(patch_array,
                [at |-> Len(code) + j, to |-> new[j].to, tb |-> cur_tb, func_addr |-> f])
      BY <2>3 DEF Emission
    <3>4. [at |-> Len(code) + j, to |-> new[j].to, tb |-> cur_tb, func_addr |-> f] \in Patches
      BY <2>1, <3>1, <3>2 DEF Patches
    <3> QED BY <2>1, <3>3, <3>4, AppendProperties
  <2> QED BY <2>2, <2>3
<1>5. /\ pc_ptr' \in Nat /\ cur_tb' \in 0 .. Len(tbs') /\ tb' \in 0 .. Len(tbs')
      /\ prog' \in Programs /\ code_gen_ptr' \in Nat /\ stubs' \in Seq(Stubs)
      /\ sieve_hashtable' \in [0 .. SIEVE_SIZE - 1 -> Seq([pc : Nat, dest : Int])]
      /\ num_insns' \in Nat /\ stb_count' \in Nat
  BY <1>3 DEF IInv, CacheInv, CacheTypes, Emission, execVars
<1> QED BY <1>1, <1>2, <1>4, <1>5 DEF CacheTypes

\* The code and the blocks' addresses after an emitter.
LEMMA EmissionCode ==
  ASSUME IInv, NEW new, NEW j, Emission(new, j), EmittedBlocks(new, j), NewOpsOK
  PROVE  OpsOK' /\ BlocksOK' /\ SieveOK'
<1>1. Len(code) + 1 \in DOMAIN code' /\ code'[Len(code) + 1] = new[1]
  BY EmissionGrows
<1>2. new[1].op \notin {"ind", "rc_cmp"} /\ new[1].pc = pc_ptr
  BY DEF Emission
<1>3. OpsOK'
  <2>1. \A a \in DOMAIN code : OpOK(a)'
    BY <1>1, <1>2, OldOps, EmissionGrows DEF IInv, CacheInv
  <2> QED BY <2>1 DEF OpsOK, NewOpsOK
<1>4. BlocksOK'
  <2> SUFFICES ASSUME NEW t \in DOMAIN tbs', tbs'[t].tc_ptr # NOT_TRANS_YET
               PROVE  At(tbs[t].tc_ptr, tbs[t].pc)'
    BY DEF BlocksOK
  <2>1. t \in DOMAIN tbs /\ tbs'[t].tc_ptr = tbs[t].tc_ptr /\ tbs'[t].pc = tbs[t].pc
    BY DEF EmittedBlocks, NewTB
  <2>2. CASE At(tbs[t].tc_ptr, tbs[t].pc)
    BY <2>1, <2>2, Persists, EmissionGrows DEF At
  <2>3. CASE tbs[t].tc_ptr = code_ptr /\ t = cur_tb
    <3>1. tbs[t].pc = pc_ptr /\ tbs[t].tc_ptr = Len(code) + 1
      BY <2>1, <2>3, AtInsn, SMTT(30) DEF Emission, TBs
    <3> QED BY <1>1, <1>2, <2>1, <3>1 DEF At
  <2> QED BY <2>1, <2>2, <2>3 DEF IInv, CacheInv, BlocksOK
<1>5. SieveOK'
  BY OldNodes, EmissionGrows DEF IInv, CacheInv, Emission
<1> QED BY <1>3, <1>4, <1>5

\* The open block and the block asked for after an emitter.
LEMMA EmissionOpen ==
  ASSUME IInv, NEW new, NEW j, Emission(new, j), EmittedBlocks(new, j)
  PROVE  OpenBlockOK' /\ AskedOK'
<1> DEFINE c == tbs[cur_tb]
<1>1. /\ c \in TBs /\ cur_tb \in DOMAIN tbs /\ c.pc \in Nat /\ c.tc_ptr \in Nat
      /\ tbs'[cur_tb].pc = c.pc /\ tbs'[cur_tb].tc_ptr = c.tc_ptr
      /\ pc_ptr \in Nat /\ pc_ptr >= c.pc /\ c.tc_ptr # NOT_TRANS_YET
  BY AtInsn DEF Emission, EmittedBlocks, TBs
<1>2. /\ Len(code) + 1 - c.tc_ptr = pc_ptr - c.pc /\ Len(code') = Len(code) + Len(new)
      /\ Len(code) \in Nat /\ Len(new) \in 1 .. 3 /\ DOMAIN code' = 1 .. Len(code) + Len(new)
  <2>1. mode = "emit"
    BY DEF Emission
  <2>2. Len(code) + 1 - c.tc_ptr = pc_ptr - c.pc
    BY <1>1, <2>1, AtInsn DEF code_ptr
  <2> HIDE DEF c
  <2> QED BY <2>2, EmissionGrows
<1>3. \A q \in c.pc .. pc_ptr - 1 : IsInsn(q, StraightKinds)
  BY AtInsn DEF Emission
<1>4. OpenBlockOK'
  <2> SUFFICES ASSUME mode' = "limit" PROVE OpenBlockOK'
    BY DEF OpenBlockOK, Emitting, Emission
  <2>1. Len(new) = 1 /\ IsInsn(pc_ptr, StraightKinds) /\ pc_ptr' = pc_ptr + 1 /\ cur_tb' = cur_tb /\ prog' = prog
    BY DEF Emission, IsInsn, insn
  <2>2. Len(code') + 1 - c.tc_ptr = (pc_ptr + 1) - c.pc
    <3> HIDE DEF c
    <3> QED BY <1>1, <1>2, <2>1
  <2>3. \A q \in c.pc .. (pc_ptr + 1) - 1 : IsInsn(q, StraightKinds)'
    <3> SUFFICES ASSUME NEW q \in c.pc .. pc_ptr PROVE IsInsn(q, StraightKinds)'
      BY <1>1
    <3>1. CASE q = pc_ptr
      BY <3>1, <2>1 DEF IsInsn
    <3>2. CASE q # pc_ptr
      <4>1. q \in c.pc .. pc_ptr - 1
        BY <1>1, <3>2
      <4> QED BY <4>1, <1>3, <2>1 DEF IsInsn
    <3> QED BY <3>1, <3>2
  <2>4. cur_tb # NULL /\ pc_ptr + 1 >= c.pc
    BY <1>1, Domains DEF IInv, CacheInv, NULL
  <2> HIDE DEF c
  <2> QED BY <1>1, <2>1, <2>2, <2>3, <2>4 DEF OpenBlockOK, code_ptr, IsInsn
<1>5. AskedOK'
  <2>1. tb # NULL /\ tbs[tb].pc = eip /\ tbs[tb].tc_ptr # NOT_TRANS_YET /\ tb' = tb /\ eip' = eip
    BY DEF IInv, CacheInv, AskedOK, Emission, execVars, envVars
  <2>2. tb \in DOMAIN tbs
    BY <2>1, Domains DEF IInv, CacheInv, CacheTypes, NULL
  <2>3. tbs'[tb].pc = eip /\ tbs'[tb].tc_ptr = tbs[tb].tc_ptr
    BY <2>1, <2>2 DEF EmittedBlocks
  <2>4. tbs[tb].tc_ptr \in DOMAIN code'
    <3>1. CASE At(tbs[tb].tc_ptr, tbs[tb].pc)
      BY <3>1, EmissionGrows DEF At, KeepsCode
    <3>2. CASE tbs[tb].tc_ptr = code_ptr
      <4>1. Len(code) + 1 \in DOMAIN code'
        BY EmissionGrows
      <4> QED BY <3>2, <4>1 DEF code_ptr
    <3> QED BY <2>1, <2>2, <3>1, <3>2 DEF IInv, CacheInv, BlocksOK
  <2>5. mode' \in {"limit", "trans_next"} => pc_ptr' \in DOMAIN prog'
    <3>1. DOMAIN prog = 1 .. Len(prog) /\ Len(prog) \in Nat /\ prog[Len(prog)].kind \in {"jmp", "ijmp", "ret"}
      BY ProgramFacts DEF IInv, CacheInv, CacheTypes
    <3>2. mode' \in {"limit", "trans_next"} => pc_ptr # Len(prog)
      BY <3>1 DEF Emission, insn, StraightKinds
    <3>3. pc_ptr \in 1 .. Len(prog) /\ pc_ptr' = pc_ptr + 1 /\ prog' = prog
      BY <3>1 DEF Emission
    <3>4. ASSUME NEW n \in Nat, NEW q \in 1 .. n, q # n PROVE q + 1 \in 1 .. n
      BY <3>4
    <3> QED BY <3>1, <3>2, <3>3, <3>4
  <2>6. cur_tb' # NULL
    BY <1>1, Domains DEF IInv, CacheInv, NULL, Emission
  <2> QED BY <2>1, <2>3, <2>4, <2>5, <2>6 DEF AskedOK, Emission
<1> QED BY <1>4, <1>5

\* The jumps waiting for lazy_patch after an emitter.
LEMMA EmissionPatches ==
  ASSUME IInv, ShortBlocks, NEW new, NEW j, Emission(new, j), EmittedBlocks(new, j), BlocksOK'
  PROVE  PatchesOK' /\ JumpsOK'
<1>1. /\ PatchesOK /\ JumpsOK /\ mode = "emit" /\ mode' \in {"limit", "trans_next", "patch"}
      /\ cur_tb' = cur_tb /\ cur_tb \in DOMAIN tbs /\ tbs[cur_tb].patch_num = 0 /\ tbs[cur_tb] \in TBs
      /\ PATCH_ARRAY_SIZE \in Nat
  BY AtInsn, SizeAssumption DEF IInv, CacheInv, Emission
<1>2. \A a \in DOMAIN code : a \in DOMAIN code' /\ code'[a] = code[a]
  BY EmissionGrows DEF KeepsCode
<1>3. ASSUME NEW p, PatchOK(p) PROVE PatchOK(p)' /\ p.tb # cur_tb
  <2>1. /\ p.at \in DOMAIN code /\ IsJump(p.at) /\ code[p.at].to = p.to
        /\ p.tb \in DOMAIN tbs /\ tbs[p.tb].patch_num = 1
        /\ tbs[p.tb].tc_ptr \in DOMAIN code
        /\ p.at - tbs[p.tb].tc_ptr \in 0 .. OffsetRange - 1
    BY <1>1, <1>3 DEF PatchOK
  <2>2. p.tb # cur_tb
    BY <1>1, <2>1
  <2>3. p.tb \in DOMAIN tbs' /\ tbs'[p.tb].patch_num = 1 /\ tbs'[p.tb].tc_ptr = tbs[p.tb].tc_ptr
    BY <2>1, <2>2 DEF EmittedBlocks
  <2> QED BY <1>2, <2>1, <2>2, <2>3 DEF PatchOK, IsJump
<1>4. ASSUME NEW a \in DOMAIN code, Resolved(a) PROVE Resolved(a)'
  <2>1. code'[a] = code[a] /\ stubs' = stubs
    BY <1>2 DEF Emission
  <2>2. CASE \E k \in DOMAIN stubs : code[a].dest = -k /\ stubs[k].to = code[a].to
    BY <2>1, <2>2 DEF Resolved
  <2>3. CASE \E t \in DOMAIN tbs : /\ Translated(t) /\ code[a].dest = tbs[t].tc_ptr
                                   /\ tbs[t].pc = code[a].to /\ tbs[t].tc_ptr \in DOMAIN code
    BY <1>2, <2>1, <2>3 DEF Resolved, Translated, EmittedBlocks
  <2> QED BY <1>4, <2>2, <2>3 DEF Resolved
<1>5. CASE j = 0
  <2>1. patch_array' = patch_array /\ tbs'[cur_tb].patch_num = 0
    BY <1>5 DEF Emission, EmittedBlocks
  <2>2. \A t \in DOMAIN tbs' : tbs'[t].patch_num = 1 => t \in DOMAIN tbs /\ tbs[t].patch_num = 1
    BY <2>1 DEF EmittedBlocks, NewTB
  <2>3. PatchesOK'
    <3>1. \A i \in DOMAIN patch_array : PatchOK(patch_array[i])'
      <4> SUFFICES ASSUME NEW i \in DOMAIN patch_array PROVE PatchOK(patch_array[i])'
        OBVIOUS
      <4>1. \A p : p = patch_array[i] => PatchOK(p)'
        BY <1>1, <1>3 DEF PatchesOK
      <4> QED BY <2>1, <4>1 DEF PatchOK
    <3>2. \A t \in DOMAIN tbs' : tbs'[t].patch_num = 1 => \E i \in DOMAIN patch_array : patch_array[i].tb = t
      BY <1>1, <2>2 DEF PatchesOK
    <3>3. Len(patch_array) < PATCH_ARRAY_SIZE - 2 /\ Len(patch_array) \in Nat
      BY <1>1, Domains DEF PatchesOK, IInv, CacheInv
    <3> QED BY <1>1, <2>1, <3>1, <3>2, <3>3 DEF PatchesOK, Emitting, Stable, PatchOK
  <2>4. JumpsOK'
    <3> SUFFICES ASSUME NEW a \in DOMAIN code', IsJump(a)'
                 PROVE  Resolved(a)' \/ \E i \in DOMAIN patch_array' : patch_array'[i].at = a
      BY DEF JumpsOK
    <3>1. a \in DOMAIN code
      <4>1. SUFFICES ASSUME a \notin DOMAIN code PROVE FALSE
        OBVIOUS
      <4>2. a - Len(code) \in 1 .. Len(new) /\ new[a - Len(code)].op \in {"jcc", "jmp"}
        BY <4>1, EmissionGrows DEF IsJump
      <4>3. a - Len(code) = j
        BY <4>2 DEF Emission
      <4> QED BY <1>5, <4>2, <4>3
    <3>2. IsJump(a)
      BY <1>2, <3>1 DEF IsJump
    <3> QED BY <1>1, <1>4, <2>1, <3>1, <3>2 DEF JumpsOK
  <2> QED BY <2>3, <2>4
<1>6. CASE j # 0
  <2>1. PICK f \in Nat : patch_array' = Append(patch_array,
                [at |-> Len(code) + j, to |-> new[j].to, tb |-> cur_tb, func_addr |-> f])
    BY <1>6 DEF Emission
  <2> DEFINE e == [at |-> Len(code) + j, to |-> new[j].to, tb |-> cur_tb, func_addr |-> f]
  <2> DEFINE L == Len(patch_array)
  <2>2. patch_array \in Seq(Patches) /\ L \in Nat /\ DOMAIN patch_array = 1 .. L
    BY Domains DEF IInv, CacheInv, CacheTypes
  <2>3. /\ DOMAIN patch_array' = 1 .. L + 1 /\ Len(patch_array') = L + 1
        /\ patch_array'[L + 1] = e /\ \A i \in 1 .. L : patch_array'[i] = patch_array[i]
    BY <2>1, <2>2
  <2>4. /\ j \in 1 .. Len(new) /\ new[j].op \in {"jcc", "jmp"} /\ mode' # "limit"
        /\ tbs'[cur_tb].patch_num = 1 /\ tbs'[cur_tb].tc_ptr = tbs[cur_tb].tc_ptr
        /\ cur_tb \in DOMAIN tbs'
    BY <1>1, <1>6 DEF Emission, EmittedBlocks
  <2>5. Len(code) + j \in DOMAIN code' /\ code'[Len(code) + j] = new[j]
    BY <2>4, EmissionGrows
  <2>6. /\ tbs[cur_tb].tc_ptr \in DOMAIN code'
        /\ Len(code) + j - tbs[cur_tb].tc_ptr \in 0 .. OffsetRange - 1
    <3>1. code_ptr + 3 - tbs[cur_tb].tc_ptr \in 0 .. OffsetRange - 1 /\ OffsetRange \in Nat
      BY BlockIsShort, SizeAssumption DEF Emission
    <3>2. j \in 1 .. 3 /\ Len(code) \in Nat /\ tbs[cur_tb].tc_ptr \in Nat
      <4>1. Len(new) \in 1 .. 3 /\ Len(code) \in Nat
        BY EmissionGrows
      <4>2. j \in 1 .. 3
        BY <2>4, <4>1
      <4> QED BY <1>1, <4>1, <4>2 DEF TBs
    <3>3. tbs[cur_tb].tc_ptr <= Len(code) + 1 /\ tbs[cur_tb].tc_ptr # 0
      BY <1>1, <3>2, AtInsn DEF TBs, NOT_TRANS_YET
    <3>4. DOMAIN code' = 1 .. Len(code) + Len(new) /\ Len(new) \in 1 .. 3
      BY EmissionGrows
    <3>5. ASSUME NEW c \in Nat, NEW x \in Nat, NEW n \in 1 .. 3, x <= c + 1, x # 0, NEW i \in 1 .. 3,
                 NEW r \in Nat, c + 1 + 3 - x \in 0 .. r - 1
          PROVE  x \in 1 .. c + n /\ c + i - x \in 0 .. r - 1
      BY <3>5
    <3> HIDE DEF e, L
    <3> QED BY <3>1, <3>2, <3>3, <3>4, <3>5 DEF code_ptr
  <2>7. ASSUME NEW x, x = e PROVE PatchOK(x)'
    <3>1. x.at = Len(code) + j /\ x.to = new[j].to /\ x.tb = cur_tb
      BY <2>7
    <3>2. /\ Len(code) + j \in DOMAIN code' /\ code'[Len(code) + j].op \in {"jcc", "jmp"}
          /\ code'[Len(code) + j].to = new[j].to
      BY <2>4, <2>5
    <3>3. tbs'[cur_tb].tc_ptr \in DOMAIN code' /\ Len(code) + j - tbs'[cur_tb].tc_ptr \in 0 .. OffsetRange - 1
      BY <2>4, <2>6
    <3> HIDE DEF e, L
    <3>4. x.at - tbs'[x.tb].tc_ptr \in 0 .. OffsetRange - 1
      BY <3>1, <3>3, EmissionGrows, <2>4, SMTT(30) DEF Emission
    <3>5. x.at \in DOMAIN code' /\ code'[x.at].op \in {"jcc", "jmp"} /\ code'[x.at].to = x.to
      BY <3>1, <3>2
    <3>6. x.tb \in DOMAIN tbs' /\ tbs'[x.tb].patch_num = 1 /\ tbs'[x.tb].tc_ptr \in DOMAIN code'
      BY <2>4, <3>1, <3>3
    <3> QED BY <3>4, <3>5, <3>6 DEF PatchOK, IsJump
  <2>8. PatchesOK'
    <3>1. \A i \in 1 .. L + 1 : PatchOK(patch_array[i])'
      <4> SUFFICES ASSUME NEW i \in 1 .. L + 1 PROVE PatchOK(patch_array[i])'
        OBVIOUS
      <4>1. CASE i = L + 1
        <5>1. \A x : x = e => PatchOK(x)'
          BY <2>7
        <5> HIDE DEF e, L
        <5> QED BY <2>3, <4>1, <5>1 DEF PatchOK
      <4>2. CASE i # L + 1
        <5>1. i \in 1 .. L /\ patch_array'[i] = patch_array[i]
          BY <2>2, <2>3, <4>2
        <5>2. \A p : p = patch_array[i] => PatchOK(p)'
          BY <1>1, <1>3, <2>2, <5>1 DEF PatchesOK
        <5> QED BY <5>1, <5>2 DEF PatchOK
      <4> QED BY <4>1, <4>2
    <3>2. \A i \in 1 .. L : patch_array[i].tb # cur_tb
      BY <1>1, <1>3, <2>2 DEF PatchesOK
    <3>3. \A i, k \in 1 .. L + 1 : patch_array'[i].tb = patch_array'[k].tb => i = k
      <4>1. \A i, k \in 1 .. L : patch_array[i].tb = patch_array[k].tb => i = k
        BY <1>1, <2>2 DEF PatchesOK
      <4>2. e.tb = cur_tb /\ \A i \in 1 .. L + 1 : i = L + 1 \/ i \in 1 .. L
        BY <2>2
      <4> HIDE DEF e, L
      <4> QED BY <2>3, <3>2, <4>1, <4>2
    <3>4. \A t \in DOMAIN tbs' : tbs'[t].patch_num = 1 => \E i \in 1 .. L + 1 : patch_array'[i].tb = t
      <4> SUFFICES ASSUME NEW t \in DOMAIN tbs', tbs'[t].patch_num = 1
                   PROVE  \E i \in 1 .. L + 1 : patch_array'[i].tb = t
        OBVIOUS
      <4>1. CASE t = cur_tb
        <5>1. L + 1 \in 1 .. L + 1 /\ e.tb = cur_tb
          BY <2>2
        <5> HIDE DEF e, L
        <5> QED BY <2>3, <4>1, <5>1
      <4>2. CASE t # cur_tb
        <5>1. t \in DOMAIN tbs /\ tbs[t].patch_num = 1
          BY <4>2 DEF EmittedBlocks, NewTB
        <5>2. \E i \in 1 .. L : patch_array[i].tb = t
          BY <1>1, <2>2, <5>1 DEF PatchesOK
        <5> HIDE DEF e
        <5> QED BY <2>2, <2>3, <5>2
      <4> QED BY <4>1, <4>2
    <3>5. L < PATCH_ARRAY_SIZE - 2
      BY <1>1 DEF PatchesOK
    <3>6. L + 1 < PATCH_ARRAY_SIZE - 1 /\ L + 1 < PATCH_ARRAY_SIZE
      BY <1>1, <2>2, <3>5
    <3> HIDE DEF e, L
    <3> QED BY <1>1, <2>3, <2>4, <3>1, <3>3, <3>4, <3>6 DEF PatchesOK, Emitting, Stable
  <2>9. JumpsOK'
    <3> SUFFICES ASSUME NEW a \in DOMAIN code', IsJump(a)'
                 PROVE  Resolved(a)' \/ \E i \in DOMAIN patch_array' : patch_array'[i].at = a
      BY DEF JumpsOK
    <3>1. CASE a \in DOMAIN code
      <4>1. IsJump(a)
        BY <1>2, <3>1 DEF IsJump
      <4>2. Resolved(a) \/ \E i \in 1 .. L : patch_array[i].at = a
        BY <1>1, <2>2, <3>1, <4>1 DEF JumpsOK
      <4> HIDE DEF e
      <4> QED BY <1>4, <2>2, <2>3, <3>1, <4>2
    <3>2. CASE a \notin DOMAIN code
      <4>1. a - Len(code) \in 1 .. Len(new) /\ new[a - Len(code)].op \in {"jcc", "jmp"}
        BY <3>2, EmissionGrows DEF IsJump
      <4>2. a - Len(code) = j
        BY <4>1 DEF Emission
      <4>3. a = Len(code) + j
        BY <4>2, EmissionGrows
      <4>4. L + 1 \in 1 .. L + 1 /\ e.at = a
        BY <2>2, <4>3
      <4> HIDE DEF e, L
      <4> QED BY <2>3, <4>4
    <3> QED BY <3>1, <3>2
  <2> QED BY <2>8, <2>9
<1> QED BY <1>5, <1>6

\* The links between blocks after an emitter.
LEMMA EmissionLinks ==
  ASSUME IInv, ShortBlocks, NEW new, NEW j, Emission(new, j), EmittedBlocks(new, j), BlocksOK', PatchesOK'
  PROVE  StubsOK' /\ RingsOK' /\ ExitsOK'
<1>1. \A a \in DOMAIN code : a \in DOMAIN code' /\ code'[a] = code[a]
  BY EmissionGrows DEF KeepsCode
<1>2. /\ StubsOK /\ RingsOK /\ ExitsOK /\ stubs' = stubs /\ cur_tb' = cur_tb /\ cur_tb \in DOMAIN tbs
      /\ mode = "emit" /\ mode' \in {"limit", "trans_next", "patch"}
  BY AtInsn DEF IInv, CacheInv, Emission
<1>3. \A t \in DOMAIN tbs :
        /\ t \in DOMAIN tbs'
        /\ tbs'[t].pc = tbs[t].pc /\ tbs'[t].tc_ptr = tbs[t].tc_ptr
        /\ tbs'[t].tb_jmp_offset = tbs[t].tb_jmp_offset /\ tbs'[t].jmp_from = tbs[t].jmp_from
  BY DEF EmittedBlocks
<1>4. \A t \in DOMAIN tbs' : t \notin DOMAIN tbs => \A i \in 0 .. TB_FROM_MAX - 1 : tbs'[t].jmp_from[i].tb = NULL
  <2> SUFFICES ASSUME NEW t \in DOMAIN tbs' \ DOMAIN tbs, NEW i \in 0 .. TB_FROM_MAX - 1
               PROVE  tbs'[t].jmp_from[i].tb = NULL
    OBVIOUS
  <2>1. PICK q, f : tbs'[t] = NewTB(q, f)
    BY DEF EmittedBlocks
  <2>2. tbs'[t].jmp_from = [k \in 0 .. TB_FROM_MAX - 1 |-> NoJmpFrom]
    BY <2>1 DEF NewTB
  <2> QED BY <2>2 DEF NoJmpFrom
<1>5. ASSUME NEW t \in DOMAIN tbs, NEW n, NEW q, JumpAt(t, n, q)
      PROVE  JumpAt(t, n, q)' /\ LinkAt(t, n)' = LinkAt(t, n) /\ LinkAt(t, n) \in DOMAIN code
  BY <1>1, <1>3, <1>5 DEF JumpAt, LinkAt, IsJump
<1>6. StubsOK'
  <2> SUFFICES ASSUME NEW k \in DOMAIN stubs
               PROVE  /\ stubs[k].tb \in DOMAIN tbs'
                      /\ \E u \in DOMAIN tbs' : tbs'[u].pc = stubs[k].to
                      /\ JumpAt(stubs[k].tb, stubs[k].patch_num, stubs[k].to)' \/ tbs'[stubs[k].tb].pc = stubs[k].to
    BY <1>2 DEF StubsOK, StubOK, JumpAt, LinkAt, IsJump
  <2>1. stubs[k].tb \in DOMAIN tbs /\ \E u \in DOMAIN tbs : tbs[u].pc = stubs[k].to
    BY <1>2 DEF StubsOK, StubOK
  <2>2. CASE tbs[stubs[k].tb].pc = stubs[k].to
    BY <1>3, <2>1, <2>2
  <2>3. CASE JumpAt(stubs[k].tb, stubs[k].patch_num, stubs[k].to)
    <3>1. \A t, n, q : t = stubs[k].tb /\ n = stubs[k].patch_num /\ q = stubs[k].to => JumpAt(t, n, q)'
      BY <1>5, <2>1, <2>3
    <3>2. JumpAt(stubs[k].tb, stubs[k].patch_num, stubs[k].to)'
      BY <1>2, <3>1 DEF JumpAt, LinkAt, IsJump
    <3> QED BY <1>3, <2>1, <3>2
  <2> QED BY <1>2, <2>2, <2>3 DEF StubsOK, StubOK
<1>7. \A u \in DOMAIN tbs' : \A i \in 0 .. TB_FROM_MAX - 1 : tbs'[u].jmp_from[i].tb # NULL =>
         u \in DOMAIN tbs /\ tbs'[u].jmp_from[i] = tbs[u].jmp_from[i]
  BY <1>3, <1>4
<1>8. RingsOK'
  <2> SUFFICES ASSUME NEW u \in DOMAIN tbs', NEW i \in 0 .. TB_FROM_MAX - 1, tbs'[u].jmp_from[i].tb # NULL
               PROVE  /\ tbs'[u].jmp_from[i].tb \in DOMAIN tbs'
                      /\ JumpAt(tbs[u].jmp_from[i].tb, tbs[u].jmp_from[i].n, tbs[u].pc)'
                      /\ tbs'[u].tc_ptr \in DOMAIN code'
                      /\ code'[LinkAt(tbs[u].jmp_from[i].tb, tbs[u].jmp_from[i].n)'].dest = tbs'[u].tc_ptr
    BY DEF RingsOK, RingOK
  <2> DEFINE from == tbs[u].jmp_from[i]
  <2>1. u \in DOMAIN tbs /\ tbs'[u].jmp_from[i] = from
    BY <1>7
  <2>2. /\ from.tb \in DOMAIN tbs /\ JumpAt(from.tb, from.n, tbs[u].pc)
        /\ tbs[u].tc_ptr \in DOMAIN code /\ code[LinkAt(from.tb, from.n)].dest = tbs[u].tc_ptr
    BY <1>2, <2>1 DEF RingsOK, RingOK
  <2>3. \A t, n, q : t = from.tb /\ n = from.n /\ q = tbs[u].pc =>
           JumpAt(t, n, q)' /\ LinkAt(t, n)' = LinkAt(t, n) /\ LinkAt(t, n) \in DOMAIN code
    BY <1>5, <2>2
  <2>4. JumpAt(tbs[u].jmp_from[i].tb, tbs[u].jmp_from[i].n, tbs[u].pc)'
    <3>1. tbs'[u].pc = tbs[u].pc /\ tbs'[u].jmp_from[i] = from
      BY <1>3, <2>1
    <3> HIDE DEF from
    <3>2. from.tb \in DOMAIN tbs /\ tbs'[from.tb].tc_ptr = tbs[from.tb].tc_ptr
          /\ tbs'[from.tb].tb_jmp_offset = tbs[from.tb].tb_jmp_offset
      BY <1>3, <2>2
    <3> QED BY <1>1, <2>2, <3>1, <3>2 DEF JumpAt, LinkAt, IsJump
  <2>5. LinkAt(tbs[u].jmp_from[i].tb, tbs[u].jmp_from[i].n)' = LinkAt(from.tb, from.n) /\ LinkAt(from.tb, from.n) \in DOMAIN code
    BY <1>3, <2>1, <2>3 DEF LinkAt
  <2> QED BY <1>1, <1>3, <2>1, <2>2, <2>4, <2>5
<1>9. ASSUME NEW t \in DOMAIN tbs, NEW n, Unused(t, n) PROVE Unused(t, n)'
  <2>1. t \in Nat \ {0}
    BY Domains DEF IInv, CacheInv
  <2>2. \A u \in DOMAIN tbs' : \A i \in 0 .. TB_FROM_MAX - 1 : tbs'[u].jmp_from[i] # [tb |-> t, n |-> n]
    BY <1>7, <1>9, <2>1 DEF Unused, NULL
  <2> QED BY <1>2, <1>3, <1>9, <2>2 DEF Unused
<1>10. ASSUME NEW t \in DOMAIN tbs' \ DOMAIN tbs, NEW n PROVE Unused(t, n)'
  <2>1. t # NULL /\ \A k \in DOMAIN stubs : stubs[k].tb # t
    <3>1. DOMAIN tbs' = 1 .. Len(tbs')
      BY DEF EmittedBlocks
    <3> QED BY <1>2, <3>1 DEF StubsOK, StubOK, NULL
  <2>2. \A u \in DOMAIN tbs' : \A i \in 0 .. TB_FROM_MAX - 1 : tbs'[u].jmp_from[i].tb # t
    BY <1>2, <1>7, <2>1 DEF RingsOK, RingOK
  <2>3. \A u \in DOMAIN tbs' : \A i \in 0 .. TB_FROM_MAX - 1 : tbs'[u].jmp_from[i] # [tb |-> t, n |-> n]
    BY <2>2
  <2> QED BY <1>2, <2>1, <2>3 DEF Unused
<1>11. ExitsOK'
  <2>1. \A n \in 0 .. PATCH_MAX - 1 : Unused(cur_tb, n)'
    BY <1>2, <1>9 DEF ExitsOK, Emitting, Unused
  <2>2. \A t \in DOMAIN tbs' : tbs'[t].tc_ptr = NOT_TRANS_YET => \A n \in 0 .. PATCH_MAX - 1 : Unused(t, n)'
    BY <1>2, <1>3, <1>9, <1>10 DEF ExitsOK
  <2>3. mode' = "trans_next" => /\ Unused(cur_tb, tbs[cur_tb].patch_num)'
                                /\ tbs'[cur_tb].tc_ptr \in DOMAIN code'
                                /\ code_ptr' - tbs'[cur_tb].tc_ptr < OffsetRange
    <3>1. tbs'[cur_tb].patch_num \in 0 .. PATCH_MAX - 1
      BY SizeAssumption DEF EmittedBlocks
    <3>2. Unused(cur_tb, tbs[cur_tb].patch_num)'
      BY <1>2, <2>1, <3>1 DEF Unused
    <3>3. mode' = "trans_next" => tbs'[cur_tb].tc_ptr \in DOMAIN code'
      <4>1. tbs'[cur_tb].tc_ptr # NOT_TRANS_YET /\ cur_tb \in DOMAIN tbs'
        BY <1>2, <1>3, AtInsn
      <4> QED BY <1>2, <4>1 DEF BlocksOK, At
    <3>4. code_ptr' - tbs'[cur_tb].tc_ptr < OffsetRange
      <4>1. code_ptr + 3 - tbs[cur_tb].tc_ptr \in 0 .. OffsetRange - 1
        BY BlockIsShort DEF Emission
      <4>2. tbs[cur_tb].tc_ptr \in Nat /\ tbs'[cur_tb].tc_ptr = tbs[cur_tb].tc_ptr /\ OffsetRange \in Nat
        BY <1>2, <1>3, AtInsn, SizeAssumption DEF TBs
      <4>3. Len(code') = Len(code) + Len(new) /\ Len(new) \in 1 .. 3 /\ Len(code) \in Nat
        BY EmissionGrows
      <4>4. code_ptr' = Len(code) + Len(new) + 1 /\ code_ptr = Len(code) + 1
        BY <4>3 DEF code_ptr
      <4>5. Len(code) + 1 + 3 - tbs[cur_tb].tc_ptr \in 0 .. OffsetRange - 1
        BY <4>1, <4>4
      <4>6. Len(code) + Len(new) + 1 - tbs[cur_tb].tc_ptr < OffsetRange
        <5>1. \A c, x, r \in Nat : \A n \in 1 .. 3 : c + 1 + 3 - x \in 0 .. r - 1 => c + n + 1 - x < r
          OBVIOUS
        <5>2. Len(code) \in Nat /\ tbs[cur_tb].tc_ptr \in Nat /\ OffsetRange \in Nat /\ Len(new) \in 1 .. 3
          BY <4>2, <4>3
        <5> QED BY <4>5, <5>1, <5>2
      <4> QED BY <4>2, <4>4, <4>6
    <3> QED BY <3>2, <3>3, <3>4
  <2>4. \A i \in DOMAIN patch_array' : Unused(patch_array[i].tb, 0)'
    <3> SUFFICES ASSUME NEW i \in DOMAIN patch_array' PROVE Unused(patch_array[i].tb, 0)'
      OBVIOUS
    <3>1. 0 \in 0 .. PATCH_MAX - 1
      BY SizeAssumption
    <3>2. patch_array'[i].tb = cur_tb \/ (i \in DOMAIN patch_array /\ patch_array'[i] = patch_array[i])
      <4>1. patch_array \in Seq(Patches)
        BY DEF IInv, CacheInv, CacheTypes
      <4>2. CASE j = 0
        BY <4>2 DEF Emission
      <4>3. CASE j # 0
        <5>1. PICK f \in Nat : patch_array' = Append(patch_array,
                [at |-> Len(code) + j, to |-> new[j].to, tb |-> cur_tb, func_addr |-> f])
          BY <4>3 DEF Emission
        <5> DEFINE e == [at |-> Len(code) + j, to |-> new[j].to, tb |-> cur_tb, func_addr |-> f]
        <5>2. e.tb = cur_tb /\ patch_array' = Append(patch_array, e)
          BY <5>1
        <5> HIDE DEF e
        <5> QED BY <4>1, <5>2
      <4> QED BY <4>2, <4>3
    <3>3. CASE patch_array'[i].tb = cur_tb
      BY <1>2, <2>1, <3>1, <3>3 DEF Unused
    <3>4. CASE i \in DOMAIN patch_array /\ patch_array'[i] = patch_array[i]
      <4>1. Unused(patch_array[i].tb, 0) /\ patch_array[i].tb \in DOMAIN tbs
        BY <1>2, <3>4 DEF ExitsOK, IInv, CacheInv, PatchesOK, PatchOK
      <4>2. \A t : t = patch_array[i].tb => Unused(t, 0)'
        BY <1>9, <4>1
      <4> QED BY <3>4, <4>2 DEF Unused
    <3> QED BY <3>2, <3>3, <3>4
  <2> QED BY <1>2, <2>1, <2>2, <2>3, <2>4 DEF ExitsOK, Emitting, Unused
<1> QED BY <1>6, <1>8, <1>11

\* The comparisons of indirect branches after an emitter.
LEMMA EmissionInds ==
  ASSUME IInv, NEW new, NEW j, Emission(new, j), EmittedBlocks(new, j), BlocksOK'
  PROVE  IndsOK'
<1>1. /\ IndsOK /\ mode = "emit" /\ mode' \in {"limit", "trans_next", "patch"}
      /\ cur_tb' = cur_tb /\ cur_tb \in DOMAIN tbs /\ tbs[cur_tb].jmp_ind_index = 0
  BY AtInsn DEF IInv, CacheInv, Emission
<1>2. \A a \in DOMAIN code : a \in DOMAIN code' /\ code'[a] = code[a]
  BY EmissionGrows DEF KeepsCode
<1>3. ASSUME NEW a \in DOMAIN code, code[a].op = "ind" PROVE IndOK(a)'
  <2>1. IndOK(a) /\ code[a].tb # cur_tb
    BY <1>1, <1>3 DEF IndsOK, IndOK, Emitting
  <2> QED BY <1>1, <1>2, <2>1 DEF IndOK, EmittedBlocks
<1>4. ASSUME NEW a \in DOMAIN code' \ DOMAIN code, code'[a].op = "ind" PROVE IndOK(a)'
  <2> DEFINE i == a - Len(code)
  <2>1. i \in 1 .. Len(new) /\ code'[a] = new[i] /\ Len(code) + i = a
    <3>1. a - Len(code) \in 1 .. Len(new) /\ code'[a] = new[a - Len(code)] /\ Len(code) \in Nat
          /\ a \in 1 .. Len(code) + Len(new)
      BY <1>4, EmissionGrows
    <3> QED BY <3>1
  <2> HIDE DEF i
  <2>2. new[i].tb = cur_tb /\ new[i].slots = <<>> /\ tbs'[cur_tb].ind_addr = a
    BY <1>4, <2>1 DEF EmittedBlocks
  <2>3. mode' # "limit"
    <3>1. SUFFICES ASSUME mode' = "limit" PROVE FALSE
      OBVIOUS
    <3>2. Len(new) = 1 /\ new[1].op # "ind"
      BY <3>1 DEF Emission
    <3> QED BY <1>4, <2>1, <3>2
  <2>4. tbs'[cur_tb].tc_ptr \in DOMAIN code' /\ cur_tb \in DOMAIN tbs' /\ tbs'[cur_tb].jmp_ind_index = 0
    <3>1. tbs'[cur_tb].tc_ptr # NOT_TRANS_YET /\ cur_tb \in DOMAIN tbs' /\ tbs'[cur_tb].jmp_ind_index = 0
      BY <1>1, AtInsn DEF EmittedBlocks
    <3> QED BY <1>1, <2>3, <3>1 DEF BlocksOK, At
  <2>5. Len(<<>>) = 0 /\ DOMAIN <<>> = {}
    OBVIOUS
  <2> QED BY <1>1, <2>1, <2>2, <2>3, <2>4, <2>5 DEF IndOK, Emitting
<1>5. \A t \in DOMAIN tbs' : tbs'[t].tc_ptr = NOT_TRANS_YET => tbs'[t].jmp_ind_index = 0
  BY <1>1 DEF IndsOK, EmittedBlocks, NewTB
<1>6. Emitting' => tbs'[cur_tb'].jmp_ind_index = 0
  BY <1>1 DEF EmittedBlocks
<1> QED BY <1>2, <1>3, <1>4, <1>5, <1>6 DEF IndsOK

\* An emitter keeps the invariant.
LEMMA EmissionStep ==
  ASSUME IInv, ShortBlocks, NEW new, NEW j, Emission(new, j), EmittedBlocks(new, j), NewOpsOK
  PROVE  IInv'
<1>1. CacheTypes' /\ KeepsBlocks /\ KeepsStubs
  BY EmissionTypes
<1>2. OpsOK' /\ BlocksOK' /\ SieveOK'
  BY EmissionCode
<1>3. OpenBlockOK' /\ AskedOK'
  BY EmissionOpen
<1>4. PatchesOK' /\ JumpsOK'
  BY <1>2, EmissionPatches
<1>5. StubsOK' /\ RingsOK' /\ ExitsOK'
  BY <1>2, <1>4, EmissionLinks
<1>6. IndsOK'
  BY <1>2, EmissionInds
<1>7. OneBlockPerPC'
  BY DEF EmittedBlocks
<1>8. HostInv'
  <2>1. /\ UNCHANGED <<sieve_hashtable, ret_hash_table, hostVars, envVars>>
        /\ mode = "emit" /\ mode' \in {"limit", "trans_next", "patch"}
    BY DEF Emission
  <2>2. KeepsCode /\ KeepsSlots
    BY EmissionGrows
  <2> QED BY <1>1, <2>1, <2>2, HostKept DEF IInv, CacheInv
<1> QED BY <1>1, <1>2, <1>3, <1>4, <1>5, <1>6, <1>7, <1>8 DEF IInv, CacheInv

\* Blocks that an emitter leaves alone.
LEMMA SameBlocks ==
  ASSUME IInv, mode = "emit", NEW new, UNCHANGED tbs, \A i \in 1 .. Len(new) : new[i].op # "ind"
  PROVE  EmittedBlocks(new, 0)
BY AtInsn DEF EmittedBlocks, IInv, CacheInv, CacheTypes, OneBlockPerPC

\* An emitter may count a jump and keep the address of comparisons in the block.
LEMMA UpdatedBlocks ==
  ASSUME IInv, mode = "emit", NEW new, NEW j, NEW r \in TBs, tbs' = [tbs EXCEPT ![cur_tb] = r],
         SameBut(tbs[cur_tb], r, {"patch_num", "ind_addr"}), r.patch_num = IF j = 0 THEN 0 ELSE 1,
         \A i \in 1 .. Len(new) : new[i].op = "ind" =>
            new[i].tb = cur_tb /\ new[i].slots = <<>> /\ r.ind_addr = Len(code) + i
  PROVE  EmittedBlocks(new, j)
<1>1. tbs \in Seq(TBs) /\ cur_tb \in DOMAIN tbs
  BY AtInsn DEF IInv, CacheInv, CacheTypes
<1>2. /\ tbs' \in Seq(TBs) /\ DOMAIN tbs' = DOMAIN tbs /\ tbs'[cur_tb] = r
      /\ \A t \in DOMAIN tbs : t # cur_tb => tbs'[t] = tbs[t]
  BY <1>1, ReplaceBlock
<1>3. /\ r.pc = tbs[cur_tb].pc /\ r.tc_ptr = tbs[cur_tb].tc_ptr
      /\ r.tb_jmp_offset = tbs[cur_tb].tb_jmp_offset /\ r.jmp_from = tbs[cur_tb].jmp_from
      /\ r.jmp_ind_index = tbs[cur_tb].jmp_ind_index
  BY DEF SameBut
<1>4. OneBlockPerPC'
  BY <1>2, <1>3 DEF OneBlockPerPC, IInv, CacheInv
<1> QED BY <1>2, <1>3, <1>4 DEF EmittedBlocks

\* note_patch counts the jump in the block.
LEMMA CountedBlocks ==
  ASSUME IInv, mode = "emit", NEW new, NEW j, j # 0, \A i \in 1 .. Len(new) : new[i].op # "ind",
         tbs' = [tbs EXCEPT ![cur_tb].patch_num = @ + 1]
  PROVE  EmittedBlocks(new, j)
<1>1. tbs[cur_tb] \in TBs /\ tbs[cur_tb].patch_num = 0
  BY AtInsn
<1> DEFINE r == [tbs[cur_tb] EXCEPT !.patch_num = 1]
<1>2. r \in TBs /\ SameBut(tbs[cur_tb], r, {"patch_num"}) /\ r.patch_num = 1
  BY <1>1, SetPatchNum
<1>3. tbs' = [tbs EXCEPT ![cur_tb] = r]
  BY <1>1
<1> HIDE DEF r
<1>4. SameBut(tbs[cur_tb], r, {"patch_num", "ind_addr"})
  BY <1>2 DEF SameBut
<1> QED BY <1>2, <1>3, <1>4, UpdatedBlocks

\* The address of an indirect branch's comparisons is kept in the block.
LEMMA IndBlocks ==
  ASSUME IInv, mode = "emit", NEW new, Len(new) \in 2 .. 3, tbs' = [tbs EXCEPT ![cur_tb].ind_addr = code_ptr + 1],
         new[1].op # "ind", new[2].tb = cur_tb, new[2].slots = <<>>, Len(new) = 3 => new[3].op # "ind"
  PROVE  EmittedBlocks(new, 0)
<1>1. tbs[cur_tb] \in TBs /\ tbs[cur_tb].patch_num = 0
  BY AtInsn
<1>2. code_ptr + 1 = Len(code) + 2 /\ code_ptr + 1 \in Nat
  BY AtInsn
<1> DEFINE r == [tbs[cur_tb] EXCEPT !.ind_addr = code_ptr + 1]
<1>3. r \in TBs /\ SameBut(tbs[cur_tb], r, {"ind_addr"}) /\ r.ind_addr = code_ptr + 1
  BY <1>1, <1>2, SetIndAddr
<1>4. tbs' = [tbs EXCEPT ![cur_tb] = r]
  OBVIOUS
<1> HIDE DEF r
<1>5. SameBut(tbs[cur_tb], r, {"patch_num", "ind_addr"}) /\ r.patch_num = 0
  BY <1>1, <1>3 DEF SameBut
<1>6. \A i \in 1 .. Len(new) : new[i].op = "ind" =>
         new[i].tb = cur_tb /\ new[i].slots = <<>> /\ r.ind_addr = Len(code) + i
  <2> SUFFICES ASSUME NEW i \in 1 .. Len(new), new[i].op = "ind"
               PROVE  new[i].tb = cur_tb /\ new[i].slots = <<>> /\ r.ind_addr = Len(code) + i
    OBVIOUS
  <2>1. i = 1 \/ i = 2 \/ (i = 3 /\ Len(new) = 3)
    OBVIOUS
  <2>2. i = 2
    BY <2>1
  <2> QED BY <1>2, <1>3, <2>2
<1> QED BY <1>3, <1>4, <1>5, <1>6, UpdatedBlocks

\* What every emitter does and finds.
LEMMA Decodes ==
  ASSUME IInv, NEW kinds, Decode(kinds), UNCHANGED <<prog, hostVars, envVars, execVars>>
  PROVE  /\ mode = "emit" /\ pc_ptr \in DOMAIN prog /\ pc_ptr \in Nat /\ pc_ptr' = pc_ptr + 1 /\ insn.kind \in kinds
         /\ UNCHANGED <<prog, cur_tb, num_insns, code_gen_ptr, stubs, sieve_hashtable, ret_hash_table>>
         /\ UNCHANGED <<hostVars, envVars, execVars>>
         /\ insn.kind \in {"jcond", "loop", "jmp", "call"} => insn.to \in Nat
         /\ insn.kind = "ret" => insn.n \in Nat
         /\ cur_tb \in Nat /\ tbs[cur_tb].func_addr \in Nat
<1>1. prog \in Programs /\ pc_ptr \in DOMAIN prog /\ pc_ptr \in Nat
  BY DEF IInv, CacheInv, CacheTypes, Decode
<1>2. insn.kind \in {"jcond", "loop", "jmp", "call"} => insn.to \in Nat
  BY <1>1, ProgramFacts DEF insn
<1>3. insn.kind = "ret" => insn.n \in Nat
  BY <1>1, ProgramFacts DEF insn
<1>4. cur_tb \in Nat /\ tbs[cur_tb].func_addr \in Nat
  BY AtInsn, Domains DEF Decode, IInv, CacheInv, TBs
<1> QED BY <1>1, <1>2, <1>3, <1>4 DEF Decode

\* An operation that was just written.
LEMMA NewOp ==
  ASSUME IInv, NEW new, NEW j, Emission(new, j), NEW a \in DOMAIN code' \ DOMAIN code
  PROVE  /\ \E i \in 1 .. Len(new) : a = Len(code) + i /\ code'[a] = new[i]
         /\ Len(code') = Len(code) + Len(new) /\ Len(code) \in Nat /\ Len(new) \in 1 .. 3
         /\ \A i \in 1 .. Len(new) : Len(code) + i \in DOMAIN code' /\ code'[Len(code) + i] = new[i]
<1>1. /\ a - Len(code) \in 1 .. Len(new) /\ code'[a] = new[a - Len(code)]
      /\ DOMAIN code' = 1 .. Len(code) + Len(new) /\ Len(code) \in Nat /\ Len(new) \in 1 .. 3
      /\ Len(code') = Len(code) + Len(new)
      /\ \A i \in 1 .. Len(new) : code'[Len(code) + i] = new[i]
  BY EmissionGrows
<1>2. a = Len(code) + (a - Len(code)) /\ \A i \in 1 .. Len(new) : Len(code) + i \in DOMAIN code'
  BY <1>1
<1> QED BY <1>1, <1>2

\* Instructions that are copied, or replaced by a call of exit_stub.
LEMMA EmitNormalStep ==
  ASSUME IInv, ShortBlocks, emit_normal \/ emit_int, UNCHANGED <<prog, hostVars, envVars, execVars>>
  PROVE  IInv'
<1> DEFINE kinds == {"nop", "push", "pop", "int", "exit"}
<1>1. PICK op : op = IF insn.kind = "exit" THEN OpExit(pc_ptr) ELSE OpInsn(pc_ptr)
  OBVIOUS
<1>2. Decode(kinds) /\ code' = Append(code, op) /\ UNCHANGED <<tbs, patch_array>> /\ mode' = "limit"
  BY <1>1 DEF emit_normal, emit_int, Decode, Continue
<1>3. /\ mode = "emit" /\ pc_ptr \in DOMAIN prog /\ pc_ptr \in Nat /\ pc_ptr' = pc_ptr + 1 /\ insn.kind \in kinds
      /\ UNCHANGED <<prog, cur_tb, num_insns, code_gen_ptr, stubs, sieve_hashtable, ret_hash_table>>
  <2> HIDE DEF kinds
  <2> QED BY <1>2, Decodes
<1>4. /\ op \in HostOps /\ op.op \in {"insn", "exit"} /\ op.pc = pc_ptr
      /\ op.op = "exit" <=> insn.kind = "exit"
  BY <1>1, <1>3 DEF HostOps, PlainOps, OpExit, OpInsn
<1> DEFINE new == <<op>>
<1>5. new \in Seq(HostOps) /\ Len(new) = 1 /\ new[1] = op /\ code' = code \o new
  <2>1. code \in Seq(HostOps)
    BY DEF IInv, CacheInv, CacheTypes
  <2> QED BY <1>2, <1>4, <2>1
<1> HIDE DEF new
<1>6. Emission(new, 0)
  BY <1>2, <1>3, <1>4, <1>5 DEF Emission, StraightKinds
<1>7. EmittedBlocks(new, 0)
  BY <1>2, <1>3, <1>4, <1>5, SameBlocks
<1>8. NewOpsOK
  <2> SUFFICES ASSUME NEW a \in DOMAIN code' \ DOMAIN code PROVE OpOK(a)'
    BY DEF NewOpsOK
  <2>1. a = Len(code') /\ code'[a] = op
    <3>1. PICK i \in 1 .. 1 : a = Len(code) + i /\ code'[a] = new[i]
      BY <1>5, <1>6, NewOp
    <3>2. Len(code') = Len(code) + 1
      BY <1>5, <1>6, NewOp
    <3> QED BY <1>5, <3>1, <3>2
  <2>2. FallsTo(a, pc_ptr)'
    BY <1>2, <2>1 DEF FallsTo, Unfinished
  <2> QED BY <1>3, <1>4, <2>1, <2>2 DEF OpOK, IsInsn, insn, FallsTo, At
<1> QED BY <1>6, <1>7, <1>8, EmissionStep

\* A return.
LEMMA EmitRetStep ==
  ASSUME IInv, ShortBlocks, emit_ret, UNCHANGED <<prog, hostVars, envVars, execVars>>
  PROVE  IInv'
<1>1. PICK op : op = OpRet(pc_ptr, insn.n, RET_HASH_FUNC(tbs[cur_tb].func_addr))
  OBVIOUS
<1>2. Decode({"ret"}) /\ code' = Append(code, op) /\ UNCHANGED <<tbs, patch_array>> /\ mode' = "patch"
  BY <1>1 DEF emit_ret, EndOfSuperblock
<1>3. /\ mode = "emit" /\ pc_ptr \in DOMAIN prog /\ pc_ptr \in Nat /\ pc_ptr' = pc_ptr + 1 /\ insn.kind \in {"ret"}
      /\ UNCHANGED <<prog, cur_tb, num_insns, code_gen_ptr, stubs, sieve_hashtable, ret_hash_table>>
      /\ insn.n \in Nat /\ tbs[cur_tb].func_addr \in Nat
  BY <1>2, Decodes
<1>4. op \in HostOps /\ op.op = "ret" /\ op.pc = pc_ptr /\ op.n = insn.n
  <2>1. RET_HASH_FUNC(tbs[cur_tb].func_addr) \in 0 .. RET_CACHE_SIZE - 1
    BY <1>3, RetHash
  <2> QED BY <1>1, <1>3, <2>1 DEF HostOps, RetOps, OpRet
<1> DEFINE new == <<op>>
<1>5. new \in Seq(HostOps) /\ Len(new) = 1 /\ new[1] = op /\ code' = code \o new
  <2>1. code \in Seq(HostOps)
    BY DEF IInv, CacheInv, CacheTypes
  <2> QED BY <1>2, <1>4, <2>1
<1> HIDE DEF new
<1>6. Emission(new, 0)
  BY <1>2, <1>3, <1>4, <1>5 DEF Emission, StraightKinds
<1>7. EmittedBlocks(new, 0)
  BY <1>2, <1>3, <1>4, <1>5, SameBlocks
<1>8. NewOpsOK
  <2> SUFFICES ASSUME NEW a \in DOMAIN code' \ DOMAIN code PROVE OpOK(a)'
    BY DEF NewOpsOK
  <2>1. code'[a] = op
    BY <1>5, <1>6, NewOp
  <2> QED BY <1>3, <1>4, <2>1 DEF OpOK, IsInsn, insn
<1> QED BY <1>6, <1>7, <1>8, EmissionStep

\* A conditional branch.
LEMMA EmitJcondStep ==
  ASSUME IInv, ShortBlocks, emit_jcond, UNCHANGED <<prog, hostVars, envVars, execVars>>
  PROVE  IInv'
<1>1. PICK op : op = OpJcc(pc_ptr, insn.to)
  OBVIOUS
<1>2. /\ Decode({"jcond"}) /\ code' = Append(code, op) /\ mode' = "trans_next"
      /\ tbs' = [tbs EXCEPT ![cur_tb].patch_num = @ + 1]
      /\ patch_array' = Append(patch_array, [at |-> code_ptr, to |-> insn.to, tb |-> cur_tb,
                                             func_addr |-> tbs[cur_tb].func_addr])
  BY <1>1 DEF emit_jcond, CallTransNext, note_patch
<1>3. /\ mode = "emit" /\ pc_ptr \in DOMAIN prog /\ pc_ptr \in Nat /\ pc_ptr' = pc_ptr + 1 /\ insn.kind \in {"jcond"}
      /\ UNCHANGED <<prog, cur_tb, num_insns, code_gen_ptr, stubs, sieve_hashtable, ret_hash_table>>
      /\ insn.to \in Nat /\ tbs[cur_tb].func_addr \in Nat
  BY <1>2, Decodes
<1>4. op \in HostOps /\ op.op = "jcc" /\ op.pc = pc_ptr /\ op.to = insn.to
  BY <1>1, <1>3 DEF HostOps, JumpOps, OpJcc, UNPATCHED
<1> DEFINE new == <<op>>
<1>5. new \in Seq(HostOps) /\ Len(new) = 1 /\ new[1] = op /\ code' = code \o new
  <2>1. code \in Seq(HostOps)
    BY DEF IInv, CacheInv, CacheTypes
  <2> QED BY <1>2, <1>4, <2>1
<1> HIDE DEF new
<1>6. Emission(new, 1)
  <2>1. \E f \in Nat : patch_array' = Append(patch_array,
                [at |-> Len(code) + 1, to |-> new[1].to, tb |-> cur_tb, func_addr |-> f])
    BY <1>2, <1>3, <1>4, <1>5 DEF code_ptr
  <2> QED BY <1>2, <1>3, <1>4, <1>5, <2>1 DEF Emission, StraightKinds
<1>7. EmittedBlocks(new, 1)
  BY <1>2, <1>3, <1>4, <1>5, CountedBlocks
<1>8. NewOpsOK
  <2> SUFFICES ASSUME NEW a \in DOMAIN code' \ DOMAIN code PROVE OpOK(a)'
    BY DEF NewOpsOK
  <2>1. code'[a] = op /\ a = Len(code')
    <3>1. PICK i \in 1 .. 1 : a = Len(code) + i /\ code'[a] = new[i]
      BY <1>5, <1>6, NewOp
    <3>2. Len(code') = Len(code) + 1
      BY <1>5, <1>6, NewOp
    <3> QED BY <1>5, <3>1, <3>2
  <2>2. FallsTo(a, pc_ptr)'
    BY <1>2, <2>1 DEF FallsTo, Unfinished
  <2> QED BY <1>3, <1>4, <2>1, <2>2 DEF OpOK, IsInsn, insn, FallsTo, At
<1> QED BY <1>6, <1>7, <1>8, EmissionStep

\* The loop instruction and its jump.
LEMMA EmitLoopStep ==
  ASSUME IInv, ShortBlocks, emit_other_jcond, UNCHANGED <<prog, hostVars, envVars, execVars>>
  PROVE  IInv'
<1>1. PICK new : new = <<OpLoop(pc_ptr), OpJmp(insn.to, insn.to, UNPATCHED)>>
  OBVIOUS
<1>2. /\ Decode({"loop"}) /\ code' = code \o new /\ mode' = "trans_next"
      /\ tbs' = [tbs EXCEPT ![cur_tb].patch_num = @ + 1]
      /\ patch_array' = Append(patch_array, [at |-> code_ptr + 1, to |-> insn.to, tb |-> cur_tb,
                                             func_addr |-> tbs[cur_tb].func_addr])
  BY <1>1 DEF emit_other_jcond, CallTransNext, note_patch
<1>3. /\ mode = "emit" /\ pc_ptr \in DOMAIN prog /\ pc_ptr \in Nat /\ pc_ptr' = pc_ptr + 1 /\ insn.kind \in {"loop"}
      /\ UNCHANGED <<prog, cur_tb, num_insns, code_gen_ptr, stubs, sieve_hashtable, ret_hash_table>>
      /\ insn.to \in Nat /\ tbs[cur_tb].func_addr \in Nat
  BY <1>2, Decodes
<1>4. /\ Len(new) = 2 /\ new[1] = OpLoop(pc_ptr) /\ new[2] = OpJmp(insn.to, insn.to, UNPATCHED)
      /\ \A i \in 1 .. Len(new) : i = 1 \/ i = 2
  BY <1>1
<1>5. /\ new[1] \in HostOps /\ new[1].op = "loop" /\ new[1].pc = pc_ptr
      /\ new[2] \in HostOps /\ new[2].op = "jmp" /\ new[2].pc = insn.to /\ new[2].to = insn.to
  BY <1>3, <1>4 DEF HostOps, PlainOps, JumpOps, OpLoop, OpJmp, UNPATCHED
<1>6. new \in Seq(HostOps)
  BY <1>1, <1>4, <1>5
<1>7. Emission(new, 2)
  <2>1. \E f \in Nat : patch_array' = Append(patch_array,
                [at |-> Len(code) + 2, to |-> new[2].to, tb |-> cur_tb, func_addr |-> f])
    <3>1. code_ptr + 1 = Len(code) + 2
      BY <1>3, AtInsn
    <3> QED BY <1>2, <1>3, <1>5, <3>1
  <2> QED BY <1>2, <1>3, <1>4, <1>5, <1>6, <2>1 DEF Emission, StraightKinds
<1>8. EmittedBlocks(new, 2)
  <2>1. \A i \in 1 .. Len(new) : new[i].op # "ind"
    BY <1>4, <1>5
  <2> QED BY <1>2, <1>3, <2>1, CountedBlocks
<1>9. NewOpsOK
  <2> SUFFICES ASSUME NEW a \in DOMAIN code' \ DOMAIN code PROVE OpOK(a)'
    BY DEF NewOpsOK
  <2>0. Len(new) = 2
    BY <1>4
  <2>1. /\ Len(code') = Len(code) + 2 /\ Len(code) \in Nat
        /\ Len(code) + 2 \in DOMAIN code' /\ code'[Len(code) + 2] = new[2]
    <3>1. \A i \in 1 .. 2 : Len(code) + i \in DOMAIN code' /\ code'[Len(code) + i] = new[i]
      BY <1>7, <2>0, NewOp
    <3>2. Len(code') = Len(code) + 2 /\ Len(code) \in Nat
      BY <1>7, <2>0, NewOp
    <3> QED BY <3>1, <3>2
  <2>2. PICK i \in 1 .. 2 : a = Len(code) + i /\ code'[a] = new[i]
    BY <1>7, <2>0, NewOp, ZenonT(30)
  <2>3. CASE i = 1
    <3>1. a + 1 = Len(code) + 2
      BY <2>1, <2>2, <2>3
    <3>2. FallsTo(a + 1, pc_ptr)'
      BY <1>2, <2>1, <3>1 DEF FallsTo, Unfinished
    <3>3. OpIs(a + 1, "jmp")' /\ code'[a + 1] = new[2]
      BY <1>5, <2>1, <3>1 DEF OpIs
    <3> QED BY <1>3, <1>5, <2>2, <2>3, <3>2, <3>3 DEF OpOK, IsInsn, insn, FallsTo, At, Leads
  <2>4. CASE i = 2
    BY <1>5, <2>2, <2>4 DEF OpOK
  <2> QED BY <2>3, <2>4
<1> QED BY <1>7, <1>8, <1>9, EmissionStep

\* A direct call: the call, the jump to its target and the return site.
LEMMA EmitCallStep ==
  ASSUME IInv, ShortBlocks, emit_call_disp, UNCHANGED <<prog, hostVars, envVars, execVars>>
  PROVE  IInv'
<1>1. PICK new : new = <<OpCall(pc_ptr, pc_ptr + 1, RET_HASH_FUNC(insn.to), code_ptr + 2),
                         OpJmp(insn.to, insn.to, UNPATCHED), OpRcCmp(pc_ptr + 1)>>
  OBVIOUS
<1>2. /\ Decode({"call"}) /\ code' = code \o new /\ mode' = "trans_next"
      /\ tbs' = [tbs EXCEPT ![cur_tb].patch_num = @ + 1]
      /\ patch_array' = Append(patch_array, [at |-> code_ptr + 1, to |-> insn.to, tb |-> cur_tb,
                                             func_addr |-> insn.to])
  BY <1>1 DEF emit_call_disp, CallTransNext, note_patch
<1>3. /\ mode = "emit" /\ pc_ptr \in DOMAIN prog /\ pc_ptr \in Nat /\ pc_ptr' = pc_ptr + 1 /\ insn.kind \in {"call"}
      /\ UNCHANGED <<prog, cur_tb, num_insns, code_gen_ptr, stubs, sieve_hashtable, ret_hash_table>>
      /\ insn.to \in Nat
  BY <1>2, Decodes
<1>4. /\ Len(new) = 3 /\ new[1] = OpCall(pc_ptr, pc_ptr + 1, RET_HASH_FUNC(insn.to), code_ptr + 2)
      /\ new[2] = OpJmp(insn.to, insn.to, UNPATCHED) /\ new[3] = OpRcCmp(pc_ptr + 1)
      /\ \A i \in 1 .. Len(new) : i = 1 \/ i = 2 \/ i = 3
  BY <1>1
<1>5. /\ new[1] \in HostOps /\ new[1].op = "call" /\ new[1].pc = pc_ptr /\ new[1].ret = pc_ptr + 1
      /\ new[1].site = Len(code) + 3
      /\ new[2] \in HostOps /\ new[2].op = "jmp" /\ new[2].pc = insn.to /\ new[2].to = insn.to
      /\ new[3] \in HostOps /\ new[3].op = "rc_cmp" /\ new[3].ret = pc_ptr + 1
  <2>1. RET_HASH_FUNC(insn.to) \in 0 .. RET_CACHE_SIZE - 1
    BY <1>3, RetHash
  <2>2. code_ptr + 2 = Len(code) + 3 /\ code_ptr + 2 \in Nat
    BY <1>3, AtInsn
  <2> QED BY <1>3, <1>4, <2>1, <2>2
          DEF HostOps, CallOps, JumpOps, RcCmpOps, OpCall, OpJmp, OpRcCmp, UNPATCHED
<1>6. new \in Seq(HostOps)
  BY <1>1, <1>4, <1>5
<1>7. Emission(new, 2)
  <2>1. \E f \in Nat : patch_array' = Append(patch_array,
                [at |-> Len(code) + 2, to |-> new[2].to, tb |-> cur_tb, func_addr |-> f])
    <3>1. code_ptr + 1 = Len(code) + 2
      BY <1>3, AtInsn
    <3> QED BY <1>2, <1>3, <1>5, <3>1
  <2> QED BY <1>2, <1>3, <1>4, <1>5, <1>6, <2>1 DEF Emission, StraightKinds
<1>8. EmittedBlocks(new, 2)
  <2>1. \A i \in 1 .. Len(new) : new[i].op # "ind"
    BY <1>4, <1>5
  <2> QED BY <1>2, <1>3, <2>1, CountedBlocks
<1>9. NewOpsOK
  <2> SUFFICES ASSUME NEW a \in DOMAIN code' \ DOMAIN code PROVE OpOK(a)'
    BY DEF NewOpsOK
  <2>0. Len(new) = 3
    BY <1>4
  <2>1. /\ Len(code') = Len(code) + 3 /\ Len(code) \in Nat
        /\ Len(code) + 2 \in DOMAIN code' /\ code'[Len(code) + 2] = new[2]
        /\ Len(code) + 3 \in DOMAIN code' /\ code'[Len(code) + 3] = new[3]
    <3>1. \A i \in 1 .. 3 : Len(code) + i \in DOMAIN code' /\ code'[Len(code) + i] = new[i]
      BY <1>7, <2>0, NewOp
    <3>2. Len(code') = Len(code) + 3 /\ Len(code) \in Nat
      BY <1>7, <2>0, NewOp
    <3> QED BY <3>1, <3>2
  <2>2. PICK i \in 1 .. 3 : a = Len(code) + i /\ code'[a] = new[i]
    BY <1>7, <2>0, NewOp, ZenonT(30)
  <2>3. CASE i = 1
    <3>1. a + 1 = Len(code) + 2 /\ a + 2 = Len(code) + 3
      BY <2>1, <2>2, <2>3
    <3>2. OpIs(a + 1, "jmp")' /\ code'[a + 1] = new[2] /\ OpIs(a + 2, "rc_cmp")'
      BY <1>5, <2>1, <3>1 DEF OpIs
    <3> QED BY <1>3, <1>5, <2>2, <2>3, <3>1, <3>2 DEF OpOK, IsInsn, insn, Leads
  <2>4. CASE i = 2
    BY <1>5, <2>2, <2>4 DEF OpOK
  <2>5. CASE i = 3
    <3>1. FallsTo(a, pc_ptr)'
      BY <1>2, <2>1, <2>2, <2>5 DEF FallsTo, Unfinished
    <3> QED BY <1>3, <1>5, <2>2, <2>5, <3>1 DEF OpOK, FallsTo, At
  <2> QED BY <2>3, <2>4, <2>5
<1> QED BY <1>7, <1>8, <1>9, EmissionStep

\* An indirect call: the call, its comparisons and the return site.
LEMMA EmitICallStep ==
  ASSUME IInv, ShortBlocks, emit_call_near_mem, UNCHANGED <<prog, hostVars, envVars, execVars>>
  PROVE  IInv'
<1>1. PICK new : new = <<OpICall(pc_ptr, pc_ptr + 1, code_ptr + 2),
                         OpInd(cur_tb, IND_TYPE_CALL), OpRcCmp(pc_ptr + 1)>>
  OBVIOUS
<1>2. /\ Decode({"icall"}) /\ code' = code \o new /\ mode' = "trans_next"
      /\ tbs' = [tbs EXCEPT ![cur_tb].ind_addr = code_ptr + 1] /\ UNCHANGED patch_array
  BY <1>1 DEF emit_call_near_mem, CallTransNext
<1>3. /\ mode = "emit" /\ pc_ptr \in DOMAIN prog /\ pc_ptr \in Nat /\ pc_ptr' = pc_ptr + 1 /\ insn.kind \in {"icall"}
      /\ UNCHANGED <<prog, cur_tb, num_insns, code_gen_ptr, stubs, sieve_hashtable, ret_hash_table>>
      /\ cur_tb \in Nat
  BY <1>2, Decodes
<1>4. /\ Len(new) = 3 /\ new[1] = OpICall(pc_ptr, pc_ptr + 1, code_ptr + 2)
      /\ new[2] = OpInd(cur_tb, IND_TYPE_CALL) /\ new[3] = OpRcCmp(pc_ptr + 1)
      /\ \A i \in 1 .. Len(new) : i = 1 \/ i = 2 \/ i = 3
  BY <1>1
<1>5. /\ new[1] \in HostOps /\ new[1].op = "icall" /\ new[1].pc = pc_ptr /\ new[1].ret = pc_ptr + 1
      /\ new[1].site = Len(code) + 3
      /\ new[2] \in HostOps /\ new[2].op = "ind" /\ new[2].tb = cur_tb /\ new[2].slots = <<>>
      /\ new[3] \in HostOps /\ new[3].op = "rc_cmp" /\ new[3].ret = pc_ptr + 1
  <2>1. code_ptr + 2 = Len(code) + 3 /\ code_ptr + 2 \in Nat
    BY <1>3, AtInsn
  <2> QED BY <1>3, <1>4, <2>1
          DEF HostOps, ICallOps, IndOps, RcCmpOps, OpICall, OpInd, OpRcCmp
<1>6. new \in Seq(HostOps)
  BY <1>1, <1>4, <1>5
<1>7. Emission(new, 0)
  BY <1>2, <1>3, <1>4, <1>5, <1>6 DEF Emission, StraightKinds
<1>8. EmittedBlocks(new, 0)
  <2>1. Len(new) \in 2 .. 3 /\ new[1].op # "ind" /\ new[2].tb = cur_tb /\ new[2].slots = <<>>
        /\ (Len(new) = 3 => new[3].op # "ind")
    BY <1>4, <1>5
  <2> QED BY <1>2, <1>3, <2>1, IndBlocks
<1>9. NewOpsOK
  <2> SUFFICES ASSUME NEW a \in DOMAIN code' \ DOMAIN code PROVE OpOK(a)'
    BY DEF NewOpsOK
  <2>0. Len(new) = 3
    BY <1>4
  <2>1. /\ Len(code') = Len(code) + 3 /\ Len(code) \in Nat
        /\ Len(code) + 2 \in DOMAIN code' /\ code'[Len(code) + 2] = new[2]
        /\ Len(code) + 3 \in DOMAIN code' /\ code'[Len(code) + 3] = new[3]
    <3>1. \A i \in 1 .. 3 : Len(code) + i \in DOMAIN code' /\ code'[Len(code) + i] = new[i]
      BY <1>7, <2>0, NewOp
    <3>2. Len(code') = Len(code) + 3 /\ Len(code) \in Nat
      BY <1>7, <2>0, NewOp
    <3> QED BY <3>1, <3>2
  <2>2. PICK i \in 1 .. 3 : a = Len(code) + i /\ code'[a] = new[i]
    BY <1>7, <2>0, NewOp
  <2>3. CASE i = 1
    <3>1. a + 1 = Len(code) + 2 /\ a + 2 = Len(code) + 3
      BY <2>1, <2>2, <2>3
    <3>2. OpIs(a + 1, "ind")' /\ OpIs(a + 2, "rc_cmp")'
      BY <1>5, <2>1, <3>1 DEF OpIs
    <3> QED BY <1>3, <1>5, <2>2, <2>3, <3>1, <3>2 DEF OpOK, IsInsn, insn
  <2>4. CASE i = 2
    BY <1>5, <2>2, <2>4 DEF OpOK
  <2>5. CASE i = 3
    <3>1. FallsTo(a, pc_ptr)'
      BY <1>2, <2>1, <2>2, <2>5 DEF FallsTo, Unfinished
    <3> QED BY <1>3, <1>5, <2>2, <2>5, <3>1 DEF OpOK, FallsTo, At
  <2> QED BY <2>3, <2>4, <2>5
<1> QED BY <1>7, <1>8, <1>9, EmissionStep

\* An indirect jump and its comparisons.
LEMMA EmitIJmpStep ==
  ASSUME IInv, ShortBlocks, emit_jmp_near_mem, UNCHANGED <<prog, hostVars, envVars, execVars>>
  PROVE  IInv'
<1>1. PICK new : new = <<OpIJmp(pc_ptr, tbs[cur_tb].func_addr), OpInd(cur_tb, IND_TYPE_JMP)>>
  OBVIOUS
<1>2. /\ Decode({"ijmp"}) /\ code' = code \o new /\ mode' = "patch"
      /\ tbs' = [tbs EXCEPT ![cur_tb].ind_addr = code_ptr + 1] /\ UNCHANGED patch_array
  BY <1>1 DEF emit_jmp_near_mem, EndOfSuperblock
<1>3. /\ mode = "emit" /\ pc_ptr \in DOMAIN prog /\ pc_ptr \in Nat /\ pc_ptr' = pc_ptr + 1 /\ insn.kind \in {"ijmp"}
      /\ UNCHANGED <<prog, cur_tb, num_insns, code_gen_ptr, stubs, sieve_hashtable, ret_hash_table>>
      /\ cur_tb \in Nat /\ tbs[cur_tb].func_addr \in Nat
  BY <1>2, Decodes
<1>4. /\ Len(new) = 2 /\ new[1] = OpIJmp(pc_ptr, tbs[cur_tb].func_addr)
      /\ new[2] = OpInd(cur_tb, IND_TYPE_JMP) /\ \A i \in 1 .. Len(new) : i = 1 \/ i = 2
  BY <1>1
<1>5. /\ new[1] \in HostOps /\ new[1].op = "ijmp" /\ new[1].pc = pc_ptr
      /\ new[2] \in HostOps /\ new[2].op = "ind" /\ new[2].tb = cur_tb /\ new[2].slots = <<>>
  BY <1>3, <1>4 DEF HostOps, IJmpOps, IndOps, OpIJmp, OpInd
<1>6. new \in Seq(HostOps)
  BY <1>1, <1>4, <1>5
<1>7. Emission(new, 0)
  BY <1>2, <1>3, <1>4, <1>5, <1>6 DEF Emission, StraightKinds
<1>8. EmittedBlocks(new, 0)
  <2>1. Len(new) \in 2 .. 3 /\ new[1].op # "ind" /\ new[2].tb = cur_tb /\ new[2].slots = <<>>
        /\ (Len(new) = 3 => new[3].op # "ind")
    BY <1>4, <1>5
  <2> QED BY <1>2, <1>3, <2>1, IndBlocks
<1>9. NewOpsOK
  <2> SUFFICES ASSUME NEW a \in DOMAIN code' \ DOMAIN code PROVE OpOK(a)'
    BY DEF NewOpsOK
  <2>0. Len(new) = 2
    BY <1>4
  <2>1. /\ Len(code') = Len(code) + 2 /\ Len(code) \in Nat
        /\ Len(code) + 2 \in DOMAIN code' /\ code'[Len(code) + 2] = new[2]
    <3>1. \A i \in 1 .. 2 : Len(code) + i \in DOMAIN code' /\ code'[Len(code) + i] = new[i]
      BY <1>7, <2>0, NewOp
    <3>2. Len(code') = Len(code) + 2 /\ Len(code) \in Nat
      BY <1>7, <2>0, NewOp
    <3> QED BY <3>1, <3>2
  <2>2. PICK i \in 1 .. 2 : a = Len(code) + i /\ code'[a] = new[i]
    BY <1>7, <2>0, NewOp
  <2>3. CASE i = 1
    <3>1. a + 1 = Len(code) + 2
      BY <2>1, <2>2, <2>3
    <3>2. OpIs(a + 1, "ind")'
      BY <1>5, <2>1, <3>1 DEF OpIs
    <3> QED BY <1>3, <1>5, <2>2, <2>3, <3>2 DEF OpOK, IsInsn, insn
  <2>4. CASE i = 2
    BY <1>5, <2>2, <2>4 DEF OpOK
  <2> QED BY <2>3, <2>4
<1> QED BY <1>7, <1>8, <1>9, EmissionStep

\* A step that ends the process and changes nothing else.
LEMMA AbortStep ==
  ASSUME IInv, mode \in {"dispatch", "emit", "trans_next", "patch"}, mode' \in {"faulted", "aborted"},
         mode' = "faulted" => mode = "emit",
         UNCHANGED <<prog, cacheVars, transVars, hostVars, envVars, execVars>>
  PROVE  IInv'
<1> USE DEF IInv, CacheInv, cacheVars, transVars, execVars
<1>1. CacheTypes' /\ OneBlockPerPC'
  BY DEF CacheTypes, OneBlockPerPC
<1>2. KeepsCode /\ KeepsSlots /\ KeepsBlocks /\ KeepsStubs
  BY DEF KeepsCode, KeepsSlots, KeepsBlocks, KeepsStubs
<1>3. OpsOK'
  <2>1. \A a \in DOMAIN code : OpOK(a)'
    BY <1>2, OldOps DEF Unfinished
  <2> QED BY <2>1 DEF OpsOK
<1>4. BlocksOK'
  BY DEF BlocksOK, At, code_ptr
<1>5. OpenBlockOK' /\ AskedOK'
  BY DEF OpenBlockOK, AskedOK, Emitting
<1>6. PatchesOK'
  BY DEF PatchesOK, PatchOK, IsJump, Emitting, Stable
<1>7. JumpsOK'
  BY DEF JumpsOK, IsJump, Resolved, Translated
<1>8. StubsOK'
  BY DEF StubsOK, StubOK, JumpAt, LinkAt, IsJump
<1>9. RingsOK'
  BY ZenonT(30) DEF RingsOK, RingOK, JumpAt, LinkAt, IsJump
<1>10. ExitsOK'
  BY DEF ExitsOK, Unused, Emitting
<1>11. IndsOK' /\ SieveOK'
  BY DEF IndsOK, IndOK, SieveOK, Emitting, At, SIEVE_HASH
<1>12. HostInv'
  BY <1>1, <1>2, HostKept
<1> QED BY <1>1, <1>3, <1>4, <1>5, <1>6, <1>7, <1>8, <1>9, <1>10, <1>11, <1>12

\* The blocks after a jump: one may have been made for the target.
LEMMA JmpBlocks ==
  ASSUME IInv, mode = "emit", NEW new, NEW j, j # 0, \A i \in 1 .. Len(new) : new[i].op # "ind",
         NEW to \in Nat, tb_find_fast(to) = NULL,
         tbs' = [Append(tbs, NewTB(to, to)) EXCEPT ![cur_tb].patch_num = @ + 1]
  PROVE  EmittedBlocks(new, j)
<1>1. tbs \in Seq(TBs) /\ cur_tb \in DOMAIN tbs /\ tbs[cur_tb] \in TBs /\ tbs[cur_tb].patch_num = 0
  BY AtInsn DEF IInv, CacheInv, CacheTypes
<1> DEFINE all == Append(tbs, NewTB(to, to))
<1> DEFINE L == Len(tbs) + 1
<1>2. /\ all \in Seq(TBs) /\ DOMAIN all = DOMAIN tbs \cup {L} /\ L \notin DOMAIN tbs
      /\ all[L] = NewTB(to, to) /\ \A u \in DOMAIN tbs : all[u] = tbs[u]
  BY <1>1, NewBlock, AddBlock
<1> DEFINE r == [tbs[cur_tb] EXCEPT !.patch_num = 1]
<1>3. r \in TBs /\ SameBut(tbs[cur_tb], r, {"patch_num"}) /\ r.patch_num = 1
  BY <1>1, SetPatchNum
<1> HIDE DEF all
<1>4. tbs' = [all EXCEPT ![cur_tb] = r]
  <2>1. tbs' = [all EXCEPT ![cur_tb] = [all[cur_tb] EXCEPT !.patch_num = all[cur_tb].patch_num + 1]]
    BY DEF all
  <2>2. all[cur_tb] = tbs[cur_tb] /\ all[cur_tb].patch_num + 1 = 1
    BY <1>1, <1>2
  <2> QED BY <2>1, <2>2
<1> HIDE DEF r, L
<1>5. /\ tbs' \in Seq(TBs) /\ DOMAIN tbs' = DOMAIN tbs \cup {L} /\ tbs'[cur_tb] = r
      /\ tbs'[L] = NewTB(to, to) /\ \A t \in DOMAIN tbs : t # cur_tb => tbs'[t] = tbs[t]
  <2>1. cur_tb \in DOMAIN all
    BY <1>1, <1>2
  <2>2. /\ tbs' \in Seq(TBs) /\ DOMAIN tbs' = DOMAIN all /\ tbs'[cur_tb] = r
        /\ \A t \in DOMAIN all : t # cur_tb => tbs'[t] = all[t]
    <3>1. all \in Seq(TBs) /\ r \in TBs
      BY <1>2, <1>3
    <3>2. LET ts == [all EXCEPT ![cur_tb] = r]
          IN  /\ ts \in Seq(TBs) /\ DOMAIN ts = DOMAIN all /\ ts[cur_tb] = r
              /\ \A t \in DOMAIN all : t # cur_tb => ts[t] = all[t]
      BY <2>1, <3>1, ReplaceBlock
    <3> QED BY <1>4, <3>2
  <2> QED BY <1>1, <1>2, <2>2
<1>6. /\ r.pc = tbs[cur_tb].pc /\ r.tc_ptr = tbs[cur_tb].tc_ptr
      /\ r.tb_jmp_offset = tbs[cur_tb].tb_jmp_offset /\ r.jmp_from = tbs[cur_tb].jmp_from
      /\ r.jmp_ind_index = tbs[cur_tb].jmp_ind_index
  BY <1>3 DEF SameBut
<1>7. OneBlockPerPC'
  <2>1. \A t \in DOMAIN tbs : tbs'[t].pc = tbs[t].pc /\ tbs[t].pc # to
    BY <1>5, <1>6, FindFast DEF IInv, CacheInv
  <2>2. tbs'[L].pc = to
    BY <1>5, NewBlock
  <2> QED BY <1>5, <2>1, <2>2 DEF OneBlockPerPC, IInv, CacheInv
<1> QED BY <1>3, <1>5, <1>6, <1>7, SMTT(30) DEF EmittedBlocks

\* A direct jump, with or without a copy of the return-cache entry.
LEMMA EmitJmpStep ==
  ASSUME IInv, ShortBlocks, emit_jmp, UNCHANGED <<prog, hostVars, envVars, execVars>>
  PROVE  IInv'
<1> DEFINE to == insn.to
<1> DEFINE func_addr == tbs[cur_tb].func_addr
<1> DEFINE dest == tb_find_fast(to)
<1> DEFINE isNew == dest = NULL /\ (to < func_addr \/ is_function_patten(to))
<1> DEFINE destFunc == IF dest # NULL THEN tbs[dest].func_addr ELSE IF isNew THEN to ELSE 0
<1> DEFINE copies == isNew \/ (destFunc # 0 /\ destFunc # func_addr)
<1> DEFINE copy == OpCopyRc(pc_ptr, RET_HASH_FUNC(func_addr), RET_HASH_FUNC(destFunc))
<1> DEFINE emitted == IF copies THEN <<copy>> ELSE <<>>
<1> DEFINE jmp == OpJmp(pc_ptr, to, UNPATCHED)
<1>1. CASE mode = "emit" /\ tb_flush
  BY <1>1, AbortStep DEF tb_flush
<1>2. CASE ~ (mode = "emit" /\ tb_flush)
  <2>1. /\ Decode({"jmp"})
        /\ code' = code \o emitted \o <<jmp>>
        /\ note_patch(IF isNew THEN Append(tbs, NewTB(to, to)) ELSE tbs, Len(code'), to, cur_tb, func_addr)
        /\ mode' = "patch"
    BY <1>2 DEF emit_jmp, EndOfSuperblock
  <2> HIDE DEF emitted, jmp
  <2>2. /\ mode = "emit" /\ pc_ptr \in DOMAIN prog /\ pc_ptr \in Nat /\ pc_ptr' = pc_ptr + 1 /\ insn.kind \in {"jmp"}
        /\ UNCHANGED <<prog, cur_tb, num_insns, code_gen_ptr, stubs, sieve_hashtable, ret_hash_table>>
        /\ to \in Nat /\ func_addr \in Nat
    BY <2>1, Decodes
  <2>3. /\ jmp \in HostOps /\ jmp.op = "jmp" /\ jmp.pc = pc_ptr /\ jmp.to = to
    BY <2>2 DEF HostOps, JumpOps, OpJmp, UNPATCHED, jmp
  <2>4. destFunc \in Nat
    BY <2>2, FindFast, Domains DEF IInv, CacheInv, TBs
  <2>5. /\ copy \in HostOps /\ copy.op = "copy_rc" /\ copy.pc = pc_ptr
    <3>1. RET_HASH_FUNC(func_addr) \in 0 .. RET_CACHE_SIZE - 1 /\ RET_HASH_FUNC(destFunc) \in 0 .. RET_CACHE_SIZE - 1
      <4> HIDE DEF destFunc, func_addr
      <4> QED BY <2>2, <2>4, RetHash
    <3> HIDE DEF destFunc, func_addr
    <3> QED BY <2>2, <3>1 DEF HostOps, CopyRcOps, OpCopyRc
  <2> HIDE DEF copies, copy
  <2>6. PICK new : new = emitted \o <<jmp>>
    OBVIOUS
  <2>7. /\ new \in Seq(HostOps) /\ emitted \in Seq(HostOps) /\ Len(new) \in 1 .. 2
        /\ new[Len(new)] = jmp /\ (Len(new) = 2 => new[1] = copy)
    <3>1. CASE copies
      <4>1. emitted = <<copy>> /\ <<copy>> \in Seq(HostOps) /\ <<jmp>> \in Seq(HostOps)
        BY <2>3, <2>5, <3>1 DEF emitted
      <4>2. /\ Len(<<copy>>) = 1 /\ Len(<<jmp>>) = 1 /\ <<copy>>[1] = copy /\ <<jmp>>[1] = jmp
        OBVIOUS
      <4>3. /\ new \in Seq(HostOps) /\ Len(new) = 2 /\ new[1] = copy /\ new[2] = jmp
        BY <2>6, <4>1, <4>2, ConcatProperties
      <4> QED BY <4>1, <4>3
    <3>2. CASE ~ copies
      <4>1. new = <<jmp>> /\ emitted = <<>>
        BY <2>6, <3>2 DEF emitted
      <4> QED BY <2>3, <4>1
    <3> QED BY <3>1, <3>2
  <2>8. code' = code \o new
    <3>1. code \in Seq(HostOps)
      BY DEF IInv, CacheInv, CacheTypes
    <3> QED BY <2>1, <2>3, <2>6, <2>7, <3>1, ConcatAssociative
  <2>9. \A i \in 1 .. Len(new) : new[i].op \in {"jcc", "jmp"} <=> i = Len(new)
    BY <2>3, <2>5, <2>7
  <2>10. Len(code') = Len(code) + Len(new) /\ Len(code) \in Nat
    BY <2>2, <2>7, <2>8, Grow, Domains DEF IInv, CacheInv
  <2>11. Emission(new, Len(new))
    <3>1. patch_array' = Append(patch_array,
              [at |-> Len(code) + Len(new), to |-> new[Len(new)].to, tb |-> cur_tb, func_addr |-> func_addr])
      BY <2>1, <2>3, <2>7, <2>10 DEF note_patch
    <3>2. new[1].op \notin {"ind", "rc_cmp"} /\ new[1].pc = pc_ptr
      BY <2>3, <2>5, <2>7
    <3>3. \E f \in Nat : patch_array' = Append(patch_array,
              [at |-> Len(code) + Len(new), to |-> new[Len(new)].to, tb |-> cur_tb, func_addr |-> f])
      BY <2>2, <3>1
    <3>4. Len(new) \in 1 .. 3 /\ Len(new) \in 0 .. Len(new) /\ Len(new) # 0
      BY <2>7
    <3>5. mode' = "patch"
      BY <2>1
    <3> HIDE DEF func_addr, to
    <3> QED BY <2>2, <2>7, <2>8, <2>9, <3>2, <3>3, <3>4, <3>5 DEF Emission
  <2>12. EmittedBlocks(new, Len(new))
    <3>1. \A i \in 1 .. Len(new) : new[i].op # "ind"
      BY <2>3, <2>5, <2>7
    <3>2. Len(new) # 0
      BY <2>7
    <3>3. CASE isNew
      <4>1. tb_find_fast(to) = NULL /\ tbs' = [Append(tbs, NewTB(to, to)) EXCEPT ![cur_tb].patch_num = @ + 1]
        BY <2>1, <3>3 DEF note_patch
      <4>2. PICK q : q = to
        OBVIOUS
      <4> HIDE DEF to
      <4> QED BY <2>2, <3>1, <3>2, <4>1, <4>2, JmpBlocks
    <3>4. CASE ~ isNew
      <4>1. tbs' = [tbs EXCEPT ![cur_tb].patch_num = @ + 1]
        BY <2>1, <3>4 DEF note_patch
      <4> QED BY <2>2, <3>1, <3>2, <4>1, CountedBlocks
    <3> QED BY <3>3, <3>4
  <2>13. NewOpsOK
    <3> SUFFICES ASSUME NEW a \in DOMAIN code' \ DOMAIN code PROVE OpOK(a)'
      BY DEF NewOpsOK
    <3>1. PICK i \in 1 .. Len(new) : a = Len(code) + i /\ code'[a] = new[i]
      BY <2>11, NewOp
    <3>2. CASE i = Len(new)
      <4>1. code'[a] = jmp
        BY <2>7, <3>1, <3>2
      <4> QED BY <2>2, <2>3, <4>1 DEF OpOK, IsInsn, insn
    <3>3. CASE i # Len(new)
      <4>1. Len(new) = 2 /\ i = 1
        BY <2>7, <3>3
      <4>2. code'[a] = copy /\ a + 1 = Len(code) + 2
        BY <2>7, <2>10, <3>1, <4>1
      <4>3. a + 1 \in DOMAIN code' /\ code'[a + 1] = jmp
        <5>1. \A k \in 1 .. Len(new) : Len(code) + k \in DOMAIN code' /\ code'[Len(code) + k] = new[k]
          BY <2>11, NewOp
        <5>2. Len(code) + 2 \in DOMAIN code' /\ code'[Len(code) + 2] = new[2] /\ new[2] = jmp
          BY <2>7, <4>1, <5>1
        <5> QED BY <4>2, <5>2
      <4>4. /\ code'[a].op = "copy_rc" /\ code'[a].pc = pc_ptr
            /\ code'[a + 1].op = "jmp" /\ code'[a + 1].pc = pc_ptr /\ a + 1 \in DOMAIN code'
        BY <2>3, <2>5, <4>2, <4>3
      <4> QED BY <4>4 DEF OpOK, OpIs
    <3> QED BY <3>2, <3>3
  <2> QED BY <2>11, <2>12, <2>13, EmissionStep
<1> QED BY <1>1, <1>2

(***************************************************************************)
(* Opening a block                                                         *)
(***************************************************************************)

\* The blocks with block t, the one for guest pc q, opened at the end of the code.
Opens(t, q) ==
  /\ \/ /\ t \in DOMAIN tbs /\ tbs[t].pc = q /\ tbs[t].tc_ptr = NOT_TRANS_YET
        /\ tbs' = [tbs EXCEPT ![t].tc_ptr = code_ptr]
     \/ /\ t = Len(tbs) + 1 /\ \A u \in DOMAIN tbs : tbs[u].pc # q
        /\ \E f \in Nat : tbs' = [Append(tbs, NewTB(q, f)) EXCEPT ![t].tc_ptr = code_ptr]
  /\ cur_tb' = t /\ pc_ptr' = q
  /\ UNCHANGED <<prog, code, code_gen_ptr, stubs, sieve_hashtable, ret_hash_table, patch_array>>
  /\ UNCHANGED <<hostVars, envVars>> /\ num_insns' \in Nat /\ stb_count' \in Nat

\* What opening a block does to the others.
LEMMA OpenedBlocks ==
  ASSUME IInv, NEW t, NEW q \in Nat, Opens(t, q)
  PROVE  /\ tbs' \in Seq(TBs) /\ t \in DOMAIN tbs' /\ DOMAIN tbs' = DOMAIN tbs \cup {t}
         /\ \A u \in DOMAIN tbs : u # t => tbs'[u] = tbs[u]
         /\ tbs'[t].pc = q /\ tbs'[t].tc_ptr = code_ptr
         /\ t \in DOMAIN tbs => /\ tbs[t].pc = q /\ tbs[t].tc_ptr = NOT_TRANS_YET
                                /\ tbs'[t].patch_num = tbs[t].patch_num
                                /\ tbs'[t].jmp_from = tbs[t].jmp_from
                                /\ tbs'[t].tb_jmp_offset = tbs[t].tb_jmp_offset
                                /\ tbs'[t].jmp_ind_index = tbs[t].jmp_ind_index
         /\ t \notin DOMAIN tbs => /\ tbs'[t].patch_num = 0 /\ tbs'[t].jmp_ind_index = 0
                                   /\ \A i \in 0 .. TB_FROM_MAX - 1 : tbs'[t].jmp_from[i].tb = NULL
                                   /\ \A u \in DOMAIN tbs : tbs[u].pc # q
         /\ code_ptr \in Nat /\ code_ptr = Len(code) + 1 /\ Len(code) \in Nat /\ t \in Nat \ {0}
<1>1. /\ tbs \in Seq(TBs) /\ DOMAIN tbs = 1 .. Len(tbs) /\ Len(tbs) \in Nat
      /\ \A u \in DOMAIN tbs : tbs[u] \in TBs
  BY Domains DEF IInv, CacheInv, CacheTypes
<1>2. code_ptr \in Nat /\ code_ptr = Len(code) + 1 /\ Len(code) \in Nat
  BY Domains DEF IInv, CacheInv, code_ptr
<1>3. CASE /\ t \in DOMAIN tbs /\ tbs[t].pc = q /\ tbs[t].tc_ptr = NOT_TRANS_YET
           /\ tbs' = [tbs EXCEPT ![t].tc_ptr = code_ptr]
  <2> DEFINE r == [tbs[t] EXCEPT !.tc_ptr = code_ptr]
  <2>1. r \in TBs /\ SameBut(tbs[t], r, {"tc_ptr"}) /\ r.tc_ptr = code_ptr
    BY <1>1, <1>2, <1>3, SetTcPtr
  <2>2. tbs' = [tbs EXCEPT ![t] = r]
    BY <1>3
  <2> HIDE DEF r
  <2>3. /\ tbs' \in Seq(TBs) /\ DOMAIN tbs' = DOMAIN tbs /\ tbs'[t] = r
        /\ \A u \in DOMAIN tbs : u # t => tbs'[u] = tbs[u]
    BY <1>1, <1>3, <2>1, <2>2, ReplaceBlock, SMTT(30)
  <2>4. /\ r.pc = q /\ r.patch_num = tbs[t].patch_num /\ r.jmp_from = tbs[t].jmp_from
        /\ r.tb_jmp_offset = tbs[t].tb_jmp_offset /\ r.jmp_ind_index = tbs[t].jmp_ind_index
    BY <1>3, <2>1 DEF SameBut
  <2>5. t \in Nat \ {0}
    BY <1>1, <1>3
  <2> QED BY <1>2, <1>3, <2>1, <2>3, <2>4, <2>5
<1>4. CASE /\ t = Len(tbs) + 1 /\ \A u \in DOMAIN tbs : tbs[u].pc # q
           /\ \E f \in Nat : tbs' = [Append(tbs, NewTB(q, f)) EXCEPT ![t].tc_ptr = code_ptr]
  <2>1. PICK f \in Nat : tbs' = [Append(tbs, NewTB(q, f)) EXCEPT ![t].tc_ptr = code_ptr]
    BY <1>4
  <2> DEFINE all == Append(tbs, NewTB(q, f))
  <2>2. /\ NewTB(q, f) \in TBs /\ NewTB(q, f).pc = q /\ NewTB(q, f).patch_num = 0 /\ NewTB(q, f).jmp_ind_index = 0
        /\ \A i \in 0 .. TB_FROM_MAX - 1 : NewTB(q, f).jmp_from[i].tb = NULL
    BY NewBlock
  <2>3. /\ all \in Seq(TBs) /\ DOMAIN all = DOMAIN tbs \cup {t} /\ t \notin DOMAIN tbs
        /\ all[t] = NewTB(q, f) /\ \A u \in DOMAIN tbs : all[u] = tbs[u]
    BY <1>1, <1>4, <2>2, AddBlock
  <2> DEFINE r == [NewTB(q, f) EXCEPT !.tc_ptr = code_ptr]
  <2>4. r \in TBs /\ SameBut(NewTB(q, f), r, {"tc_ptr"}) /\ r.tc_ptr = code_ptr
    BY <1>2, <2>2, SetTcPtr
  <2>5. tbs' = [all EXCEPT ![t] = r]
    <3>1. tbs' = [all EXCEPT ![t] = [all[t] EXCEPT !.tc_ptr = code_ptr]]
      BY <2>1
    <3> HIDE DEF all
    <3> QED BY <2>3, <3>1
  <2> HIDE DEF r, all
  <2>6. /\ tbs' \in Seq(TBs) /\ DOMAIN tbs' = DOMAIN tbs \cup {t} /\ tbs'[t] = r
        /\ \A u \in DOMAIN tbs : u # t => tbs'[u] = tbs[u]
    <3>1. t \in DOMAIN all
      BY <2>3
    <3>2. LET ts == [all EXCEPT ![t] = r]
          IN  /\ ts \in Seq(TBs) /\ DOMAIN ts = DOMAIN all /\ ts[t] = r
              /\ \A u \in DOMAIN all : u # t => ts[u] = all[u]
      BY <2>3, <2>4, <3>1, ReplaceBlock
    <3> QED BY <2>3, <2>5, <3>2
  <2>7. /\ r.pc = q /\ r.patch_num = 0 /\ r.jmp_ind_index = 0
        /\ \A i \in 0 .. TB_FROM_MAX - 1 : r.jmp_from[i].tb = NULL
    BY <2>2, <2>4 DEF SameBut
  <2>8. t \in Nat \ {0}
    BY <1>1, <1>4
  <2> QED BY <1>2, <1>4, <2>3, <2>4, <2>6, <2>7, <2>8
<1> QED BY <1>3, <1>4 DEF Opens

\* Opening a block, by trans_next or by the dispatcher, keeps the invariant.
LEMMA OpenStep ==
  ASSUME IInv, NEW t, NEW q \in Nat, Opens(t, q),
         \/ mode = "trans_next" /\ mode' = "limit" /\ q = pc_ptr /\ tb' = tb
         \/ mode = "dispatch" /\ mode' \in {"emit", "aborted"} /\ q = eip /\ tb' = t
  PROVE  IInv'
<1>1. /\ tbs' \in Seq(TBs) /\ t \in DOMAIN tbs' /\ DOMAIN tbs' = DOMAIN tbs \cup {t}
      /\ \A u \in DOMAIN tbs : u # t => tbs'[u] = tbs[u]
      /\ tbs'[t].pc = q /\ tbs'[t].tc_ptr = Len(code) + 1
      /\ Len(code) \in Nat /\ t \in Nat \ {0} /\ Len(code) + 1 \in Nat /\ Len(code) + 1 # 0
  <2>1. code_ptr = Len(code) + 1 /\ Len(code) \in Nat
    BY OpenedBlocks
  <2>2. tbs'[t].tc_ptr = code_ptr
    BY OpenedBlocks
  <2>3. Len(code) + 1 \in Nat /\ Len(code) + 1 # 0
    BY <2>1
  <2> QED BY <2>1, <2>2, <2>3, OpenedBlocks
<1>2. t \in DOMAIN tbs => /\ tbs[t].pc = q /\ tbs[t].tc_ptr = NOT_TRANS_YET
                          /\ tbs'[t].patch_num = tbs[t].patch_num
                          /\ tbs'[t].jmp_from = tbs[t].jmp_from
                          /\ tbs'[t].tb_jmp_offset = tbs[t].tb_jmp_offset
                          /\ tbs'[t].jmp_ind_index = tbs[t].jmp_ind_index
  BY OpenedBlocks
<1>3. t \notin DOMAIN tbs => /\ tbs'[t].patch_num = 0 /\ tbs'[t].jmp_ind_index = 0
                             /\ \A i \in 0 .. TB_FROM_MAX - 1 : tbs'[t].jmp_from[i].tb = NULL
                             /\ \A u \in DOMAIN tbs : tbs[u].pc # q
  BY OpenedBlocks
<1> USE DEF IInv, CacheInv
<1>4. /\ cur_tb' = t /\ pc_ptr' = q /\ num_insns' \in Nat /\ stb_count' \in Nat
      /\ UNCHANGED <<prog, code, code_gen_ptr, stubs, sieve_hashtable, ret_hash_table, patch_array>>
      /\ UNCHANGED <<hostVars, envVars>>
  BY DEF Opens
<1>5. DOMAIN tbs = 1 .. Len(tbs) /\ DOMAIN tbs' = 1 .. Len(tbs') /\ Len(tbs) \in Nat /\ Len(tbs') \in Nat
      /\ DOMAIN code = 1 .. Len(code)
  <2>1. tbs' \in Seq(TBs)
    BY <1>1
  <2>2. DOMAIN tbs' = 1 .. Len(tbs') /\ Len(tbs') \in Nat
    BY <2>1, LenProperties
  <2> QED BY <2>2, Domains
<1>6. KeepsCode /\ KeepsSlots /\ KeepsStubs /\ KeepsDests
  BY <1>4 DEF KeepsCode, KeepsSlots, KeepsStubs, KeepsDests
<1>7. KeepsBlocks /\ KeepsTcPtr /\ KeepsOffsets
  <2>1. KeepsBlocks
    BY <1>1, <1>2 DEF KeepsBlocks
  <2>2. KeepsTcPtr
    BY <1>1, <1>2, <1>5 DEF KeepsTcPtr, NOT_TRANS_YET
  <2>3. KeepsOffsets
    BY <1>1, <1>2 DEF KeepsOffsets
  <2> QED BY <2>1, <2>2, <2>3
<1>8. Len(tbs) <= Len(tbs')
  <2>1. CASE Len(tbs) = 0
    BY <1>5, <2>1
  <2>2. CASE Len(tbs) # 0
    BY <1>1, <1>5, <2>2
  <2> QED BY <2>1, <2>2
<1>9. CacheTypes'
  <2>1. t \in 0 .. Len(tbs') /\ tb' \in 0 .. Len(tbs')
    BY <1>1, <1>5, <1>8 DEF CacheTypes
  <2> QED BY <1>1, <1>4, <2>1 DEF CacheTypes
<1>10. OneBlockPerPC'
  <2>1. \A u \in DOMAIN tbs : u # t => tbs[u].pc # q
    BY <1>2, <1>3 DEF OneBlockPerPC
  <2> QED BY <1>1, <2>1 DEF OneBlockPerPC
<1>11. \A u \in DOMAIN tbs : tbs[u].tc_ptr # NOT_TRANS_YET => At(tbs[u].tc_ptr, tbs[u].pc) /\ u # t
  BY <1>2 DEF BlocksOK
<1>12. OpsOK'
  <2>1. \A a \in DOMAIN code : OpOK(a)'
    BY <1>4, <1>6, OldOps DEF Unfinished
  <2> QED BY <1>4, <2>1 DEF OpsOK
<1>13. BlocksOK'
  <2> SUFFICES ASSUME NEW u \in DOMAIN tbs', u # t, tbs'[u].tc_ptr # NOT_TRANS_YET
               PROVE  At(tbs[u].tc_ptr, tbs[u].pc)'
    BY <1>1, <1>4 DEF BlocksOK, code_ptr
  <2> QED BY <1>1, <1>4, <1>11 DEF At
<1>14. OpenBlockOK'
  <2>1. \A x \in q .. q - 1 : FALSE
    OBVIOUS
  <2>2. Len(code) + 1 - (Len(code) + 1) = q - q /\ q >= q
    BY <1>1
  <2> QED BY <1>1, <1>4, <2>1, <2>2 DEF OpenBlockOK, NULL, NOT_TRANS_YET, code_ptr
<1>15. AskedOK'
  <2>1. CASE mode = "trans_next"
    <3>1. /\ tb # NULL /\ tbs[tb].pc = eip /\ tbs[tb].tc_ptr # NOT_TRANS_YET /\ tbs[tb].tc_ptr \in DOMAIN code
          /\ pc_ptr \in DOMAIN prog
      BY <2>1 DEF AskedOK
    <3>2. tb \in DOMAIN tbs /\ tb # t
      BY <1>5, <1>11, <3>1, SMTT(30) DEF CacheTypes, NULL
    <3>3. tbs'[tb] = tbs[tb] /\ tb' = tb /\ mode' = "limit" /\ q = pc_ptr
      BY <1>1, <2>1, <3>2
    <3> QED BY <1>1, <1>4, <3>1, <3>3 DEF AskedOK, NULL, envVars
  <2>2. CASE mode = "dispatch"
    <3>1. tb' = t /\ q = eip /\ mode' \in {"emit", "aborted"}
      BY <2>2
    <3> QED BY <1>1, <1>4, <3>1 DEF AskedOK, NULL, NOT_TRANS_YET, envVars
  <2> QED BY <2>1, <2>2
<1>16. tbs'[t].patch_num = 0
  <2> SUFFICES ASSUME t \in DOMAIN tbs PROVE tbs[t].patch_num = 0
    BY <1>2, <1>3
  <2>1. tbs[t] \in TBs
    BY Domains
  <2>2. tbs[t].patch_num # 1
    <3>1. SUFFICES ASSUME tbs[t].patch_num = 1 PROVE FALSE
      OBVIOUS
    <3>2. PICK i \in DOMAIN patch_array : patch_array[i].tb = t
      BY <3>1 DEF PatchesOK
    <3>3. tbs[t].tc_ptr \in DOMAIN code
      BY <3>2 DEF PatchesOK, PatchOK
    <3> QED BY <1>2, <1>5, <3>3 DEF NOT_TRANS_YET
  <2> QED BY <2>1, <2>2 DEF TBs
<1>17. PatchesOK'
  <2>1. \A i \in DOMAIN patch_array : PatchOK(patch_array[i])'
    <3> SUFFICES ASSUME NEW i \in DOMAIN patch_array PROVE PatchOK(patch_array[i])'
      OBVIOUS
    <3>1. PatchOK(patch_array[i]) /\ patch_array[i].tb \in DOMAIN tbs /\ tbs[patch_array[i].tb].tc_ptr \in DOMAIN code
      BY DEF PatchesOK, PatchOK
    <3>2. patch_array[i].tb # t
      BY <1>2, <1>5, <3>1 DEF NOT_TRANS_YET
    <3>3. tbs'[patch_array[i].tb] = tbs[patch_array[i].tb] /\ patch_array[i].tb \in DOMAIN tbs'
      BY <1>1, <3>1, <3>2
    <3> QED BY <1>4, <3>1, <3>3 DEF PatchOK, IsJump
  <2>2. \A u \in DOMAIN tbs' : tbs'[u].patch_num = 1 => \E i \in DOMAIN patch_array : patch_array[i].tb = u
    BY <1>1, <1>16 DEF PatchesOK
  <2>3. mode = "dispatch" => patch_array = <<>>
    BY DEF PatchesOK, Stable
  <2>4. Len(patch_array) < PATCH_ARRAY_SIZE
    BY DEF PatchesOK
  <2>5. mode' = "limit" => Len(patch_array) < PATCH_ARRAY_SIZE - 1
    BY DEF PatchesOK
  <2>6. mode' = "emit" => Len(patch_array) < PATCH_ARRAY_SIZE - 2
    BY <2>3, SizeAssumption
  <2>7. \A i, j \in DOMAIN patch_array : patch_array[i].tb = patch_array[j].tb => i = j
    BY DEF PatchesOK
  <2> QED BY <1>4, <1>16, <2>1, <2>2, <2>4, <2>5, <2>6, <2>7 DEF PatchesOK, Stable
<1>18. JumpsOK'
  <2> SUFFICES ASSUME NEW a \in DOMAIN code, IsJump(a)
               PROVE  Resolved(a)' \/ \E i \in DOMAIN patch_array' : patch_array'[i].at = a
    BY <1>4 DEF JumpsOK, IsJump
  <2> QED BY <1>4, <1>6, <1>7, ResolvedKept DEF JumpsOK
<1>19. StubsOK'
  BY <1>4, <1>6, <1>7, StubsKept, ZenonT(30) DEF StubsOK, StubOK, JumpAt, LinkAt, IsJump
<1>20. \A u \in DOMAIN tbs' : \A i \in 0 .. TB_FROM_MAX - 1 :
          \/ u \in DOMAIN tbs /\ tbs'[u].jmp_from[i] = tbs[u].jmp_from[i]
          \/ tbs'[u].jmp_from[i].tb = NULL
  BY <1>1, <1>2, <1>3
<1>21. RingsOK'
  <2> SUFFICES ASSUME NEW u \in DOMAIN tbs', NEW i \in 0 .. TB_FROM_MAX - 1, tbs'[u].jmp_from[i].tb # NULL
               PROVE  RingOK(u, tbs[u].jmp_from[i])'
    BY DEF RingsOK, RingOK
  <2>1. u \in DOMAIN tbs /\ tbs'[u].jmp_from[i] = tbs[u].jmp_from[i]
    BY <1>20
  <2>2. \A from : from = tbs[u].jmp_from[i] => RingOK(u, from)'
    BY <1>6, <1>7, <2>1, RingsKept
  <2> QED BY <2>1, <2>2 DEF RingOK, JumpAt, LinkAt, IsJump
<1>22. ASSUME NEW u \in DOMAIN tbs, NEW n, Unused(u, n) PROVE Unused(u, n)'
  <2>1. \A v \in DOMAIN tbs' : \A i \in 0 .. TB_FROM_MAX - 1 :
            \/ v \in DOMAIN tbs /\ tbs'[v].jmp_from[i] = tbs[v].jmp_from[i]
            \/ tbs'[v].jmp_from[i] # [tb |-> u, n |-> n]
    BY <1>5, <1>20 DEF NULL
  <2> QED BY <1>4, <1>7, <1>22, <2>1, UnusedKept
<1>23. \A n \in 0 .. PATCH_MAX - 1 : Unused(t, n)'
  <2>1. CASE t \in DOMAIN tbs
    BY <1>2, <1>22, <2>1 DEF ExitsOK
  <2>2. CASE t \notin DOMAIN tbs
    <3>1. t # NULL
      BY <1>1 DEF NULL
    <3> QED BY <1>4, <1>20, <2>2, <3>1, NewUnused
  <2> QED BY <2>1, <2>2
<1>24. ExitsOK'
  <2>1. \A u \in DOMAIN tbs' : tbs'[u].tc_ptr = NOT_TRANS_YET => \A n \in 0 .. PATCH_MAX - 1 : Unused(u, n)'
    BY <1>1, <1>22 DEF ExitsOK, NOT_TRANS_YET
  <2>2. \A i \in DOMAIN patch_array : Unused(patch_array[i].tb, 0)'
    <3> SUFFICES ASSUME NEW i \in DOMAIN patch_array PROVE Unused(patch_array[i].tb, 0)'
      OBVIOUS
    <3>1. Unused(patch_array[i].tb, 0) /\ patch_array[i].tb \in DOMAIN tbs
      BY DEF ExitsOK, PatchesOK, PatchOK
    <3>2. \A x : x = patch_array[i].tb => Unused(x, 0)'
      BY <1>22, <3>1
    <3> QED BY <1>4, <3>2 DEF Unused
  <2>3. \A n \in 0 .. PATCH_MAX - 1 : Unused(cur_tb, n)'
    BY <1>4, <1>23 DEF Unused
  <2> QED BY <1>4, <2>1, <2>2, <2>3 DEF ExitsOK
<1>25. IndsOK'
  <2>1. ASSUME NEW a \in DOMAIN code, code[a].op = "ind" PROVE IndOK(a)'
    <3>1. IndOK(a) /\ code[a].tb # t
      BY <1>2, <1>5, <2>1 DEF IndsOK, IndOK, NOT_TRANS_YET
    <3>2. code[a].tb \in DOMAIN tbs' /\ tbs'[code[a].tb] = tbs[code[a].tb]
      BY <1>1, <3>1 DEF IndOK
    <3> QED BY <1>4, <3>1, <3>2 DEF IndOK
  <2>2. tbs'[t].jmp_ind_index = 0
    BY <1>2, <1>3 DEF IndsOK
  <2>3. \A u \in DOMAIN tbs' : tbs'[u].tc_ptr = NOT_TRANS_YET => tbs'[u].jmp_ind_index = 0
    BY <1>1, <2>2 DEF IndsOK
  <2> QED BY <1>4, <2>1, <2>2, <2>3 DEF IndsOK
<1>26. SieveOK'
  BY <1>4, <1>6, OldNodes
<1>27. HostInv'
  BY <1>4, <1>6, <1>7, <1>9, HostKept
<1> QED BY <1>9, <1>10, <1>12, <1>13, <1>14, <1>15, <1>17, <1>18, <1>19, <1>21, <1>24, <1>25, <1>26, <1>27

(***************************************************************************)
(* The end of a superblock                                                 *)
(***************************************************************************)

\* The links of trans_next's closing jump to block t, which is translated.
LEMMA CloseLinks ==
  ASSUME IInv, mode = "trans_next", NEW t, t = tb_find_fast(pc_ptr), Translated(t),
         NEW n, n = tbs[cur_tb].patch_num, prog' = prog, stubs' = stubs,
         code' = Append(code, OpJmp(pc_ptr, pc_ptr, tbs[t].tc_ptr)),
         tbs' = tb_add_jmp_from(SetJmpOffset(tbs, cur_tb, n, code_ptr), cur_tb, t, n)
  PROVE  /\ Links(cur_tb, n, t, Len(code) + 1) /\ KeepsCode /\ KeepsSlots
         /\ tbs' \in Seq(TBs) /\ \A u \in DOMAIN tbs : tbs'[u].patch_num = tbs[u].patch_num
         /\ code' \in Seq(HostOps) /\ DOMAIN code' = DOMAIN code \cup {Len(code) + 1}
         /\ Len(code) \in Nat /\ Len(code') = Len(code) + 1 /\ \A a \in DOMAIN code : code'[a] = code[a]
         /\ code'[Len(code) + 1] = OpJmp(pc_ptr, pc_ptr, tbs[t].tc_ptr)
         /\ tbs[t].pc = pc_ptr /\ tbs[t].tc_ptr # NOT_TRANS_YET
<1> DEFINE c == cur_tb
<1> DEFINE o == OpJmp(pc_ptr, pc_ptr, tbs[t].tc_ptr)
<1>1. CacheTypes /\ BlocksOK /\ AskedOK /\ ExitsOK /\ prog' = prog /\ stubs' = stubs
  BY DEF IInv, CacheInv
<1>2. /\ tbs \in Seq(TBs) /\ pc_ptr \in Nat /\ Len(code) \in Nat /\ DOMAIN code = 1 .. Len(code)
      /\ DOMAIN tbs = 1 .. Len(tbs) /\ \A u \in DOMAIN tbs : tbs[u] \in TBs
  BY <1>1, Domains DEF CacheTypes
<1>3. c \in DOMAIN tbs /\ tbs[c] \in TBs /\ n \in {0, 1} /\ n \in 0 .. PATCH_MAX - 1
  <2>1. c \in DOMAIN tbs
    BY <1>1, <1>2 DEF AskedOK, CacheTypes, NULL
  <2>2. tbs[c] \in TBs /\ n \in {0, 1}
    BY <1>2, <2>1 DEF TBs
  <2>3. PATCH_MAX \in Nat /\ PATCH_MAX > 1
    BY SizeAssumption
  <2> QED BY <2>1, <2>2, <2>3
<1>4. t \in DOMAIN tbs /\ tbs[t].pc = pc_ptr /\ tbs[t].tc_ptr # NOT_TRANS_YET /\ t # NULL
  BY <1>1, FindFast DEF Translated
<1>5. tbs[t].tc_ptr \in DOMAIN code
  BY <1>1, <1>4 DEF BlocksOK, At
<1>6. tbs[c].tc_ptr \in DOMAIN code /\ code_ptr - tbs[c].tc_ptr < OffsetRange /\ Unused(c, n)
  BY <1>1 DEF ExitsOK
<1>7. code_ptr - tbs[c].tc_ptr \in 0 .. OffsetRange - 1 /\ code_ptr = Len(code) + 1 /\ code_ptr \in Nat
  <2>1. OffsetRange \in Nat /\ code_ptr = Len(code) + 1
    BY SizeAssumption DEF code_ptr
  <2>2. \A l, r \in Nat : \A x \in 1 .. l : l + 1 - x < r => l + 1 - x \in 0 .. r - 1
    OBVIOUS
  <2>3. tbs[c].tc_ptr \in 1 .. Len(code)
    BY <1>2, <1>6
  <2> HIDE DEF c
  <2> QED BY <1>2, <1>6, <2>1, <2>2, <2>3
<1> DEFINE ts == SetJmpOffset(tbs, c, n, code_ptr)
<1>8. /\ ts \in Seq(TBs) /\ DOMAIN ts = DOMAIN tbs
      /\ \A u \in DOMAIN tbs : SameBut(tbs[u], ts[u], {"tb_jmp_offset"})
      /\ \A u \in DOMAIN tbs : \A k \in 0 .. PATCH_MAX - 1 :
            ts[u].tb_jmp_offset[k] = tbs[u].tb_jmp_offset[k] \/ (u = c /\ k = n)
      /\ ts[c].tb_jmp_offset[n] = code_ptr - tbs[c].tc_ptr
  <2>1. ts = SetJmpOffset(tbs, c, n, code_ptr)
    OBVIOUS
  <2> HIDE DEF c, ts
  <2>2. PICK k \in Nat : k = code_ptr
    BY <1>7
  <2>3. ts = SetJmpOffset(tbs, c, n, k)
    BY <2>1, <2>2
  <2>4. OffsetSet(tbs, ts, c, n, k)
    BY <1>2, <1>3, <2>3, JmpOffset
  <2> QED BY <1>7, <2>2, <2>4 DEF OffsetSet
<1>9. tbs' = tb_add_jmp_from(ts, c, t, n)
  OBVIOUS
<1> HIDE DEF ts
<1>10. /\ tbs' \in Seq(TBs) /\ DOMAIN tbs' = DOMAIN ts
       /\ \A u \in DOMAIN ts : SameBut(ts[u], tbs'[u], {"jmp_from"})
       /\ \A u \in DOMAIN ts : \A i \in 0 .. TB_FROM_MAX - 1 :
             tbs'[u].jmp_from[i] = ts[u].jmp_from[i] \/ (u = t /\ tbs'[u].jmp_from[i] = [tb |-> c, n |-> n])
  <2>1. c \in DOMAIN ts /\ t \in DOMAIN ts
    BY <1>3, <1>4, <1>8
  <2> HIDE DEF c
  <2>2. RingSet(ts, tbs', c, t, n)
    BY <1>3, <1>8, <1>9, <2>1, AddJmpFrom
  <2> QED BY <2>2 DEF RingSet
<1>11. \A u \in DOMAIN tbs : /\ tbs'[u].patch_num = tbs[u].patch_num /\ tbs'[u].tb_jmp_offset = ts[u].tb_jmp_offset
                             /\ SameBut(tbs[u], tbs'[u], {"patch_num", "tb_jmp_offset", "jmp_from"})
                             /\ ts[u].jmp_from = tbs[u].jmp_from
  BY <1>8, <1>10 DEF SameBut
<1>12. o \in HostOps /\ o.op = "jmp" /\ o.to = pc_ptr /\ o.dest = tbs[t].tc_ptr
  BY <1>2, <1>5 DEF OpJmp, HostOps, JumpOps
<1>13. <<o>> \in Seq(HostOps) /\ Len(<<o>>) = 1 /\ <<o>>[1] = o /\ code' = code \o <<o>>
  <2>1. code' = Append(code, o) /\ code \in Seq(HostOps)
    BY <1>1 DEF CacheTypes
  <2> HIDE DEF o
  <2> QED BY <1>12, <2>1
<1>14. /\ code' \in Seq(HostOps) /\ DOMAIN code' = DOMAIN code \cup {Len(code) + 1}
       /\ Len(code') = Len(code) + 1 /\ \A a \in DOMAIN code : code'[a] = code[a]
       /\ code'[Len(code) + 1] = o /\ KeepsCode /\ KeepsSlots
  <2> HIDE DEF o, c
  <2>1. /\ code' \in Seq(HostOps) /\ Len(code') = Len(code) + Len(<<o>>)
        /\ DOMAIN code' = 1 .. Len(code) + Len(<<o>>)
        /\ \A a \in DOMAIN code : code'[a] = code[a]
        /\ \A i \in 1 .. Len(<<o>>) : code'[Len(code) + i] = <<o>>[i]
        /\ KeepsCode /\ KeepsSlots
    BY <1>1, <1>13, Grow
  <2>2. DOMAIN code' = DOMAIN code \cup {Len(code) + 1}
    BY <1>2, <1>13, <2>1
  <2> QED BY <1>13, <2>1, <2>2
<1>15. KeepsOffsets
  BY <1>6, <1>8, <1>11 DEF KeepsOffsets
<1>16. KeepsDests
  BY <1>14 DEF KeepsDests
<1>17. tbs[c].tc_ptr + tbs'[c].tb_jmp_offset[n] = Len(code) + 1
  <2>1. tbs'[c].tb_jmp_offset[n] = code_ptr - tbs[c].tc_ptr /\ tbs[c].tc_ptr \in Nat
    BY <1>3, <1>8, <1>11 DEF TBs
  <2> HIDE DEF c
  <2> QED BY <1>2, <1>7, <2>1
<1> HIDE DEF o
<1>18. Links(c, n, t, Len(code) + 1)
  BY <1>1, <1>3, <1>4, <1>5, <1>6, <1>8, <1>10, <1>11, <1>12, <1>14, <1>15, <1>16, <1>17, SMTT(30) DEF Links
<1> QED BY <1>2, <1>4, <1>10, <1>11, <1>14, <1>18 DEF o

\* trans_next's closing jump keeps the invariant.
LEMMA CloseStep ==
  ASSUME IInv, mode = "trans_next", mode' = "patch", NEW t, t = tb_find_fast(pc_ptr), Translated(t),
         NEW n, n = tbs[cur_tb].patch_num,
         code' = Append(code, OpJmp(pc_ptr, pc_ptr, tbs[t].tc_ptr)),
         tbs' = tb_add_jmp_from(SetJmpOffset(tbs, cur_tb, n, code_ptr), cur_tb, t, n),
         UNCHANGED <<prog, cur_tb, pc_ptr, num_insns, patch_array, code_gen_ptr, stubs,
                     sieve_hashtable, ret_hash_table>>,
         UNCHANGED <<hostVars, envVars, execVars>>
  PROVE  IInv'
<1>1. /\ Links(cur_tb, n, t, Len(code) + 1) /\ KeepsCode /\ KeepsSlots
      /\ tbs' \in Seq(TBs) /\ \A u \in DOMAIN tbs : tbs'[u].patch_num = tbs[u].patch_num
      /\ code' \in Seq(HostOps) /\ DOMAIN code' = DOMAIN code \cup {Len(code) + 1}
      /\ Len(code) \in Nat /\ Len(code') = Len(code) + 1 /\ \A a \in DOMAIN code : code'[a] = code[a]
      /\ code'[Len(code) + 1] = OpJmp(pc_ptr, pc_ptr, tbs[t].tc_ptr)
      /\ tbs[t].pc = pc_ptr /\ tbs[t].tc_ptr # NOT_TRANS_YET
  BY CloseLinks
<1> DEFINE o == OpJmp(pc_ptr, pc_ptr, tbs[t].tc_ptr)
<1>2. o.op = "jmp" /\ o.pc = pc_ptr /\ o.to = pc_ptr /\ o.dest = tbs[t].tc_ptr
  BY DEF OpJmp
<1> HIDE DEF o
<1>3. CacheInv /\ HostInv /\ CacheTypes
  BY DEF IInv, CacheInv
<1>4. /\ cur_tb \in DOMAIN tbs /\ t \in DOMAIN tbs /\ DOMAIN tbs' = DOMAIN tbs
      /\ tbs[cur_tb].tc_ptr \in DOMAIN code /\ tbs[t].tc_ptr \in DOMAIN code
      /\ \A u \in DOMAIN tbs : SameBut(tbs[u], tbs'[u], {"patch_num", "tb_jmp_offset", "jmp_from"})
  BY <1>1 DEF Links
<1>5. \A u \in DOMAIN tbs : tbs'[u].pc = tbs[u].pc /\ tbs'[u].tc_ptr = tbs[u].tc_ptr
  BY <1>4 DEF SameBut
<1>6. OneBlockPerPC'
  BY <1>3, <1>4, <1>5 DEF CacheInv, OneBlockPerPC
<1>7. Relinks
  BY <1>1, <1>2, <1>4, <1>6 DEF Relinks, o
<1>8. /\ KeepsBlocks /\ KeepsTcPtr /\ BlocksOK' /\ OpenBlockOK' /\ IndsOK' /\ SieveOK'
      /\ Len(tbs) <= Len(tbs') /\ Len(tbs') \in Nat
  BY <1>3, <1>7, RelinksStep
<1>9. /\ KeepsStubs /\ StubsOK' /\ RingsOK'
      /\ \A u \in DOMAIN tbs : \A k : (u # cur_tb \/ k # n) /\ Unused(u, k) => Unused(u, k)'
  BY <1>1, <1>3, LinksStep DEF CacheInv
<1>10. CacheTypes'
  <2>1. Len(tbs) \in Nat
    BY <1>3, Domains
  <2>2. cur_tb' \in 0 .. Len(tbs') /\ tb' \in 0 .. Len(tbs')
    BY <1>3, <1>8, <2>1 DEF CacheTypes, execVars
  <2> QED BY <1>1, <1>3, <2>2 DEF CacheTypes, execVars
<1>11. OpsOK'
  <2>1. Len(code) + 1 \in DOMAIN code' /\ code'[Len(code) + 1].pc = pc_ptr /\ code'[Len(code) + 1].op \notin {"ind", "rc_cmp"}
    BY <1>1, <1>2 DEF o
  <2>2. \A a \in DOMAIN code : OpOK(a)'
    BY <1>1, <1>3, <2>1, OldOps DEF CacheInv
  <2>3. ASSUME NEW a \in DOMAIN code' PROVE OpOK(a)'
    <3>1. \A b : b = Len(code) + 1 => OpOK(b)'
      BY <1>1, <1>2 DEF OpOK, o
    <3> QED BY <1>1, <2>2, <3>1
  <2> QED BY <2>3 DEF OpsOK
<1>12. AskedOK'
  <2>1. /\ tb # NULL /\ tbs[tb].pc = eip /\ tbs[tb].tc_ptr # NOT_TRANS_YET /\ tbs[tb].tc_ptr \in DOMAIN code
        /\ cur_tb # NULL
    BY <1>3 DEF CacheInv, AskedOK
  <2>2. tb \in DOMAIN tbs
    BY <1>3, <2>1, Domains DEF CacheTypes, NULL
  <2> QED BY <1>1, <1>5, <2>1, <2>2 DEF AskedOK, execVars, envVars
<1>13. \A i \in DOMAIN patch_array : /\ PatchOK(patch_array[i]) /\ patch_array[i].tb \in DOMAIN tbs
                                     /\ tbs[patch_array[i].tb].patch_num = 1
  BY <1>3 DEF CacheInv, PatchesOK, PatchOK
<1>14. PatchesOK'
  <2>1. \A i \in DOMAIN patch_array : PatchOK(patch_array[i])'
    <3> SUFFICES ASSUME NEW i \in DOMAIN patch_array PROVE PatchOK(patch_array[i])'
      OBVIOUS
    <3> SUFFICES ASSUME NEW p, p = patch_array[i] PROVE PatchOK(p)'
      BY DEF PatchOK, IsJump
    <3>1. /\ p.at \in DOMAIN code /\ code[p.at].op \in {"jcc", "jmp"} /\ code[p.at].to = p.to
          /\ p.tb \in DOMAIN tbs /\ tbs[p.tb].patch_num = 1
          /\ tbs[p.tb].tc_ptr \in DOMAIN code
          /\ p.at - tbs[p.tb].tc_ptr \in 0 .. OffsetRange - 1
      BY <1>13 DEF PatchOK, IsJump
    <3>2. /\ p.at \in DOMAIN code' /\ code'[p.at] = code[p.at] /\ p.tb \in DOMAIN tbs'
          /\ tbs'[p.tb].patch_num = 1 /\ tbs'[p.tb].tc_ptr = tbs[p.tb].tc_ptr
          /\ tbs[p.tb].tc_ptr \in DOMAIN code'
      BY <1>1, <1>4, <1>5, <3>1
    <3> QED BY <3>1, <3>2 DEF PatchOK, IsJump
  <2>2. \A u \in DOMAIN tbs' : tbs'[u].patch_num = 1 => \E i \in DOMAIN patch_array : patch_array[i].tb = u
    BY <1>1, <1>3, <1>4 DEF CacheInv, PatchesOK
  <2> QED BY <1>3, <2>1, <2>2 DEF CacheInv, PatchesOK, Emitting, Stable
<1>15. JumpsOK'
  <2> SUFFICES ASSUME NEW a \in DOMAIN code', IsJump(a)'
               PROVE  Resolved(a)' \/ \E i \in DOMAIN patch_array' : patch_array'[i].at = a
    BY DEF JumpsOK
  <2>1. CASE a \in DOMAIN code
    <3>1. IsJump(a) /\ code'[a] = code[a]
      BY <1>1, <2>1 DEF IsJump
    <3>2. Resolved(a) => Resolved(a)'
      BY <1>1, <1>8, <1>9, <2>1, <3>1, ResolvedKept
    <3> QED BY <1>3, <2>1, <3>1, <3>2 DEF CacheInv, JumpsOK
  <2>2. CASE a = Len(code) + 1
    BY <1>1, <1>2, <1>4, <1>5, <2>2, SMTT(30) DEF Resolved, Translated, o, NULL, NOT_TRANS_YET
  <2> QED BY <1>1, <2>1, <2>2
<1>16. ExitsOK'
  <2>1. \A u \in DOMAIN tbs' : tbs'[u].tc_ptr = NOT_TRANS_YET => \A k \in 0 .. PATCH_MAX - 1 : Unused(u, k)'
    <3> SUFFICES ASSUME NEW u \in DOMAIN tbs, tbs[u].tc_ptr = NOT_TRANS_YET, NEW k \in 0 .. PATCH_MAX - 1
                 PROVE  Unused(u, k)'
      BY <1>4, <1>5
    <3>1. 0 \notin DOMAIN code
      BY <1>3, Domains
    <3>2. u # cur_tb
      BY <1>4, <3>1 DEF NOT_TRANS_YET
    <3>3. Unused(u, k)
      BY <1>3 DEF CacheInv, ExitsOK
    <3> QED BY <1>9, <3>2, <3>3
  <2>2. \A i \in DOMAIN patch_array : Unused(patch_array[i].tb, 0)'
    <3> SUFFICES ASSUME NEW i \in DOMAIN patch_array PROVE Unused(patch_array[i].tb, 0)'
      OBVIOUS
    <3>1. Unused(patch_array[i].tb, 0) /\ (patch_array[i].tb # cur_tb \/ 0 # n)
      BY <1>3, <1>13 DEF CacheInv, ExitsOK
    <3>2. \A x : x = patch_array[i].tb => Unused(x, 0)'
      BY <1>9, <1>13, <3>1
    <3> QED BY <3>2 DEF Unused
  <2> QED BY <2>1, <2>2 DEF ExitsOK, Emitting
<1>17. HostInv'
  BY <1>1, <1>3, <1>8, <1>9, <1>10, HostKept
<1> QED BY <1>6, <1>8, <1>9, <1>10, <1>11, <1>12, <1>14, <1>15, <1>16, <1>17 DEF IInv, CacheInv

\* At a limit, the block being emitted counts the closing jump; if it has no code
\* it loses its address.
LEMMA LimitBlocks ==
  ASSUME IInv, ShortBlocks, mode = "limit",
         tbs' = [CloseEmptyBlock EXCEPT ![cur_tb].patch_num = @ + 1]
  PROVE  /\ tbs' \in Seq(TBs) /\ cur_tb \in DOMAIN tbs /\ DOMAIN tbs' = DOMAIN tbs
         /\ \A u \in DOMAIN tbs : u # cur_tb => tbs'[u] = tbs[u]
         /\ SameBut(tbs[cur_tb], tbs'[cur_tb], {"patch_num", "tc_ptr"})
         /\ tbs'[cur_tb].patch_num = 1 /\ tbs[cur_tb].patch_num = 0
         /\ \/ /\ tbs'[cur_tb].tc_ptr = tbs[cur_tb].tc_ptr /\ tbs[cur_tb].tc_ptr \in DOMAIN code
               /\ (Len(code) + 1) - tbs[cur_tb].tc_ptr \in 0 .. OffsetRange - 1
            \/ /\ tbs'[cur_tb].tc_ptr = NOT_TRANS_YET /\ tbs[cur_tb].tc_ptr = Len(code) + 1
               /\ tbs[cur_tb].pc = pc_ptr
<1> DEFINE c == cur_tb
<1> DEFINE b == tbs[c]
<1>1. /\ tbs \in Seq(TBs) /\ BlocksOK /\ c \in DOMAIN tbs /\ b \in TBs /\ b.patch_num = 0 /\ b.tc_ptr # NOT_TRANS_YET
      /\ code_ptr = Len(code) + 1 /\ Len(code) \in Nat /\ pc_ptr \in Nat
      /\ code_ptr - b.tc_ptr = pc_ptr - b.pc
  BY OpenBlock DEF Emitting, IInv, CacheInv, CacheTypes
<1>2. b.pc \in Nat /\ b.tc_ptr \in Nat
  BY <1>1 DEF TBs
<1>3. CASE b.tc_ptr = code_ptr
  <2> DEFINE q == [b EXCEPT !.tc_ptr = NOT_TRANS_YET]
  <2> DEFINE ts == [tbs EXCEPT ![c] = q]
  <2>1. q \in TBs /\ SameBut(b, q, {"tc_ptr"}) /\ q.tc_ptr = NOT_TRANS_YET
    BY <1>1, SetTcPtr DEF NOT_TRANS_YET
  <2>2. tbs' = [ts EXCEPT ![c].patch_num = ts[c].patch_num + 1]
    BY <1>1, <1>3 DEF CloseEmptyBlock
  <2> HIDE DEF q
  <2>3. ts \in Seq(TBs) /\ DOMAIN ts = DOMAIN tbs /\ ts[c] = q /\ \A u \in DOMAIN tbs : u # c => ts[u] = tbs[u]
    <3>1. ts = [tbs EXCEPT ![c] = q]
      OBVIOUS
    <3> HIDE DEF c, ts
    <3> QED BY <1>1, <2>1, <3>1, ReplaceBlock
  <2> HIDE DEF ts, c
  <2>4. q.patch_num = 0
    BY <1>1, <2>1 DEF SameBut
  <2>5. PICK v : v = ts[c].patch_num + 1
    OBVIOUS
  <2>6. CountSet(ts, tbs', c, 1)
    <3>1. v = 1 /\ v \in {0, 1}
      BY <2>3, <2>4, <2>5
    <3>2. tbs' = [ts EXCEPT ![c].patch_num = v]
      BY <2>2, <2>5
    <3>3. CountSet(ts, tbs', c, v)
      BY <1>1, <2>3, <3>1, <3>2, SetCount
    <3> QED BY <3>1, <3>3
  <2>7. SameBut(b, tbs'[c], {"patch_num", "tc_ptr"}) /\ tbs'[c].tc_ptr = NOT_TRANS_YET
    BY <2>1, <2>3, <2>6 DEF SameBut, CountSet
  <2>8. b.pc = pc_ptr
    <3> HIDE DEF b
    <3> QED BY <1>1, <1>2, <1>3
  <2>9. /\ tbs' \in Seq(TBs) /\ DOMAIN tbs' = DOMAIN tbs /\ tbs'[c].patch_num = 1
        /\ \A u \in DOMAIN tbs : u # c => tbs'[u] = tbs[u]
    BY <2>3, <2>6 DEF CountSet
  <2> QED BY <1>1, <1>3, <2>7, <2>8, <2>9 DEF c
<1>4. CASE b.tc_ptr # code_ptr
  <2>1. tbs' = [tbs EXCEPT ![c].patch_num = tbs[c].patch_num + 1]
    BY <1>4 DEF CloseEmptyBlock
  <2>2. PICK v : v = tbs[c].patch_num + 1
    OBVIOUS
  <2>3. CountSet(tbs, tbs', c, 1)
    <3>1. v = 1 /\ v \in {0, 1}
      BY <1>1, <2>2
    <3>2. tbs' = [tbs EXCEPT ![c].patch_num = v]
      BY <2>1, <2>2
    <3> HIDE DEF c
    <3>3. CountSet(tbs, tbs', c, v)
      BY <1>1, <3>1, <3>2, SetCount
    <3> QED BY <3>1, <3>3
  <2>4. b.tc_ptr \in DOMAIN code
    BY <1>1, <1>4 DEF BlocksOK, At
  <2>5. tbs'[c].tc_ptr = b.tc_ptr /\ SameBut(b, tbs'[c], {"patch_num", "tc_ptr"})
    BY <2>3 DEF SameBut, CountSet
  <2>6. (Len(code) + 1) - b.tc_ptr \in 0 .. OffsetRange - 1
    <3>1. mode = "limit" /\ pc_ptr \in DOMAIN prog
      BY DEF IInv, CacheInv, AskedOK
    <3>2. code_ptr + 3 - b.tc_ptr \in 0 .. OffsetRange - 1
      BY <3>1, OpenBlockIsShort DEF Emitting
    <3>3. DOMAIN code = 1 .. Len(code) /\ OffsetRange \in Nat
      BY Domains, SizeAssumption DEF IInv, CacheInv
    <3>4. b.tc_ptr \in 1 .. Len(code)
      BY <2>4, <3>3
    <3>5. \A l, o \in Nat : \A x \in 1 .. l : (l + 1) + 3 - x \in 0 .. o - 1 => (l + 1) - x \in 0 .. o - 1
      OBVIOUS
    <3> HIDE DEF b
    <3> QED BY <1>1, <3>2, <3>3, <3>4, <3>5
  <2> QED BY <1>1, <2>3, <2>4, <2>5, <2>6 DEF CountSet
<1> QED BY <1>3, <1>4

\* The loop of gen_target_code goes on with the next instruction.
LEMMA ContinueStep ==
  ASSUME IInv, mode = "limit", mode' = "emit", ~ LimitReached, num_insns' = num_insns + 1,
         UNCHANGED <<prog, cacheVars, cur_tb, pc_ptr, patch_array, hostVars, envVars, execVars>>
  PROVE  IInv'
<1> USE DEF IInv, CacheInv, cacheVars, execVars
<1>1. CacheTypes' /\ OneBlockPerPC'
  BY DEF CacheTypes, OneBlockPerPC
<1>2. KeepsCode /\ KeepsSlots /\ KeepsBlocks /\ KeepsStubs
  BY DEF KeepsCode, KeepsSlots, KeepsBlocks, KeepsStubs
<1>3. OpsOK'
  <2>1. \A a \in DOMAIN code : OpOK(a)'
    BY <1>2, OldOps DEF Unfinished
  <2> QED BY <2>1 DEF OpsOK
<1>4. BlocksOK'
  BY DEF BlocksOK, At, code_ptr
<1>5. OpenBlockOK' /\ AskedOK'
  BY DEF OpenBlockOK, AskedOK, Emitting, IsInsn, code_ptr, envVars
<1>6. PatchesOK'
  <2>1. Len(patch_array) \in Nat /\ PATCH_ARRAY_SIZE \in Nat
    BY Domains, SizeAssumption
  <2>2. Len(patch_array) < PATCH_ARRAY_SIZE - 2
    BY <2>1 DEF LimitReached
  <2>3. \A i \in DOMAIN patch_array : PatchOK(patch_array[i])'
    BY DEF PatchesOK, PatchOK, IsJump
  <2> QED BY <2>1, <2>2, <2>3 DEF PatchesOK, Emitting, Stable
<1>7. JumpsOK'
  BY DEF JumpsOK, IsJump, Resolved, Translated
<1>8. StubsOK'
  BY DEF StubsOK, StubOK, JumpAt, LinkAt, IsJump
<1>9. RingsOK'
  BY ZenonT(30) DEF RingsOK, RingOK, JumpAt, LinkAt, IsJump
<1>10. ExitsOK'
  BY DEF ExitsOK, Unused, Emitting
<1>11. IndsOK'
  BY DEF IndsOK, IndOK, Emitting
<1>12. SieveOK'
  BY <1>2, OldNodes
<1>13. HostInv'
  BY <1>1, <1>2, HostKept
<1> QED BY <1>1, <1>3, <1>4, <1>5, <1>6, <1>7, <1>8, <1>9, <1>10, <1>11, <1>12, <1>13

\* A superblock that reaches a limit is closed by a jump to the next pc.
LEMMA LimitStep ==
  ASSUME IInv, ShortBlocks, mode = "limit", mode' = "patch",
         note_patch(CloseEmptyBlock, code_ptr, pc_ptr, cur_tb, tbs[cur_tb].func_addr),
         code' = Append(code, OpJmp(pc_ptr, pc_ptr, UNPATCHED)),
         UNCHANGED <<prog, cur_tb, pc_ptr, num_insns, code_gen_ptr, stubs, sieve_hashtable,
                     ret_hash_table>>,
         UNCHANGED <<hostVars, envVars, execVars>>
  PROVE  IInv'
<1> DEFINE o == OpJmp(pc_ptr, pc_ptr, UNPATCHED)
<1> DEFINE e == [at |-> Len(code) + 1, to |-> pc_ptr, tb |-> cur_tb, func_addr |-> tbs[cur_tb].func_addr]
<1> DEFINE L == Len(patch_array)
<1>1. /\ tbs' = [CloseEmptyBlock EXCEPT ![cur_tb].patch_num = @ + 1]
      /\ patch_array' = Append(patch_array, e)
  BY DEF note_patch, code_ptr
<1>2. /\ tbs' \in Seq(TBs) /\ cur_tb \in DOMAIN tbs /\ DOMAIN tbs' = DOMAIN tbs
      /\ \A u \in DOMAIN tbs : u # cur_tb => tbs'[u] = tbs[u]
      /\ SameBut(tbs[cur_tb], tbs'[cur_tb], {"patch_num", "tc_ptr"})
      /\ tbs'[cur_tb].patch_num = 1 /\ tbs[cur_tb].patch_num = 0
  BY <1>1, LimitBlocks
<1>3. \/ /\ tbs'[cur_tb].tc_ptr = tbs[cur_tb].tc_ptr /\ tbs[cur_tb].tc_ptr \in DOMAIN code
         /\ (Len(code) + 1) - tbs[cur_tb].tc_ptr \in 0 .. OffsetRange - 1
      \/ /\ tbs'[cur_tb].tc_ptr = NOT_TRANS_YET /\ tbs[cur_tb].tc_ptr = Len(code) + 1
         /\ tbs[cur_tb].pc = pc_ptr
  BY <1>1, LimitBlocks
<1>4. CacheInv /\ HostInv /\ CacheTypes
  BY DEF IInv, CacheInv
<1>5. /\ DOMAIN code = 1 .. Len(code) /\ Len(code) \in Nat /\ pc_ptr \in Nat /\ cur_tb \in Nat
      /\ DOMAIN patch_array = 1 .. L /\ L \in Nat /\ patch_array \in Seq(Patches)
      /\ DOMAIN tbs = 1 .. Len(tbs) /\ Len(tbs) \in Nat /\ tbs[cur_tb] \in TBs
  BY <1>2, <1>4, Domains DEF CacheTypes
<1>6. o \in HostOps /\ o.op = "jmp" /\ o.pc = pc_ptr /\ o.to = pc_ptr
  BY <1>5 DEF OpJmp, HostOps, JumpOps, UNPATCHED
<1>7. e \in Patches /\ e.at = Len(code) + 1 /\ e.to = pc_ptr /\ e.tb = cur_tb
  <2>1. tbs[cur_tb].func_addr \in Nat /\ Len(code) + 1 \in Nat
    BY <1>5 DEF TBs
  <2> QED BY <1>5, <2>1 DEF Patches
<1>8. <<o>> \in Seq(HostOps) /\ Len(<<o>>) = 1 /\ <<o>>[1] = o /\ code' = code \o <<o>>
  <2>1. code' = Append(code, o) /\ code \in Seq(HostOps)
    BY <1>4 DEF CacheTypes
  <2> HIDE DEF o, e
  <2> QED BY <1>6, <2>1
<1> HIDE DEF o, e
<1>9. /\ code' \in Seq(HostOps) /\ DOMAIN code' = DOMAIN code \cup {Len(code) + 1}
      /\ \A a \in DOMAIN code : code'[a] = code[a]
      /\ code'[Len(code) + 1] = o /\ KeepsCode /\ KeepsSlots
  <2>1. /\ code' \in Seq(HostOps) /\ Len(code') = Len(code) + Len(<<o>>)
        /\ DOMAIN code' = 1 .. Len(code) + Len(<<o>>)
        /\ \A a \in DOMAIN code : code'[a] = code[a]
        /\ \A i \in 1 .. Len(<<o>>) : code'[Len(code) + i] = <<o>>[i]
        /\ KeepsCode /\ KeepsSlots
    BY <1>4, <1>8, Grow
  <2>2. DOMAIN code' = DOMAIN code \cup {Len(code) + 1}
    BY <1>5, <1>8, <2>1
  <2> QED BY <1>8, <2>1, <2>2
<1>10. /\ patch_array' \in Seq(Patches) /\ DOMAIN patch_array' = 1 .. L + 1 /\ Len(patch_array') = L + 1
       /\ patch_array'[L + 1] = e /\ \A i \in 1 .. L : patch_array'[i] = patch_array[i]
  BY <1>1, <1>5, <1>7, AppendProperties
<1> HIDE DEF L
<1>11. \A u \in DOMAIN tbs : /\ tbs'[u].pc = tbs[u].pc /\ tbs'[u].jmp_from = tbs[u].jmp_from
                             /\ tbs'[u].tb_jmp_offset = tbs[u].tb_jmp_offset /\ tbs'[u].ind_addr = tbs[u].ind_addr
                             /\ tbs'[u].jmp_ind_index = tbs[u].jmp_ind_index
  BY <1>2 DEF SameBut
<1>12. \A u \in DOMAIN tbs : tbs[u].tc_ptr \in DOMAIN code => tbs'[u].tc_ptr = tbs[u].tc_ptr
  <2>1. Len(code) + 1 \notin DOMAIN code
    BY <1>5
  <2> QED BY <1>2, <1>3, <2>1
<1>13. /\ KeepsBlocks /\ KeepsTcPtr /\ KeepsOffsets /\ KeepsDests /\ KeepsStubs
  BY <1>2, <1>9, <1>11, <1>12 DEF KeepsBlocks, KeepsTcPtr, KeepsOffsets, KeepsDests, KeepsStubs
<1>14. CacheTypes'
  <2>1. Len(tbs') = Len(tbs)
    <3>1. DOMAIN tbs' = 1 .. Len(tbs') /\ Len(tbs') \in Nat
      BY <1>2, LenProperties
    <3>2. Len(tbs) \in 1 .. Len(tbs') /\ Len(tbs') \in 1 .. Len(tbs)
      BY <1>2, <1>5, <3>1
    <3>3. \A m, k \in Nat : m \in 1 .. k /\ k \in 1 .. m => k = m
      OBVIOUS
    <3>4. Len(tbs) \in Nat
      BY <1>5
    <3> QED BY <3>1, <3>2, <3>3, <3>4
  <2> QED BY <1>2, <1>4, <1>9, <1>10, <2>1 DEF CacheTypes, execVars
<1>15. OneBlockPerPC'
  BY <1>2, <1>4, <1>11 DEF CacheInv, OneBlockPerPC
<1>16. OpsOK'
  <2>1. Len(code) + 1 \in DOMAIN code' /\ code'[Len(code) + 1].pc = pc_ptr /\ code'[Len(code) + 1].op \notin {"ind", "rc_cmp"}
    BY <1>6, <1>9
  <2>2. \A a \in DOMAIN code : OpOK(a)'
    BY <1>4, <1>9, <2>1, OldOps DEF CacheInv
  <2>3. ASSUME NEW a \in DOMAIN code' PROVE OpOK(a)'
    <3>1. \A b : b = Len(code) + 1 => OpOK(b)'
      BY <1>6, <1>9 DEF OpOK
    <3> QED BY <1>9, <2>2, <3>1
  <2> QED BY <2>3 DEF OpsOK
<1>17. BlocksOK'
  <2> SUFFICES ASSUME NEW t \in DOMAIN tbs', tbs'[t].tc_ptr # NOT_TRANS_YET
               PROVE  At(tbs[t].tc_ptr, tbs[t].pc)'
    BY DEF BlocksOK
  <2>1. tbs[t].tc_ptr # Len(code) + 1 \/ t # cur_tb
    BY <1>3, <1>5
  <2>2. tbs'[t].tc_ptr = tbs[t].tc_ptr
    BY <1>2, <1>3
  <2>3. At(tbs[t].tc_ptr, tbs[t].pc)
    BY <1>2, <1>4, <2>1, <2>2 DEF CacheInv, BlocksOK, code_ptr
  <2>4. \A a, q : At(a, q) => At(a, q)'
    BY <1>9, Persists
  <2> QED BY <1>2, <1>11, <2>2, <2>3, <2>4 DEF At
<1>18. OpenBlockOK' /\ AskedOK'
  <2>1. /\ tb # NULL /\ tbs[tb].pc = eip /\ tbs[tb].tc_ptr # NOT_TRANS_YET /\ tbs[tb].tc_ptr \in DOMAIN code
        /\ cur_tb # NULL
    BY <1>4 DEF CacheInv, AskedOK
  <2>2. tb \in DOMAIN tbs
    BY <1>4, <1>5, <2>1 DEF CacheTypes, NULL
  <2> QED BY <1>9, <1>11, <1>12, <2>1, <2>2 DEF OpenBlockOK, Emitting, AskedOK, execVars, envVars
<1>19. ASSUME NEW i \in 1 .. L PROVE /\ patch_array[i].tb \in DOMAIN tbs /\ patch_array[i].tb # cur_tb
                                     /\ \A p : p = patch_array[i] => PatchOK(p)'
  <2> SUFFICES ASSUME NEW p, p = patch_array[i] PROVE p.tb \in DOMAIN tbs /\ p.tb # cur_tb /\ PatchOK(p)'
    OBVIOUS
  <2>1. /\ p.at \in DOMAIN code /\ code[p.at].op \in {"jcc", "jmp"} /\ code[p.at].to = p.to
        /\ p.tb \in DOMAIN tbs /\ tbs[p.tb].patch_num = 1
        /\ tbs[p.tb].tc_ptr \in DOMAIN code
        /\ p.at - tbs[p.tb].tc_ptr \in 0 .. OffsetRange - 1
    BY <1>4, <1>5 DEF CacheInv, PatchesOK, PatchOK, IsJump, L
  <2>2. p.tb # cur_tb
    BY <1>2, <2>1
  <2>3. /\ p.at \in DOMAIN code' /\ code'[p.at] = code[p.at] /\ p.tb \in DOMAIN tbs'
        /\ tbs'[p.tb].patch_num = 1 /\ tbs'[p.tb].tc_ptr = tbs[p.tb].tc_ptr
        /\ tbs[p.tb].tc_ptr \in DOMAIN code'
    BY <1>2, <1>9, <2>1, <2>2
  <2> QED BY <2>1, <2>2, <2>3 DEF PatchOK, IsJump
<1>20. ASSUME NEW p, p = e PROVE PatchOK(p)'
  <2>1. p.at = Len(code) + 1 /\ p.to = pc_ptr /\ p.tb = cur_tb
    BY <1>7, <1>20
  <2>2. p.at \in DOMAIN code' /\ code'[p.at].op = "jmp" /\ code'[p.at].to = p.to /\ p.tb \in DOMAIN tbs' /\ tbs'[p.tb].patch_num = 1
    BY <1>2, <1>6, <1>9, <2>1
  <2>3. \/ tbs'[p.tb].tc_ptr \in DOMAIN code' /\ p.at - tbs'[p.tb].tc_ptr \in 0 .. OffsetRange - 1
        \/ tbs'[p.tb].tc_ptr = NOT_TRANS_YET /\ tbs'[p.tb].pc = p.to
    <3>1. CASE /\ tbs'[cur_tb].tc_ptr = tbs[cur_tb].tc_ptr /\ tbs[cur_tb].tc_ptr \in DOMAIN code
               /\ (Len(code) + 1) - tbs[cur_tb].tc_ptr \in 0 .. OffsetRange - 1
      BY <1>9, <2>1, <3>1
    <3>2. CASE /\ tbs'[cur_tb].tc_ptr = NOT_TRANS_YET /\ tbs[cur_tb].pc = pc_ptr
      BY <1>2, <1>11, <2>1, <3>2
    <3> QED BY <1>3, <3>1, <3>2
  <2> QED BY <2>2, <2>3 DEF PatchOK, IsJump
<1>21. PatchesOK'
  <2>1. \A i \in 1 .. L + 1 : i = L + 1 \/ i \in 1 .. L
    BY <1>5 DEF L
  <2>2. \A i \in 1 .. L + 1 : PatchOK(patch_array[i])'
    <3> SUFFICES ASSUME NEW i \in 1 .. L + 1 PROVE PatchOK(patch_array[i])'
      OBVIOUS
    <3>1. \A p : p = patch_array'[i] => PatchOK(p)'
      <4>1. CASE i = L + 1
        BY <1>10, <1>20, <4>1
      <4>2. CASE i \in 1 .. L
        BY <1>10, <1>19, <4>2
      <4> QED BY <2>1, <4>1, <4>2
    <3> QED BY <3>1 DEF PatchOK, IsJump
  <2>3. \A i, k \in 1 .. L + 1 : patch_array'[i].tb = patch_array'[k].tb => i = k
    <3>1. \A i, k \in 1 .. L : patch_array[i].tb = patch_array[k].tb => i = k
      BY <1>4, <1>5 DEF CacheInv, PatchesOK, L
    <3> QED BY <1>7, <1>10, <1>19, <2>1, <3>1
  <2>4. \A t \in DOMAIN tbs' : tbs'[t].patch_num = 1 => \E i \in 1 .. L + 1 : patch_array'[i].tb = t
    <3> SUFFICES ASSUME NEW t \in DOMAIN tbs, tbs'[t].patch_num = 1
                 PROVE  \E i \in 1 .. L + 1 : patch_array'[i].tb = t
      BY <1>2
    <3>1. CASE t = cur_tb
      <4>1. L + 1 \in 1 .. L + 1
        BY <1>5 DEF L
      <4> QED BY <1>7, <1>10, <3>1, <4>1
    <3>2. CASE t # cur_tb
      <4>1. PICK i \in 1 .. L : patch_array[i].tb = t
        BY <1>2, <1>4, <1>5, <3>2 DEF CacheInv, PatchesOK, L
      <4>2. i \in 1 .. L + 1
        BY <1>5 DEF L
      <4> QED BY <1>10, <4>1, <4>2
    <3> QED BY <3>1, <3>2
  <2>5. L + 1 < PATCH_ARRAY_SIZE
    <3>1. PATCH_ARRAY_SIZE \in Nat /\ L < PATCH_ARRAY_SIZE - 1 /\ L \in Nat
      BY <1>4, <1>5, SizeAssumption DEF CacheInv, PatchesOK, L
    <3> QED BY <3>1
  <2> QED BY <1>10, <2>2, <2>3, <2>4, <2>5 DEF PatchesOK, Emitting, Stable
<1>22. JumpsOK'
  <2> SUFFICES ASSUME NEW a \in DOMAIN code', IsJump(a)'
               PROVE  Resolved(a)' \/ \E i \in DOMAIN patch_array' : patch_array'[i].at = a
    BY DEF JumpsOK
  <2>1. CASE a \in DOMAIN code
    <3>1. IsJump(a) /\ code'[a] = code[a]
      BY <1>9, <2>1 DEF IsJump
    <3>2. Resolved(a) => Resolved(a)'
      BY <1>9, <1>13, <2>1, <3>1, ResolvedKept
    <3>3. Resolved(a) \/ \E i \in 1 .. L : patch_array[i].at = a
      BY <1>4, <1>5, <2>1, <3>1 DEF CacheInv, JumpsOK, L
    <3>4. \A i \in 1 .. L : i \in 1 .. L + 1
      BY <1>5 DEF L
    <3> QED BY <1>10, <3>2, <3>3, <3>4
  <2>2. CASE a = Len(code) + 1
    <3>1. L + 1 \in 1 .. L + 1
      BY <1>5 DEF L
    <3> QED BY <1>7, <1>10, <2>2, <3>1
  <2> QED BY <1>9, <2>1, <2>2
<1>23. StubsOK' /\ RingsOK'
  <2>1. \A k \in DOMAIN stubs : \A s : s = stubs[k] => StubOK(s)'
    BY <1>4, <1>9, <1>13, StubsKept DEF CacheInv
  <2>2. \A u \in DOMAIN tbs : \A i \in 0 .. TB_FROM_MAX - 1 : \A from : from = tbs[u].jmp_from[i] => RingOK(u, from)'
    BY <1>4, <1>9, <1>13, RingsKept DEF CacheInv
  <2>3. StubsOK'
    BY <2>1 DEF StubsOK, StubOK, JumpAt, LinkAt, IsJump
  <2>4. RingsOK'
    <3> SUFFICES ASSUME NEW u \in DOMAIN tbs, NEW i \in 0 .. TB_FROM_MAX - 1
                 PROVE  RingOK(u, tbs[u].jmp_from[i])'
      BY <1>2 DEF RingsOK
    <3>1. \A from : from = tbs'[u].jmp_from[i] => RingOK(u, from)'
      BY <1>11, <2>2
    <3> QED BY <3>1 DEF RingOK, JumpAt, LinkAt, IsJump
  <2> QED BY <2>3, <2>4
<1>24. ASSUME NEW u \in DOMAIN tbs, NEW n, Unused(u, n) PROVE Unused(u, n)'
  BY <1>2, <1>11, <1>13, <1>24, UnusedKept
<1>25. \A n \in 0 .. PATCH_MAX - 1 : Unused(cur_tb, n)
  BY <1>4 DEF CacheInv, ExitsOK, Emitting
<1>26. ExitsOK'
  <2>1. \A u \in DOMAIN tbs' : tbs'[u].tc_ptr = NOT_TRANS_YET => \A n \in 0 .. PATCH_MAX - 1 : Unused(u, n)'
    <3> SUFFICES ASSUME NEW u \in DOMAIN tbs, tbs'[u].tc_ptr = NOT_TRANS_YET, NEW n \in 0 .. PATCH_MAX - 1
                 PROVE  Unused(u, n)'
      BY <1>2
    <3>1. Unused(u, n)
      BY <1>2, <1>4, <1>25 DEF CacheInv, ExitsOK
    <3> QED BY <1>24, <3>1
  <2>2. \A i \in 1 .. L + 1 : Unused(patch_array[i].tb, 0)'
    <3> SUFFICES ASSUME NEW i \in 1 .. L + 1 PROVE Unused(patch_array[i].tb, 0)'
      OBVIOUS
    <3>1. \A x : x = patch_array'[i].tb => x \in DOMAIN tbs /\ Unused(x, 0)
      <4>1. CASE i = L + 1
        <5>1. 0 \in 0 .. PATCH_MAX - 1
          BY SizeAssumption
        <5> QED BY <1>2, <1>7, <1>10, <1>25, <4>1, <5>1
      <4>2. CASE i \in 1 .. L
        BY <1>4, <1>5, <1>10, <1>19, <4>2 DEF CacheInv, ExitsOK, L
      <4>3. i = L + 1 \/ i \in 1 .. L
        BY <1>5 DEF L
      <4> QED BY <4>1, <4>2, <4>3
    <3>2. \A x : x = patch_array'[i].tb => Unused(x, 0)'
      BY <1>24, <3>1
    <3> QED BY <3>2 DEF Unused
  <2> QED BY <1>10, <2>1, <2>2 DEF ExitsOK, Emitting
<1>27. IndsOK'
  <2>1. ASSUME NEW a \in DOMAIN code', code'[a].op = "ind" PROVE IndOK(a)'
    <3>1. a \in DOMAIN code /\ code'[a] = code[a]
      BY <1>6, <1>9, <2>1
    <3>2. IndOK(a) /\ code[a].tb # cur_tb
      BY <1>4, <2>1, <3>1 DEF CacheInv, IndsOK, IndOK, Emitting
    <3>3. tbs'[code[a].tb] = tbs[code[a].tb] /\ code[a].tb \in DOMAIN tbs'
      BY <1>2, <3>2 DEF IndOK
    <3> QED BY <1>9, <3>1, <3>2, <3>3 DEF IndOK, Emitting
  <2>2. \A t \in DOMAIN tbs' : tbs'[t].tc_ptr = NOT_TRANS_YET => tbs'[t].jmp_ind_index = 0
    BY <1>2, <1>4, <1>11 DEF CacheInv, IndsOK, Emitting
  <2> QED BY <2>1, <2>2 DEF IndsOK, Emitting
<1>28. SieveOK'
  BY <1>4, <1>9, OldNodes DEF CacheInv
<1>29. HostInv'
  BY <1>4, <1>9, <1>13, <1>14, HostKept
<1> QED BY <1>14, <1>15, <1>16, <1>17, <1>18, <1>21, <1>22, <1>23, <1>26, <1>27, <1>28, <1>29 DEF IInv, CacheInv

(***************************************************************************)
(* lazy_patch                                                              *)
(***************************************************************************)

\* A step of lazy_patch that gives the first queued jump p its destination v.
Patched(p, v) ==
  /\ mode = "patch" /\ mode' = "patch"
  /\ patch_array # <<>> /\ p = patch_array[1] /\ patch_array' = Tail(patch_array)
  /\ Redirects(p.at, v)
  /\ tbs' \in Seq(TBs) /\ DOMAIN tbs \subseteq DOMAIN tbs' /\ OneBlockPerPC'
  /\ \A u \in DOMAIN tbs : SameBut(tbs[u], tbs'[u], {"patch_num", "tb_jmp_offset", "jmp_from"})
  /\ \A u \in DOMAIN tbs : u # p.tb => tbs'[u].patch_num = tbs[u].patch_num
  /\ tbs'[p.tb].patch_num = 0
  /\ \A u \in DOMAIN tbs' \ DOMAIN tbs :
        tbs'[u].tc_ptr = NOT_TRANS_YET /\ tbs'[u].jmp_ind_index = 0 /\ tbs'[u].patch_num = 0
  /\ stubs' \in Seq(Stubs) /\ KeepsStubs
  /\ UNCHANGED <<prog, code_gen_ptr, sieve_hashtable, ret_hash_table, cur_tb, pc_ptr, num_insns>>
  /\ UNCHANGED <<hostVars, envVars, execVars>>

\* The queue without its first jump.
LEMMA QueueTail ==
  ASSUME CacheTypes, patch_array # <<>>, NEW q, q = Tail(patch_array)
  PROVE  /\ q \in Seq(Patches) /\ Len(patch_array) \in Nat \ {0} /\ Len(q) = Len(patch_array) - 1
         /\ DOMAIN q = 1 .. Len(patch_array) - 1 /\ 1 \in DOMAIN patch_array
         /\ \A i \in DOMAIN q : i + 1 \in DOMAIN patch_array /\ q[i] = patch_array[i + 1] /\ i + 1 # 1
         /\ \A i \in DOMAIN patch_array : i # 1 => i - 1 \in DOMAIN q /\ q[i - 1] = patch_array[i]
<1>1. patch_array \in Seq(Patches)
  BY DEF CacheTypes
<1>2. DOMAIN patch_array = 1 .. Len(patch_array) /\ Len(patch_array) \in Nat
  BY <1>1, LenProperties
<1>3. Len(patch_array) # 0
  BY <1>1, EmptySeq
<1>4. /\ q \in Seq(Patches) /\ Len(q) = Len(patch_array) - 1
      /\ \A i \in 1 .. Len(q) : q[i] = patch_array[i + 1]
  BY <1>1, HeadTailProperties
<1>5. DOMAIN q = 1 .. Len(patch_array) - 1
  BY <1>4, LenProperties
<1>6. \A i \in DOMAIN q : i + 1 \in DOMAIN patch_array /\ q[i] = patch_array[i + 1] /\ i + 1 # 1
  BY <1>2, <1>4, <1>5
<1>7. ASSUME NEW i \in DOMAIN patch_array, i # 1 PROVE i - 1 \in DOMAIN q /\ q[i - 1] = patch_array[i]
  <2>1. i - 1 \in DOMAIN q /\ (i - 1) + 1 = i
    BY <1>2, <1>5, <1>7
  <2> QED BY <1>6, <2>1
<1> QED BY <1>2, <1>3, <1>4, <1>5, <1>6, <1>7

\* Such a step keeps the invariant if the jump is resolved and the links stay right.
LEMMA PatchedStep ==
  ASSUME IInv, NEW p, NEW v, Patched(p, v), Resolved(p.at)', StubsOK', RingsOK',
         \A u \in DOMAIN tbs' : tbs'[u].tc_ptr = NOT_TRANS_YET => \A n \in 0 .. PATCH_MAX - 1 : Unused(u, n)',
         \A u \in DOMAIN tbs : u # p.tb /\ Unused(u, 0) => Unused(u, 0)'
  PROVE  IInv'
<1>1. CacheInv /\ HostInv /\ CacheTypes
  BY DEF IInv, CacheInv
<1>2. Redirects(p.at, v) /\ KeepsStubs /\ KeepsCode /\ KeepsSlots
  BY DEF Patched, Redirects
<1>3. /\ DOMAIN code' = DOMAIN code /\ code' \in Seq(HostOps) /\ Len(code') = Len(code)
      /\ \A a \in DOMAIN code : a # p.at => code'[a] = code[a]
      /\ \A a \in DOMAIN code : code'[a].op = code[a].op
      /\ \A a \in DOMAIN code : code[a].op \in {"jcc", "jmp"} => code'[a].to = code[a].to
  BY <1>2 DEF Redirects
<1>4. Relinks
  BY <1>2, <1>3 DEF Relinks, Patched
<1>5. /\ KeepsBlocks /\ KeepsTcPtr /\ BlocksOK' /\ OpenBlockOK' /\ IndsOK' /\ SieveOK'
      /\ Len(tbs) <= Len(tbs') /\ Len(tbs') \in Nat
  BY <1>1, <1>4, RelinksStep
<1>6. /\ patch_array' \in Seq(Patches) /\ Len(patch_array) \in Nat \ {0} /\ Len(patch_array') = Len(patch_array) - 1
      /\ 1 \in DOMAIN patch_array
      /\ \A i \in DOMAIN patch_array' : i + 1 \in DOMAIN patch_array /\ patch_array'[i] = patch_array[i + 1] /\ i + 1 # 1
      /\ \A i \in DOMAIN patch_array : i # 1 => i - 1 \in DOMAIN patch_array' /\ patch_array'[i - 1] = patch_array[i]
  BY <1>1, QueueTail DEF Patched
<1>7. \A i, j \in DOMAIN patch_array : patch_array[i].tb = patch_array[j].tb => i = j
  BY <1>1 DEF CacheInv, PatchesOK
<1>8. p = patch_array[1] /\ mode = "patch" /\ mode' = "patch" /\ PatchOK(p)
  BY <1>1, <1>6 DEF Patched, CacheInv, PatchesOK
<1>9. \A u \in DOMAIN tbs : u \in DOMAIN tbs' /\ tbs'[u].pc = tbs[u].pc /\ tbs'[u].tc_ptr = tbs[u].tc_ptr
  BY DEF Patched, SameBut
<1>10. CacheTypes'
  <2>1. Len(tbs) \in Nat /\ cur_tb \in 0 .. Len(tbs) /\ tb \in 0 .. Len(tbs) /\ cur_tb' = cur_tb /\ tb' = tb
    BY <1>1, Domains DEF CacheTypes, Patched, execVars
  <2>2. cur_tb' \in 0 .. Len(tbs') /\ tb' \in 0 .. Len(tbs')
    BY <1>5, <2>1
  <2> QED BY <1>1, <1>3, <1>6, <2>2 DEF CacheTypes, Patched, execVars
<1>11. OpsOK'
  <2>1. \A a \in DOMAIN code : OpOK(a)'
    BY <1>1, <1>2, <1>8, OldOps DEF CacheInv, Unfinished
  <2> QED BY <1>3, <2>1 DEF OpsOK
<1>12. AskedOK'
  <2>1. /\ tb # NULL /\ tbs[tb].pc = eip /\ tbs[tb].tc_ptr # NOT_TRANS_YET /\ tbs[tb].tc_ptr \in DOMAIN code
        /\ cur_tb # NULL
    BY <1>1, <1>8 DEF CacheInv, AskedOK
  <2>2. tb \in DOMAIN tbs
    BY <1>1, <2>1, Domains DEF CacheTypes, NULL
  <2> QED BY <1>3, <1>8, <1>9, <2>1, <2>2 DEF AskedOK, Patched, execVars, envVars
<1>13. ASSUME NEW i \in DOMAIN patch_array, i # 1, NEW q, q = patch_array[i]
       PROVE  q.tb \in DOMAIN tbs /\ q.tb # p.tb /\ PatchOK(q)'
  <2>1. PatchOK(q) /\ q.tb \in DOMAIN tbs
    BY <1>1, <1>13 DEF CacheInv, PatchesOK, PatchOK
  <2>2. q.tb # p.tb
    BY <1>6, <1>7, <1>8, <1>13
  <2>3. tbs'[q.tb].patch_num = tbs[q.tb].patch_num /\ q.tb \in DOMAIN tbs'
    BY <1>9, <2>1, <2>2 DEF Patched
  <2>4. q.at \in DOMAIN code' /\ code'[q.at].op = code[q.at].op /\ code'[q.at].to = code[q.at].to
    BY <1>3, <2>1 DEF PatchOK, IsJump
  <2>5. tbs'[q.tb].pc = tbs[q.tb].pc /\ tbs'[q.tb].tc_ptr = tbs[q.tb].tc_ptr
    BY <1>9, <2>1
  <2> QED BY <1>3, <1>8, <2>1, <2>2, <2>3, <2>4, <2>5 DEF PatchOK, IsJump
<1>14. PatchesOK'
  <2>1. \A i \in DOMAIN patch_array' : PatchOK(patch_array[i])'
    <3> SUFFICES ASSUME NEW i \in DOMAIN patch_array' PROVE PatchOK(patch_array[i])'
      OBVIOUS
    <3>1. \A q : q = patch_array'[i] => PatchOK(q)'
      BY <1>6, <1>13
    <3> QED BY <3>1 DEF PatchOK, IsJump
  <2>2. ASSUME NEW i \in DOMAIN patch_array', NEW j \in DOMAIN patch_array', patch_array'[i].tb = patch_array'[j].tb
        PROVE  i = j
    <3>1. i + 1 = j + 1
      BY <1>6, <1>7, <2>2
    <3>2. i \in Nat /\ j \in Nat
      BY <1>6, LenProperties
    <3> QED BY <3>1, <3>2
  <2>3. ASSUME NEW t \in DOMAIN tbs', tbs'[t].patch_num = 1 PROVE \E i \in DOMAIN patch_array' : patch_array'[i].tb = t
    <3>1. t \in DOMAIN tbs /\ t # p.tb /\ tbs[t].patch_num = 1
      BY <2>3 DEF Patched
    <3>2. PICK i \in DOMAIN patch_array : patch_array[i].tb = t
      BY <1>1, <3>1 DEF CacheInv, PatchesOK
    <3>3. i # 1
      BY <1>8, <3>1, <3>2
    <3> QED BY <1>6, <3>2, <3>3
  <2>4. Len(patch_array') < PATCH_ARRAY_SIZE
    <3>1. Len(patch_array) < PATCH_ARRAY_SIZE /\ PATCH_ARRAY_SIZE \in Nat
      BY <1>1, SizeAssumption DEF CacheInv, PatchesOK
    <3> QED BY <1>6, <3>1
  <2> QED BY <1>8, <2>1, <2>2, <2>3, <2>4 DEF PatchesOK, Emitting, Stable
<1>15. JumpsOK'
  <2> SUFFICES ASSUME NEW a \in DOMAIN code', IsJump(a)'
               PROVE  Resolved(a)' \/ \E i \in DOMAIN patch_array' : patch_array'[i].at = a
    BY DEF JumpsOK
  <2>1. CASE a = p.at
    <3>1. \A x : x = p.at => Resolved(x)'
      BY DEF Resolved, Translated
    <3> QED BY <2>1, <3>1
  <2>2. CASE a # p.at
    <3>1. IsJump(a) /\ code'[a] = code[a] /\ a \in DOMAIN code
      BY <1>3, <2>2 DEF IsJump
    <3>2. Resolved(a) => Resolved(a)'
      BY <1>2, <1>5, <3>1, ResolvedKept
    <3>3. ASSUME NEW i \in DOMAIN patch_array, patch_array[i].at = a PROVE \E j \in DOMAIN patch_array' : patch_array'[j].at = a
      <4>1. i # 1
        BY <1>8, <2>2, <3>3
      <4> QED BY <1>6, <3>3, <4>1
    <3> QED BY <1>1, <3>1, <3>2, <3>3 DEF CacheInv, JumpsOK
  <2> QED BY <2>1, <2>2
<1>16. ExitsOK'
  <2>1. \A i \in DOMAIN patch_array' : Unused(patch_array[i].tb, 0)'
    <3> SUFFICES ASSUME NEW i \in DOMAIN patch_array' PROVE Unused(patch_array[i].tb, 0)'
      OBVIOUS
    <3>1. i + 1 \in DOMAIN patch_array /\ i + 1 # 1 /\ patch_array'[i] = patch_array[i + 1]
      BY <1>6
    <3>2. \A x : x = patch_array[i + 1].tb => x \in DOMAIN tbs /\ x # p.tb /\ Unused(x, 0)
      BY <1>1, <1>13, <3>1 DEF CacheInv, ExitsOK
    <3>3. \A x : x = patch_array'[i].tb => Unused(x, 0)'
      BY <3>1, <3>2
    <3> QED BY <3>3 DEF Unused
  <2> QED BY <1>8, <2>1 DEF ExitsOK, Emitting
<1>17. HostInv'
  BY <1>1, <1>2, <1>5, <1>8, <1>10, HostKept DEF Patched
<1>18. OneBlockPerPC' /\ StubsOK' /\ RingsOK'
  BY DEF Patched
<1> QED BY <1>5, <1>10, <1>11, <1>12, <1>14, <1>15, <1>16, <1>17, <1>18 DEF IInv, CacheInv

\* ts is the store with the queued jump p no longer counted, and its place noted.
Uncounted(ts, p) ==
  /\ ts \in Seq(TBs) /\ DOMAIN ts = DOMAIN tbs
  /\ \A u \in DOMAIN tbs : SameBut(tbs[u], ts[u], {"patch_num", "tb_jmp_offset"})
  /\ \A u \in DOMAIN tbs : u # p.tb => ts[u].patch_num = tbs[u].patch_num
  /\ ts[p.tb].patch_num = 0
  /\ \A u \in DOMAIN tbs : \A k \in 0 .. PATCH_MAX - 1 :
        ts[u].tb_jmp_offset[k] = tbs[u].tb_jmp_offset[k] \/ (u = p.tb /\ k = 0)
  /\ tbs[p.tb].tc_ptr \in DOMAIN code => tbs[p.tb].tc_ptr + ts[p.tb].tb_jmp_offset[0] = p.at

\* What taking a jump off the queue does to the store of blocks.
LEMMA UncountedFrom ==
  ASSUME CacheTypes, NEW p \in Patches, PatchOK(p), NEW us, NEW ts,
         CountSet(tbs, us, p.tb, 0), OffsetSet(us, ts, p.tb, 0, p.at)
  PROVE  Uncounted(ts, p)
<1>1. PICK x : x = p.tb
  OBVIOUS
<1>2. x \in DOMAIN tbs /\ tbs \in Seq(TBs) /\ DOMAIN code = 1 .. Len(code) /\ Len(code) \in Nat /\ p.at \in Nat
  BY <1>1, Domains DEF PatchOK, CacheTypes, Patches
<1>3. /\ DOMAIN us = DOMAIN tbs /\ \A u \in DOMAIN tbs : u # x => us[u] = tbs[u]
      /\ SameBut(tbs[x], us[x], {"patch_num"}) /\ us[x].patch_num = 0
  BY <1>1 DEF CountSet
<1>4. /\ ts \in Seq(TBs) /\ DOMAIN ts = DOMAIN us
      /\ \A u \in DOMAIN us : SameBut(us[u], ts[u], {"tb_jmp_offset"})
      /\ \A u \in DOMAIN us : \A k \in 0 .. PATCH_MAX - 1 :
            ts[u].tb_jmp_offset[k] = us[u].tb_jmp_offset[k] \/ (u = x /\ k = 0)
      /\ p.at - us[x].tc_ptr \in 0 .. OffsetRange - 1 => ts[x].tb_jmp_offset[0] = p.at - us[x].tc_ptr
  BY <1>1 DEF OffsetSet
<1>5. \A u \in DOMAIN tbs : SameBut(tbs[u], us[u], {"patch_num"})
  BY <1>3 DEF SameBut
<1>6. \A u \in DOMAIN tbs : SameBut(tbs[u], ts[u], {"patch_num", "tb_jmp_offset"})
  BY <1>3, <1>4, <1>5 DEF SameBut
<1>7. ts[x].patch_num = 0 /\ \A u \in DOMAIN tbs : u # x => ts[u].patch_num = tbs[u].patch_num
  BY <1>2, <1>3, <1>4 DEF SameBut
<1>8. \A u \in DOMAIN tbs : \A k \in 0 .. PATCH_MAX - 1 :
          ts[u].tb_jmp_offset[k] = tbs[u].tb_jmp_offset[k] \/ (u = x /\ k = 0)
  BY <1>3, <1>4, <1>5 DEF SameBut
<1>9. ASSUME tbs[x].tc_ptr \in DOMAIN code PROVE tbs[x].tc_ptr + ts[x].tb_jmp_offset[0] = p.at
  <2>1. tbs[x].tc_ptr \in Nat /\ tbs[x].tc_ptr # 0 /\ us[x].tc_ptr = tbs[x].tc_ptr
    BY <1>2, <1>5, <1>9 DEF SameBut
  <2>2. p.at - tbs[x].tc_ptr \in 0 .. OffsetRange - 1
    BY <1>1, <2>1 DEF PatchOK, NOT_TRANS_YET
  <2>3. ts[x].tb_jmp_offset[0] = p.at - tbs[x].tc_ptr
    BY <1>4, <2>1, <2>2
  <2>4. \A a, b \in Nat : b + (a - b) = a
    OBVIOUS
  <2> QED BY <1>2, <2>1, <2>3, <2>4
<1> QED BY <1>1, <1>3, <1>4, <1>6, <1>7, <1>8, <1>9 DEF Uncounted

\* lazy_patch takes the first jump off the queue.
LEMMA FirstPatch ==
  ASSUME IInv, mode = "patch", patch_array # <<>>, NEW p, p = Head(patch_array),
         NEW n, n = tbs[p.tb].patch_num - 1, NEW ts,
         ts = SetJmpOffset([tbs EXCEPT ![p.tb].patch_num = n], p.tb, n, p.at)
  PROVE  /\ n = 0 /\ p = patch_array[1] /\ p \in Patches /\ PatchOK(p)
         /\ Unused(p.tb, 0) /\ Uncounted(ts, p)
<1>1. CacheTypes /\ PatchesOK /\ ExitsOK
  BY DEF IInv, CacheInv
<1>2. /\ tbs \in Seq(TBs) /\ patch_array \in Seq(Patches) /\ \A u \in DOMAIN tbs : tbs[u] \in TBs
      /\ DOMAIN code = 1 .. Len(code) /\ Len(code) \in Nat
  BY <1>1, Domains DEF CacheTypes
<1>3. 1 \in DOMAIN patch_array /\ p = patch_array[1]
  <2>1. \A q : q = Tail(patch_array) => 1 \in DOMAIN patch_array
    BY <1>1, QueueTail
  <2>2. 1 \in DOMAIN patch_array
    BY <2>1
  <2> QED BY <1>2, <2>2, HeadTailProperties
<1>4. p \in Patches /\ PatchOK(p) /\ Unused(p.tb, 0)
  BY <1>1, <1>2, <1>3, Domains DEF PatchesOK, ExitsOK
<1>5. p.at \in Nat /\ p.tb \in DOMAIN tbs /\ tbs[p.tb].patch_num = 1
  BY <1>4 DEF Patches, PatchOK
<1>6. n = 0 /\ 0 \in 0 .. PATCH_MAX - 1
  BY <1>5, SizeAssumption
<1>7. PICK us : us = [tbs EXCEPT ![p.tb].patch_num = n]
  OBVIOUS
<1>8. PICK x : x = p.tb
  OBVIOUS
<1>9. CountSet(tbs, us, x, 0)
  <2>1. us = [tbs EXCEPT ![x].patch_num = 0]
    BY <1>6, <1>7, <1>8
  <2>2. x \in DOMAIN tbs /\ 0 \in {0, 1}
    BY <1>5, <1>8
  <2> QED BY <1>2, <2>1, <2>2, SetCount
<1>10. us \in Seq(TBs) /\ x \in DOMAIN us /\ DOMAIN us = DOMAIN tbs
  BY <1>5, <1>8, <1>9 DEF CountSet
<1>11. OffsetSet(us, ts, x, 0, p.at)
  <2>1. PICK at : at = p.at
    OBVIOUS
  <2>2. ts = SetJmpOffset(us, x, 0, at) /\ at \in Nat
    BY <1>5, <1>6, <1>7, <1>8, <2>1
  <2>3. OffsetSet(us, ts, x, 0, at)
    BY <1>6, <1>10, <2>2, JmpOffset
  <2> QED BY <2>1, <2>3
<1>12. Uncounted(ts, p)
  <2>1. CountSet(tbs, us, p.tb, 0) /\ OffsetSet(us, ts, p.tb, 0, p.at)
    BY <1>8, <1>9, <1>11
  <2> QED BY <1>1, <1>4, <2>1, UncountedFrom
<1> QED BY <1>3, <1>4, <1>6, <1>12

\* A jump to a translated block is patched and linked.
LEMMA PatchToBlock ==
  ASSUME IInv, mode = "patch", mode' = "patch", patch_array # <<>>,
         NEW p \in Patches, p = patch_array[1], PatchOK(p), Unused(p.tb, 0), NEW ts, Uncounted(ts, p),
         NEW d, d = tb_find_fast(p.to), Translated(d), Redirects(p.at, tbs[d].tc_ptr),
         RingSet(ts, tbs', p.tb, d, 0), patch_array' = Tail(patch_array),
         UNCHANGED <<prog, stubs, code_gen_ptr, sieve_hashtable, ret_hash_table, cur_tb, pc_ptr, num_insns>>,
         UNCHANGED <<hostVars, envVars, execVars>>
  PROVE  IInv'
<1>1. p = patch_array[1] /\ p \in Patches /\ PatchOK(p) /\ Unused(p.tb, 0) /\ Uncounted(ts, p)
  OBVIOUS
<1>2. CacheInv /\ CacheTypes /\ OneBlockPerPC /\ BlocksOK
  BY DEF IInv, CacheInv
<1>3. d \in DOMAIN tbs /\ tbs[d].pc = p.to /\ tbs[d].tc_ptr # NOT_TRANS_YET
  BY <1>2, FindFast DEF Translated
<1>4. tbs[d].tc_ptr \in DOMAIN code /\ tbs[d].tc_ptr \in Int
  <2>1. tbs[d].tc_ptr \in DOMAIN code
    BY <1>2, <1>3 DEF BlocksOK, At
  <2> QED BY <1>2, <2>1, Domains
<1>5. /\ p.at \in DOMAIN code /\ code[p.at].op \in {"jcc", "jmp"} /\ code[p.at].to = p.to
      /\ p.tb \in DOMAIN tbs /\ tbs[p.tb].patch_num = 1
  BY <1>1 DEF PatchOK, IsJump
<1>6. tbs[p.tb].tc_ptr \in DOMAIN code
  BY <1>1, <1>2, <1>3, <1>5 DEF PatchOK, OneBlockPerPC
<1>7. Redirects(p.at, tbs[d].tc_ptr)
  OBVIOUS
<1>8. /\ ts \in Seq(TBs) /\ DOMAIN ts = DOMAIN tbs
      /\ \A u \in DOMAIN tbs : SameBut(tbs[u], ts[u], {"patch_num", "tb_jmp_offset"})
      /\ \A u \in DOMAIN tbs : u # p.tb => ts[u].patch_num = tbs[u].patch_num
      /\ ts[p.tb].patch_num = 0
      /\ \A u \in DOMAIN tbs : \A k \in 0 .. PATCH_MAX - 1 :
            ts[u].tb_jmp_offset[k] = tbs[u].tb_jmp_offset[k] \/ (u = p.tb /\ k = 0)
      /\ tbs[p.tb].tc_ptr + ts[p.tb].tb_jmp_offset[0] = p.at
  BY <1>1, <1>6 DEF Uncounted
<1>9. /\ tbs' \in Seq(TBs) /\ DOMAIN tbs' = DOMAIN ts
      /\ \A u \in DOMAIN ts : SameBut(ts[u], tbs'[u], {"jmp_from"})
      /\ \A u \in DOMAIN ts : \A i \in 0 .. TB_FROM_MAX - 1 :
            tbs'[u].jmp_from[i] = ts[u].jmp_from[i] \/ (u = d /\ tbs'[u].jmp_from[i] = [tb |-> p.tb, n |-> 0])
  BY DEF RingSet
<1>10. \A u \in DOMAIN tbs : /\ tbs'[u].patch_num = ts[u].patch_num /\ tbs'[u].tb_jmp_offset = ts[u].tb_jmp_offset
                             /\ SameBut(tbs[u], tbs'[u], {"patch_num", "tb_jmp_offset", "jmp_from"})
                             /\ ts[u].jmp_from = tbs[u].jmp_from
  BY <1>8, <1>9 DEF SameBut
<1>11. KeepsOffsets
  BY <1>1, <1>8, <1>10 DEF KeepsOffsets
<1>12. KeepsDests
  BY <1>2, <1>3, <1>5, <1>7 DEF KeepsDests, Redirects, OneBlockPerPC
<1>13. Links(p.tb, 0, d, p.at)
  <2>1. /\ \A u \in DOMAIN tbs : SameBut(tbs[u], tbs'[u], {"patch_num", "tb_jmp_offset", "jmp_from"})
        /\ \A u \in DOMAIN tbs : \A i \in 0 .. TB_FROM_MAX - 1 :
              tbs'[u].jmp_from[i] = tbs[u].jmp_from[i] \/ (u = d /\ tbs'[u].jmp_from[i] = [tb |-> p.tb, n |-> 0])
    BY <1>8, <1>9, <1>10
  <2>2. tbs[p.tb].tc_ptr + tbs'[p.tb].tb_jmp_offset[0] = p.at
    BY <1>5, <1>8, <1>10
  <2>3. /\ p.at \in DOMAIN code' /\ code'[p.at].op \in {"jcc", "jmp"}
        /\ code'[p.at].to = tbs[d].pc /\ code'[p.at].dest = tbs[d].tc_ptr /\ KeepsCode
    BY <1>3, <1>5, <1>7 DEF Redirects
  <2> QED BY <1>3, <1>4, <1>5, <1>6, <1>8, <1>9, <1>11, <1>12, <2>1, <2>2, <2>3 DEF Links
<1>14. /\ KeepsStubs /\ StubsOK' /\ RingsOK'
       /\ \A t \in DOMAIN tbs : \A k : (t # p.tb \/ k # 0) /\ Unused(t, k) => Unused(t, k)'
  <2>1. PICK x : x = p.tb
    OBVIOUS
  <2>2. PICK at : at = p.at
    OBVIOUS
  <2>3. Links(x, 0, d, at) /\ StubsOK /\ RingsOK
    BY <1>2, <1>13, <2>1, <2>2 DEF CacheInv
  <2>4. /\ KeepsStubs /\ StubsOK' /\ RingsOK'
        /\ \A t \in DOMAIN tbs : \A k : (t # x \/ k # 0) /\ Unused(t, k) => Unused(t, k)'
    BY <1>2, <2>3, LinksStep
  <2> QED BY <2>1, <2>4
<1>15. OneBlockPerPC'
  BY <1>2, <1>8, <1>9, <1>10 DEF OneBlockPerPC, SameBut
<1>16. Patched(p, tbs[d].tc_ptr)
  <2>1. stubs' \in Seq(Stubs)
    BY <1>2 DEF CacheTypes
  <2>2. /\ \A u \in DOMAIN tbs : u # p.tb => tbs'[u].patch_num = tbs[u].patch_num
        /\ tbs'[p.tb].patch_num = 0
    BY <1>5, <1>8, <1>10
  <2> QED BY <1>1, <1>7, <1>8, <1>9, <1>10, <1>14, <1>15, <2>1, <2>2 DEF Patched
<1>17. Resolved(p.at)'
  <2>1. tbs'[d].pc = p.to /\ tbs'[d].tc_ptr = tbs[d].tc_ptr /\ d \in DOMAIN tbs' /\ d # NULL
    <3>1. d # NULL
      BY DEF Translated
    <3> QED BY <1>3, <1>8, <1>9, <1>10, <3>1 DEF SameBut
  <2>2. code'[p.at].dest = tbs[d].tc_ptr /\ code'[p.at].to = p.to /\ tbs[d].tc_ptr \in DOMAIN code'
    BY <1>4, <1>5, <1>7 DEF Redirects
  <2> QED BY <1>3, <2>1, <2>2 DEF Resolved, Translated
<1>18. \A u \in DOMAIN tbs' : tbs'[u].tc_ptr = NOT_TRANS_YET => \A k \in 0 .. PATCH_MAX - 1 : Unused(u, k)'
  <2> SUFFICES ASSUME NEW u \in DOMAIN tbs', tbs'[u].tc_ptr = NOT_TRANS_YET, NEW k \in 0 .. PATCH_MAX - 1
               PROVE  Unused(u, k)'
    OBVIOUS
  <2>1. u \in DOMAIN tbs /\ tbs[u].tc_ptr = NOT_TRANS_YET
    BY <1>8, <1>9, <1>10 DEF SameBut
  <2>2. 0 \notin DOMAIN code
    BY <1>2, Domains
  <2>3. u # p.tb
    BY <1>6, <2>1, <2>2 DEF NOT_TRANS_YET
  <2>4. Unused(u, k)
    BY <1>2, <2>1 DEF CacheInv, ExitsOK
  <2> QED BY <1>14, <2>1, <2>3, <2>4
<1> QED
  <2>1. PICK v : v = tbs[d].tc_ptr
    OBVIOUS
  <2>2. Patched(p, v)
    BY <1>16, <2>1
  <2> QED BY <1>14, <1>17, <1>18, <2>2, PatchedStep

\* The store of blocks when a stub has been made for a jump to guest pc q: there
\* is a block for q, with or without code.
ExitBlock(ts, q) ==
  /\ tbs' \in Seq(TBs) /\ DOMAIN tbs \subseteq DOMAIN tbs'
  /\ \A u \in DOMAIN tbs : tbs'[u] = ts[u]
  /\ \A u \in DOMAIN tbs' \ DOMAIN tbs :
        /\ tbs'[u].tc_ptr = NOT_TRANS_YET /\ tbs'[u].jmp_ind_index = 0 /\ tbs'[u].patch_num = 0
        /\ tbs'[u].pc = q /\ u # NULL /\ \A i \in 0 .. TB_FROM_MAX - 1 : tbs'[u].jmp_from[i].tb = NULL
        /\ \A t \in DOMAIN tbs' : t # u => t \in DOMAIN tbs /\ tbs[t].pc # q
  /\ \E u \in DOMAIN tbs' : tbs'[u].pc = q

\* BlockForExit makes a block only if there is none.
LEMMA MakeExitBlock ==
  ASSUME CacheTypes, NEW p \in Patches, NEW ts, Uncounted(ts, p), NEW f \in Nat, NEW q \in Nat,
         tbs' = BlockForExit(ts, q, f)
  PROVE  ExitBlock(ts, q)
<1>1. /\ ts \in Seq(TBs) /\ DOMAIN ts = DOMAIN tbs
      /\ \A u \in DOMAIN tbs : SameBut(tbs[u], ts[u], {"patch_num", "tb_jmp_offset"})
  BY DEF Uncounted
<1>2. \A u \in DOMAIN tbs : ts[u].pc = tbs[u].pc
  BY <1>1 DEF SameBut
<1>3. CASE tb_find_fast(q) # NULL
  <2>1. tbs' = ts
    BY <1>3 DEF BlockForExit
  <2>2. PICK u \in DOMAIN tbs : tbs[u].pc = q
    BY <1>3, FindFast
  <2>3. u \in DOMAIN tbs' /\ tbs'[u].pc = q
    BY <1>1, <1>2, <2>1, <2>2
  <2> QED BY <1>1, <2>1, <2>3 DEF ExitBlock
<1>4. CASE tb_find_fast(q) = NULL
  <2> DEFINE r == NewTB(q, f)
  <2>1. tbs' = Append(ts, r)
    BY <1>4 DEF BlockForExit
  <2>2. \A u \in DOMAIN tbs : tbs[u].pc # q
    BY <1>4, FindFast
  <2>3. /\ r \in TBs /\ r.pc = q /\ r.tc_ptr = NOT_TRANS_YET /\ r.patch_num = 0 /\ r.jmp_ind_index = 0
        /\ \A i \in 0 .. TB_FROM_MAX - 1 : r.jmp_from[i].tb = NULL
    BY NewBlock
  <2> HIDE DEF r
  <2>4. /\ tbs' \in Seq(TBs) /\ DOMAIN tbs' = DOMAIN ts \cup {Len(ts) + 1}
        /\ Len(ts) \in Nat /\ DOMAIN ts = 1 .. Len(ts)
        /\ tbs'[Len(ts) + 1] = r /\ \A u \in DOMAIN ts : tbs'[u] = ts[u]
    BY <1>1, <2>1, <2>3, AddBlock
  <2>5. Len(ts) + 1 # NULL /\ Len(ts) + 1 \notin DOMAIN tbs
    BY <1>1, <2>4 DEF NULL
  <2>6. ASSUME NEW u \in DOMAIN tbs' \ DOMAIN tbs
        PROVE  /\ u = Len(ts) + 1 /\ tbs'[u] = r
               /\ \A t \in DOMAIN tbs' : t # u => t \in DOMAIN tbs /\ tbs[t].pc # q
    BY <1>1, <2>2, <2>4
  <2>7. Len(ts) + 1 \in DOMAIN tbs' /\ tbs'[Len(ts) + 1].pc = q
    BY <2>3, <2>4
  <2>8. DOMAIN tbs \subseteq DOMAIN tbs' /\ \A u \in DOMAIN tbs : tbs'[u] = ts[u]
    BY <1>1, <2>4
  <2> QED BY <2>3, <2>4, <2>5, <2>6, <2>7, <2>8 DEF ExitBlock
<1> QED BY <1>3, <1>4

\* A jump to a pc without code is led to a stub.
LEMMA PatchToStub ==
  ASSUME IInv, mode = "patch", mode' = "patch", patch_array # <<>>,
         NEW p \in Patches, p = patch_array[1], PatchOK(p), Unused(p.tb, 0), NEW ts, Uncounted(ts, p),
         ~ Translated(tb_find_fast(p.to)), ExitBlock(ts, p.to),
         stubs' = Append(stubs, [tb |-> p.tb, patch_num |-> 0, to |-> p.to]),
         Redirects(p.at, - (Len(stubs) + 1)), patch_array' = Tail(patch_array),
         UNCHANGED <<prog, code_gen_ptr, sieve_hashtable, ret_hash_table, cur_tb, pc_ptr, num_insns>>,
         UNCHANGED <<hostVars, envVars, execVars>>
  PROVE  IInv'
<1> DEFINE s == [tb |-> p.tb, patch_num |-> 0, to |-> p.to]
<1> DEFINE k == Len(stubs) + 1
<1>1. CacheInv /\ CacheTypes /\ OneBlockPerPC /\ BlocksOK /\ StubsOK /\ RingsOK /\ ExitsOK
  BY DEF IInv, CacheInv
<1>2. /\ p.at \in DOMAIN code /\ code[p.at].op \in {"jcc", "jmp"} /\ code[p.at].to = p.to
      /\ p.tb \in DOMAIN tbs
      /\ tbs[p.tb].tc_ptr \in DOMAIN code \/ (tbs[p.tb].tc_ptr = NOT_TRANS_YET /\ tbs[p.tb].pc = p.to)
  BY DEF PatchOK, IsJump
<1>3. s \in Stubs /\ s.tb = p.tb /\ s.patch_num = 0 /\ s.to = p.to
  BY SizeAssumption, SMTT(30) DEF Stubs, Patches
<1> HIDE DEF s
<1>4. /\ stubs' \in Seq(Stubs) /\ DOMAIN stubs' = DOMAIN stubs \cup {k} /\ stubs'[k] = s
      /\ \A i \in DOMAIN stubs : stubs'[i] = stubs[i]
  <2>1. stubs' = Append(stubs, s) /\ stubs \in Seq(Stubs)
    BY <1>1 DEF CacheTypes, s
  <2>2. /\ stubs' \in Seq(Stubs) /\ Len(stubs') = Len(stubs) + 1 /\ Len(stubs) \in Nat
        /\ stubs'[Len(stubs) + 1] = s /\ \A i \in 1 .. Len(stubs) : stubs'[i] = stubs[i]
    BY <1>3, <2>1, AppendProperties
  <2>3. DOMAIN stubs' = 1 .. Len(stubs') /\ DOMAIN stubs = 1 .. Len(stubs)
    BY <2>1, <2>2, LenProperties
  <2>4. DOMAIN stubs' = DOMAIN stubs \cup {k}
    BY <2>2, <2>3
  <2> QED BY <2>2, <2>3, <2>4
<1>5. KeepsStubs
  BY <1>4 DEF KeepsStubs
<1>6. /\ DOMAIN ts = DOMAIN tbs
      /\ \A u \in DOMAIN tbs : SameBut(tbs[u], ts[u], {"patch_num", "tb_jmp_offset"})
      /\ \A u \in DOMAIN tbs : u # p.tb => ts[u].patch_num = tbs[u].patch_num
      /\ ts[p.tb].patch_num = 0
      /\ \A u \in DOMAIN tbs : \A n \in 0 .. PATCH_MAX - 1 :
            ts[u].tb_jmp_offset[n] = tbs[u].tb_jmp_offset[n] \/ (u = p.tb /\ n = 0)
      /\ tbs[p.tb].tc_ptr \in DOMAIN code => tbs[p.tb].tc_ptr + ts[p.tb].tb_jmp_offset[0] = p.at
  BY DEF Uncounted
<1>7. /\ tbs' \in Seq(TBs) /\ DOMAIN tbs \subseteq DOMAIN tbs'
      /\ \A u \in DOMAIN tbs : tbs'[u] = ts[u]
      /\ \A u \in DOMAIN tbs' \ DOMAIN tbs :
            /\ tbs'[u].tc_ptr = NOT_TRANS_YET /\ tbs'[u].jmp_ind_index = 0 /\ tbs'[u].patch_num = 0
            /\ tbs'[u].pc = p.to /\ u # NULL /\ \A i \in 0 .. TB_FROM_MAX - 1 : tbs'[u].jmp_from[i].tb = NULL
            /\ \A t \in DOMAIN tbs' : t # u => t \in DOMAIN tbs /\ tbs[t].pc # p.to
      /\ \E u \in DOMAIN tbs' : tbs'[u].pc = p.to
  BY DEF ExitBlock
<1>8. /\ Redirects(p.at, - k) /\ KeepsCode /\ KeepsSlots /\ DOMAIN code' = DOMAIN code
      /\ code'[p.at].dest = - k /\ code'[p.at].to = p.to /\ code'[p.at].op \in {"jcc", "jmp"}
      /\ \A a \in DOMAIN code : a # p.at => code'[a] = code[a]
  BY <1>2 DEF Redirects
<1> HIDE DEF k
<1>9. \A u \in DOMAIN tbs : /\ tbs'[u].pc = tbs[u].pc /\ tbs'[u].tc_ptr = tbs[u].tc_ptr
                            /\ tbs'[u].jmp_from = tbs[u].jmp_from
                            /\ SameBut(tbs[u], tbs'[u], {"patch_num", "tb_jmp_offset", "jmp_from"})
  BY <1>6, <1>7 DEF SameBut
<1>10. OneBlockPerPC'
  <2> SUFFICES ASSUME NEW u \in DOMAIN tbs', NEW t \in DOMAIN tbs', tbs'[u].pc = tbs'[t].pc PROVE u = t
    BY DEF OneBlockPerPC
  <2>1. CASE u \in DOMAIN tbs /\ t \in DOMAIN tbs
    BY <1>1, <1>9, <2>1 DEF OneBlockPerPC
  <2>2. CASE u \notin DOMAIN tbs
    BY <1>7, <1>9, <2>2
  <2>3. CASE t \notin DOMAIN tbs
    BY <1>7, <1>9, <2>3
  <2> QED BY <2>1, <2>2, <2>3
<1>11. KeepsBlocks /\ KeepsTcPtr
  BY <1>7, <1>9 DEF KeepsBlocks, KeepsTcPtr
<1>12. KeepsOffsets
  BY <1>6, <1>7 DEF KeepsOffsets
<1>13. \A u \in DOMAIN tbs : tbs[u].pc = p.to => tbs[u].tc_ptr \notin DOMAIN code
  <2> SUFFICES ASSUME NEW u \in DOMAIN tbs, tbs[u].pc = p.to PROVE tbs[u].tc_ptr \notin DOMAIN code
    OBVIOUS
  <2>1. tb_find_fast(p.to) = u /\ u # NULL
    <3>1. tb_find_fast(p.to) # NULL
      BY <1>1, FindFast
    <3>2. tb_find_fast(p.to) \in DOMAIN tbs /\ tbs[tb_find_fast(p.to)].pc = p.to
      BY <1>1, <3>1, FindFast
    <3> QED BY <1>1, <3>1, <3>2 DEF OneBlockPerPC
  <2>2. tbs[u].tc_ptr = NOT_TRANS_YET
    BY <2>1 DEF Translated
  <2> QED BY <1>1, <2>2, Domains DEF NOT_TRANS_YET
<1>14. KeepsDests
  BY <1>2, <1>8, <1>13 DEF KeepsDests
<1>15. ASSUME NEW x, x = s PROVE StubOK(x)'
  <2>1. x.tb = p.tb /\ x.patch_num = 0 /\ x.to = p.to
    BY <1>3, <1>15
  <2>2. p.tb \in DOMAIN tbs' /\ tbs'[p.tb].pc = tbs[p.tb].pc /\ tbs'[p.tb].tc_ptr = tbs[p.tb].tc_ptr
        /\ tbs'[p.tb] = ts[p.tb]
    BY <1>2, <1>7, <1>9
  <2>3. CASE tbs[p.tb].tc_ptr \in DOMAIN code
    <3>1. tbs'[p.tb].tc_ptr + tbs'[p.tb].tb_jmp_offset[0] = p.at /\ tbs'[p.tb].tc_ptr \in DOMAIN code'
      BY <1>6, <1>8, <2>2, <2>3
    <3> QED BY <1>2, <1>7, <1>8, <2>1, <2>2, <3>1, SMTT(30) DEF StubOK, JumpAt, LinkAt, IsJump
  <2>4. CASE tbs[p.tb].tc_ptr = NOT_TRANS_YET /\ tbs[p.tb].pc = p.to
    BY <1>7, <2>1, <2>2, <2>4 DEF StubOK
  <2> QED BY <1>2, <2>3, <2>4
<1>16. StubsOK'
  <2> SUFFICES ASSUME NEW i \in DOMAIN stubs' PROVE StubOK(stubs[i])'
    BY DEF StubsOK
  <2>1. \A x : x = stubs'[i] => StubOK(x)'
    <3>1. CASE i = k
      BY <1>4, <1>15, <3>1
    <3>2. CASE i \in DOMAIN stubs
      BY <1>1, <1>4, <1>8, <1>11, <1>12, <3>2, StubsKept
    <3> QED BY <1>4, <3>1, <3>2
  <2> QED BY <2>1 DEF StubOK, JumpAt, LinkAt, IsJump
<1>17. \A u \in DOMAIN tbs' : \A i \in 0 .. TB_FROM_MAX - 1 :
          \/ u \in DOMAIN tbs /\ tbs'[u].jmp_from[i] = tbs[u].jmp_from[i]
          \/ tbs'[u].jmp_from[i].tb = NULL
  BY <1>7, <1>9
<1>18. RingsOK'
  <2> SUFFICES ASSUME NEW u \in DOMAIN tbs', NEW i \in 0 .. TB_FROM_MAX - 1, tbs'[u].jmp_from[i].tb # NULL
               PROVE  RingOK(u, tbs[u].jmp_from[i])'
    BY DEF RingsOK, RingOK
  <2>1. u \in DOMAIN tbs /\ tbs'[u].jmp_from[i] = tbs[u].jmp_from[i]
    BY <1>17
  <2>2. \A from : from = tbs'[u].jmp_from[i] => RingOK(u, from)'
    BY <1>1, <1>8, <1>11, <1>12, <1>14, <2>1, RingsKept
  <2> QED BY <2>2 DEF RingOK, JumpAt, LinkAt, IsJump
<1>19. ASSUME NEW u \in DOMAIN tbs, NEW n, Unused(u, n), u = p.tb => tbs[u].pc = p.to PROVE Unused(u, n)'
  <2>1. \A t \in DOMAIN tbs' : \A i \in 0 .. TB_FROM_MAX - 1 :
            \/ t \in DOMAIN tbs /\ tbs'[t].jmp_from[i] = tbs[t].jmp_from[i]
            \/ tbs'[t].jmp_from[i] # [tb |-> u, n |-> n]
    <3>1. u # NULL
      BY <1>1, Domains DEF NULL
    <3> QED BY <1>17, <3>1
  <2>2. \A i \in DOMAIN stubs' : \/ i \in DOMAIN stubs /\ stubs'[i] = stubs[i]
                                 \/ stubs'[i].tb = u /\ stubs'[i].patch_num = n => stubs'[i].to = tbs[u].pc
    BY <1>3, <1>4, <1>19
  <2> QED BY <1>11, <1>19, <2>1, <2>2, UnusedKept
<1>20. \A u \in DOMAIN tbs' : tbs'[u].tc_ptr = NOT_TRANS_YET => \A n \in 0 .. PATCH_MAX - 1 : Unused(u, n)'
  <2> SUFFICES ASSUME NEW u \in DOMAIN tbs', tbs'[u].tc_ptr = NOT_TRANS_YET, NEW n \in 0 .. PATCH_MAX - 1
               PROVE  Unused(u, n)'
    OBVIOUS
  <2>1. CASE u \in DOMAIN tbs
    <3>1. tbs[u].tc_ptr = NOT_TRANS_YET /\ Unused(u, n)
      BY <1>1, <1>9, <2>1 DEF ExitsOK
    <3>2. 0 \notin DOMAIN code
      BY <1>1, Domains
    <3>3. u = p.tb => tbs[u].pc = p.to
      BY <1>2, <3>1, <3>2 DEF NOT_TRANS_YET
    <3> QED BY <1>19, <2>1, <3>1, <3>3
  <2>2. CASE u \notin DOMAIN tbs
    <3>1. u # NULL
      BY <1>7, <2>2
    <3>2. \A i \in DOMAIN stubs' : \/ i \in DOMAIN stubs /\ stubs'[i] = stubs[i]
                                   \/ stubs'[i].tb \in DOMAIN tbs
      BY <1>2, <1>3, <1>4
    <3>3. \A t \in DOMAIN tbs' : \A i \in 0 .. TB_FROM_MAX - 1 :
            \/ t \in DOMAIN tbs /\ tbs'[t].jmp_from[i] = tbs[t].jmp_from[i]
            \/ tbs'[t].jmp_from[i].tb \in DOMAIN tbs \cup {NULL}
      BY <1>17
    <3> QED BY <1>1, <2>2, <3>1, <3>2, <3>3, NewUnused
  <2> QED BY <2>1, <2>2
<1>21. \A u \in DOMAIN tbs : u # p.tb /\ Unused(u, 0) => Unused(u, 0)'
  BY <1>19
<1>22. Resolved(p.at)'
  BY <1>3, <1>4, <1>8 DEF Resolved
<1>23. Patched(p, - k)
  BY <1>2, <1>4, <1>5, <1>6, <1>7, <1>8, <1>9, <1>10 DEF Patched
<1> QED
  <2>1. PICK v : v = - k
    OBVIOUS
  <2>2. Patched(p, v)
    BY <1>23, <2>1
  <2> QED BY <1>16, <1>18, <1>20, <1>21, <1>22, <2>2, PatchedStep

\* A step of lazy_patch keeps the invariant.
LEMMA LazyPatchStep ==
  ASSUME IInv, lazy_patch, UNCHANGED <<prog, hostVars, envVars, execVars>>
  PROVE  IInv'
<1>1. PICK p : p = Head(patch_array)
  OBVIOUS
<1>2. PICK n : n = tbs[p.tb].patch_num - 1
  OBVIOUS
<1>3. PICK ts : ts = SetJmpOffset([tbs EXCEPT ![p.tb].patch_num = n], p.tb, n, p.at)
  OBVIOUS
<1>4. PICK d : d = tb_find_fast(p.to)
  OBVIOUS
<1>5. mode = "patch" /\ patch_array # <<>>
  BY DEF lazy_patch
<1>6. CacheTypes
  BY DEF IInv, CacheInv
<1>7. /\ n = 0 /\ p = patch_array[1] /\ p \in Patches /\ PatchOK(p)
      /\ Unused(p.tb, 0) /\ Uncounted(ts, p)
  BY <1>1, <1>2, <1>3, <1>5, FirstPatch
<1>8. /\ p.at \in DOMAIN code /\ IsJump(p.at) /\ p.tb \in DOMAIN tbs /\ p.to \in Nat /\ p.func_addr \in Nat
      /\ 0 \in 0 .. PATCH_MAX - 1
  BY <1>7, SizeAssumption DEF PatchOK, Patches
<1>9. CASE /\ Translated(d)
           /\ code' = [code EXCEPT ![p.at].dest = tbs[d].tc_ptr]
           /\ tbs' = tb_add_jmp_from(ts, p.tb, d, n)
           /\ patch_array' = Tail(patch_array)
           /\ UNCHANGED <<stubs, code_gen_ptr, sieve_hashtable, ret_hash_table, cur_tb, pc_ptr, num_insns, mode>>
  <2>1. d \in DOMAIN tbs
    BY <1>4, <1>6, <1>9, FindFast DEF Translated
  <2>2. PICK v : v = tbs[d].tc_ptr
    OBVIOUS
  <2>3. v \in Int
    <3>1. tbs[d] \in TBs
      BY <1>6, <2>1, Domains
    <3> QED BY <2>2, <3>1 DEF TBs
  <2>4. Redirects(p.at, v)
    <3>1. PICK at : at = p.at
      OBVIOUS
    <3>2. at \in DOMAIN code /\ IsJump(at) /\ code' = [code EXCEPT ![at].dest = v]
      BY <1>8, <1>9, <2>2, <3>1
    <3>3. Redirects(at, v)
      BY <1>6, <2>3, <3>2, SetJump
    <3> QED BY <3>1, <3>3
  <2>5. RingSet(ts, tbs', p.tb, d, 0)
    <3>1. PICK x : x = p.tb
      OBVIOUS
    <3>2. ts \in Seq(TBs) /\ x \in DOMAIN ts /\ d \in DOMAIN ts /\ tbs' = tb_add_jmp_from(ts, x, d, 0)
      BY <1>7, <1>8, <1>9, <2>1, <3>1 DEF Uncounted
    <3>3. RingSet(ts, tbs', x, d, 0)
      BY <1>8, <3>2, AddJmpFrom
    <3> QED BY <3>1, <3>3
  <2>6. Redirects(p.at, tbs[d].tc_ptr)
    BY <2>2, <2>4
  <2> QED BY <1>4, <1>5, <1>7, <1>9, <2>5, <2>6, PatchToBlock
<1>10. CASE /\ ~ Translated(d)
            /\ tbs' = BlockForExit(ts, p.to, p.func_addr)
            /\ stubs' = Append(stubs, [tb |-> p.tb, patch_num |-> n, to |-> p.to])
            /\ code' = [code EXCEPT ![p.at].dest = - Len(stubs')]
            /\ patch_array' = Tail(patch_array)
            /\ UNCHANGED <<code_gen_ptr, sieve_hashtable, ret_hash_table, cur_tb, pc_ptr, num_insns, mode>>
  <2>1. stubs \in Seq(Stubs) /\ Len(stubs) \in Nat
    BY <1>6, Domains DEF CacheTypes
  <2>2. Len(stubs') = Len(stubs) + 1
    BY <1>10, <2>1
  <2>3. Redirects(p.at, - (Len(stubs) + 1))
    <3>1. PICK at : at = p.at
      OBVIOUS
    <3>2. PICK v : v = - (Len(stubs) + 1)
      OBVIOUS
    <3>3. at \in DOMAIN code /\ IsJump(at) /\ code' = [code EXCEPT ![at].dest = v] /\ v \in Int
      BY <1>8, <1>10, <2>1, <2>2, <3>1, <3>2
    <3>4. Redirects(at, v)
      BY <1>6, <3>3, SetJump
    <3> QED BY <3>1, <3>2, <3>4
  <2>4. ExitBlock(ts, p.to)
    <3>1. PICK f \in Nat : f = p.func_addr
      BY <1>8
    <3>2. PICK q \in Nat : q = p.to
      BY <1>8
    <3>3. tbs' = BlockForExit(ts, q, f)
      BY <1>10, <3>1, <3>2
    <3>4. ExitBlock(ts, q)
      BY <1>6, <1>7, <3>3, MakeExitBlock
    <3> QED BY <3>2, <3>4
  <2>5. /\ ~ Translated(tb_find_fast(p.to)) /\ mode' = "patch"
        /\ stubs' = Append(stubs, [tb |-> p.tb, patch_num |-> 0, to |-> p.to])
    BY <1>4, <1>5, <1>7, <1>10
  <2>6. UNCHANGED <<prog, code_gen_ptr, sieve_hashtable, ret_hash_table, cur_tb, pc_ptr, num_insns>>
    BY <1>10
  <2>7. patch_array' = Tail(patch_array)
    BY <1>10
  <2> QED BY <1>5, <1>7, <2>3, <2>4, <2>5, <2>6, <2>7, PatchToStub
<1>11. CASE tb_flush
  <2>1. mode' = "aborted" /\ UNCHANGED <<prog, cacheVars, transVars, hostVars, envVars, execVars>>
    BY <1>11 DEF tb_flush
  <2> QED BY <1>5, <2>1, AbortStep
<1> QED BY <1>1, <1>2, <1>3, <1>4, <1>9, <1>10, <1>11 DEF lazy_patch

\* The end of gen_target_code keeps the invariant.
LEMMA EndStep ==
  ASSUME IInv, EndTranslation, UNCHANGED <<prog, hostVars, envVars, execVars>>
  PROVE  IInv'
<1>1. /\ mode = "patch" /\ patch_array = <<>> /\ code_gen_ptr' = code_ptr /\ mode' \in {"link", "aborted"}
      /\ UNCHANGED <<tbs, code, stubs, sieve_hashtable, ret_hash_table, cur_tb, pc_ptr, num_insns, patch_array>>
  BY DEF EndTranslation, transVars
<1>2. code_ptr \in Nat
  BY Domains DEF IInv, CacheInv, code_ptr
<1>3. KeepsCode /\ KeepsSlots /\ KeepsBlocks /\ KeepsStubs
  BY <1>1 DEF KeepsCode, KeepsSlots, KeepsBlocks, KeepsStubs
<1> USE DEF IInv, CacheInv, execVars
<1>4. CacheTypes' /\ OneBlockPerPC'
  BY <1>1, <1>2 DEF CacheTypes, OneBlockPerPC
<1>5. OpsOK'
  <2>1. \A a \in DOMAIN code : OpOK(a)'
    BY <1>1, <1>3, OldOps DEF Unfinished
  <2> QED BY <1>1, <2>1 DEF OpsOK
<1>6. BlocksOK'
  BY <1>1 DEF BlocksOK, At, code_ptr
<1>7. OpenBlockOK' /\ AskedOK'
  BY <1>1 DEF OpenBlockOK, AskedOK, Emitting, code_ptr, envVars
<1>8. PatchesOK'
  BY <1>1 DEF PatchesOK, PatchOK, IsJump, Emitting, Stable
<1>9. JumpsOK'
  BY <1>1 DEF JumpsOK, IsJump, Resolved, Translated
<1>10. StubsOK'
  BY <1>1 DEF StubsOK, StubOK, JumpAt, LinkAt, IsJump
<1>11. RingsOK'
  BY <1>1, ZenonT(30) DEF RingsOK, RingOK, JumpAt, LinkAt, IsJump
<1>12. ExitsOK'
  BY <1>1 DEF ExitsOK, Unused, Emitting
<1>13. IndsOK'
  BY <1>1 DEF IndsOK, IndOK, Emitting
<1>14. SieveOK'
  BY <1>1, <1>3, OldNodes
<1>15. HostInv'
  BY <1>1, <1>3, <1>4, HostKept
<1> QED BY <1>4, <1>5, <1>6, <1>7, <1>8, <1>9, <1>10, <1>11, <1>12, <1>13, <1>14, <1>15

\* trans_next keeps the invariant.
LEMMA TransNextStep ==
  ASSUME IInv, trans_next, UNCHANGED <<prog, hostVars, envVars, execVars>>
  PROVE  IInv'
<1>1. PICK t : t = tb_find_fast(pc_ptr)
  OBVIOUS
<1>2. PICK n : n = tbs[cur_tb].patch_num
  OBVIOUS
<1>3. mode = "trans_next" /\ CacheTypes /\ pc_ptr \in Nat
  BY DEF trans_next, IInv, CacheInv, CacheTypes
<1>4. cur_tb \in DOMAIN tbs /\ tbs[cur_tb].func_addr \in Nat
  <2>1. cur_tb \in DOMAIN tbs
    BY <1>3, Domains DEF IInv, CacheInv, AskedOK, CacheTypes, NULL
  <2> QED BY <1>3, <2>1, Domains DEF TBs
<1>5. CASE /\ Translated(t)
           /\ code' = Append(code, OpJmp(pc_ptr, pc_ptr, tbs[t].tc_ptr))
           /\ tbs' = tb_add_jmp_from(SetJmpOffset(tbs, cur_tb, n, code_ptr), cur_tb, t, n)
           /\ UNCHANGED <<cur_tb, pc_ptr, num_insns, patch_array, code_gen_ptr, stubs,
                          sieve_hashtable, ret_hash_table>>
           /\ EndOfSuperblock
  BY <1>1, <1>2, <1>3, <1>5, CloseStep DEF EndOfSuperblock
<1>6. CASE /\ ~ Translated(t)
           /\ LET new == IF t = NULL THEN Len(tbs) + 1 ELSE t
                  all == IF t = NULL THEN Append(tbs, NewTB(pc_ptr, tbs[cur_tb].func_addr)) ELSE tbs
              IN  tbs' = [all EXCEPT ![new].tc_ptr = code_ptr] /\ cur_tb' = new
           /\ UNCHANGED <<pc_ptr, num_insns, patch_array, code, code_gen_ptr, stubs,
                          sieve_hashtable, ret_hash_table>>
           /\ Continue
  <2>1. PICK q \in Nat : q = pc_ptr
    BY <1>3
  <2>2. num_insns \in Nat /\ stb_count \in Nat
    BY <1>3 DEF CacheTypes
  <2>3. /\ tb' = tb /\ stb_count' = stb_count /\ mode' = "limit"
        /\ UNCHANGED <<prog, code, code_gen_ptr, stubs, sieve_hashtable, ret_hash_table, patch_array, pc_ptr, num_insns>>
    BY <1>6 DEF execVars, Continue
  <2>4. CASE t = NULL
    <3>1. \A u \in DOMAIN tbs : tbs[u].pc # q
      BY <1>1, <1>3, <2>1, <2>4, FindFast
    <3>2. PICK f \in Nat : f = tbs[cur_tb].func_addr
      BY <1>4
    <3>3. /\ tbs' = [Append(tbs, NewTB(q, f)) EXCEPT ![Len(tbs) + 1].tc_ptr = code_ptr]
          /\ cur_tb' = Len(tbs) + 1
      BY <1>6, <2>1, <2>4, <3>2
    <3>4. PICK new : new = Len(tbs) + 1
      OBVIOUS
    <3>5. Opens(new, q)
      BY <2>1, <2>2, <2>3, <3>1, <3>3, <3>4 DEF Opens
    <3> QED BY <1>3, <2>1, <2>3, <3>5, OpenStep
  <2>5. CASE t # NULL
    <3>1. t \in DOMAIN tbs /\ tbs[t].pc = q /\ tbs[t].tc_ptr = NOT_TRANS_YET
      BY <1>1, <1>3, <1>6, <2>1, <2>5, FindFast DEF Translated
    <3>2. tbs' = [tbs EXCEPT ![t].tc_ptr = code_ptr] /\ cur_tb' = t
      BY <1>6, <2>5
    <3>3. Opens(t, q)
      BY <2>1, <2>2, <2>3, <3>1, <3>2 DEF Opens
    <3> QED BY <1>3, <2>1, <2>3, <3>3, OpenStep
  <2> QED BY <2>4, <2>5
<1>7. CASE tb_flush
  <2>1. mode' = "aborted" /\ UNCHANGED <<prog, cacheVars, transVars, hostVars, envVars, execVars>>
    BY <1>7 DEF tb_flush
  <2> QED BY <1>3, <2>1, AbortStep
<1> QED BY <1>1, <1>2, <1>5, <1>6, <1>7 DEF trans_next

\* The end of the loop body keeps the invariant.
LEMMA CheckLimitStep ==
  ASSUME IInv, ShortBlocks, CheckLimit, UNCHANGED <<prog, hostVars, envVars, execVars>>
  PROVE  IInv'
<1>1. CASE /\ mode = "limit" /\ ~ LimitReached /\ num_insns' = num_insns + 1 /\ mode' = "emit"
           /\ UNCHANGED <<cacheVars, cur_tb, pc_ptr, patch_array>>
  BY <1>1, ContinueStep
<1>2. CASE /\ mode = "limit"
           /\ note_patch(CloseEmptyBlock, code_ptr, pc_ptr, cur_tb, tbs[cur_tb].func_addr)
           /\ code' = Append(code, OpJmp(pc_ptr, pc_ptr, UNPATCHED))
           /\ UNCHANGED <<cur_tb, pc_ptr, num_insns, code_gen_ptr, stubs, sieve_hashtable,
                          ret_hash_table>>
           /\ EndOfSuperblock
  BY <1>2, LimitStep DEF EndOfSuperblock
<1> QED BY <1>1, <1>2 DEF CheckLimit

\* gen_target_code keeps the invariant.
LEMMA TranslateStep ==
  ASSUME IInv, ShortBlocks, gen_target_code, UNCHANGED <<prog, hostVars, envVars, execVars>>
  PROVE  IInv'
<1>1. CASE FetchFault
  <2>1. /\ mode = "emit" /\ mode' = "faulted"
        /\ UNCHANGED <<prog, cacheVars, transVars, hostVars, envVars, execVars>>
    BY <1>1 DEF FetchFault
  <2> QED BY <2>1, AbortStep
<1>2. CASE emit_normal \/ emit_int
  BY <1>2, EmitNormalStep
<1>3. CASE emit_jcond
  BY <1>3, EmitJcondStep
<1>4. CASE emit_other_jcond
  BY <1>4, EmitLoopStep
<1>5. CASE emit_call_disp
  BY <1>5, EmitCallStep
<1>6. CASE emit_call_near_mem
  BY <1>6, EmitICallStep
<1>7. CASE emit_jmp_near_mem
  BY <1>7, EmitIJmpStep
<1>8. CASE emit_ret
  BY <1>8, EmitRetStep
<1>9. CASE emit_jmp
  BY <1>9, EmitJmpStep
<1>10. CASE trans_next
  BY <1>10, TransNextStep
<1>11. CASE CheckLimit
  BY <1>11, CheckLimitStep
<1>12. CASE lazy_patch
  BY <1>12, LazyPatchStep
<1>13. CASE EndTranslation
  BY <1>13, EndStep
<1> QED BY <1>1, <1>2, <1>3, <1>4, <1>5, <1>6, <1>7, <1>8, <1>9, <1>10, <1>11, <1>12, <1>13
       DEF gen_target_code
=============================================================================
