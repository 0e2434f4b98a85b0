---------------------------- MODULE CpuExecProofs ----------------------------
(***************************************************************************)
(* The invariant of the whole translator.  Translation is treated in        *)
(* TranslateProofs and running the code in CodeCacheProofs; here are the    *)
(* steps of cpu_exec, the induction, and the properties that follow.  Then  *)
(* the translator implements the guest's processor: every step either       *)
(* leaves the guest state that GuestPC and GuestStack read off the machine  *)
(* alone, or is the step of the instruction at GuestPC.                    *)
(***************************************************************************)
EXTENDS TranslateProofs

\* The state that codecache_prologue_init leaves satisfies the invariant.
LEMMA InitInv == ASSUME Init PROVE IInv
<1> USE DEF Init
<1> DEFINE b == NewTB(1, 1)
<1>1. /\ b \in TBs /\ b.pc = 1 /\ b.tc_ptr = NOT_TRANS_YET /\ b.patch_num = 0 /\ b.jmp_ind_index = 0
      /\ \A i \in 0 .. TB_FROM_MAX - 1 : b.jmp_from[i].tb = NULL
  BY NewBlock
<1>2. tbs = <<b>>
  OBVIOUS
<1> HIDE DEF b
<1>3. tbs \in Seq(TBs) /\ DOMAIN tbs = {1} /\ Len(tbs) = 1 /\ tbs[1] = b
  BY <1>1, <1>2
<1>4. /\ code \in Seq(HostOps) /\ DOMAIN code = {} /\ Len(code) = 0
      /\ stubs \in Seq(Stubs) /\ DOMAIN stubs = {} /\ Len(stubs) = 0
      /\ patch_array \in Seq(Patches) /\ DOMAIN patch_array = {} /\ Len(patch_array) = 0
      /\ stack \in Seq(Int) /\ DOMAIN stack = {}
  OBVIOUS
<1>5. /\ sieve_hashtable \in [0 .. SIEVE_SIZE - 1 -> Seq([pc : Nat, dest : Int])]
      /\ DOMAIN sieve_hashtable = 0 .. SIEVE_SIZE - 1
      /\ \A s \in DOMAIN sieve_hashtable : DOMAIN sieve_hashtable[s] = {}
      /\ ret_hash_table \in [0 .. RET_CACHE_SIZE - 1 -> Nat]
      /\ \A e \in DOMAIN ret_hash_table : ret_hash_table[e] = 0
  OBVIOUS
<1>6. CacheTypes
  BY <1>3, <1>4, <1>5 DEF CacheTypes, NULL
<1>7. OneBlockPerPC /\ OpsOK /\ BlocksOK /\ OpenBlockOK
  BY <1>1, <1>3, <1>4 DEF OneBlockPerPC, OpsOK, BlocksOK, OpenBlockOK, Emitting
<1>8. AskedOK
  BY <1>4 DEF AskedOK, code_ptr
<1>9. PatchesOK /\ JumpsOK
  BY <1>1, <1>3, <1>4, SizeAssumption DEF PatchesOK, JumpsOK, Emitting
<1>10. StubsOK /\ RingsOK /\ ExitsOK
  <2>1. StubsOK /\ RingsOK
    BY <1>1, <1>3, <1>4 DEF StubsOK, RingsOK, RingOK
  <2>2. \A n : Unused(1, n)
    <3>1. \A n : \A u \in DOMAIN tbs : \A i \in 0 .. TB_FROM_MAX - 1 : tbs[u].jmp_from[i] # [tb |-> 1, n |-> n]
      BY <1>1, <1>3 DEF NULL
    <3> QED BY <1>4, <3>1 DEF Unused
  <2> QED BY <1>3, <1>4, <2>1, <2>2 DEF ExitsOK, Emitting
<1>11. IndsOK /\ SieveOK
  BY <1>1, <1>3, <1>4, <1>5 DEF IndsOK, SieveOK, Emitting
<1>12. HostTypes
  BY <1>3, <1>4, <1>5, SizeAssumption DEF HostTypes, NULL
<1>13. ReturnCacheOK /\ MachineOK /\ HostPointerOK
  BY <1>4, <1>5 DEF ReturnCacheOK, MachineOK, HostPointerOK, InSieve, InCodeCache
<1>14. RequestOK
  BY <1>1, <1>3 DEF RequestOK, NULL
<1> QED BY <1>6, <1>7, <1>8, <1>9, <1>10, <1>11, <1>12, <1>13, <1>14 DEF IInv, CacheInv, HostInv

(***************************************************************************)
(* The dispatcher                                                          *)
(***************************************************************************)

\* The dispatcher is only asked when no superblock is being translated.
LEMMA AtDispatch ==
  ASSUME IInv, mode = "dispatch"
  PROVE  /\ CacheTypes /\ code_gen_ptr = code_ptr /\ patch_array = <<>>
         /\ eip \in Nat /\ FuncAddrOfNext \in Nat
<1> USE DEF IInv, CacheInv, HostInv
<1>1. code_gen_ptr = code_ptr /\ patch_array = <<>> /\ eip \in Nat
  BY DEF AskedOK, PatchesOK, Stable, HostTypes
<1>2. FuncAddrOfNext \in Nat
  <2>1. ret_tb # NULL => tbs[ret_tb].func_addr \in Nat
    BY Domains DEF HostTypes, NULL, TBs
  <2> QED BY <1>1, <2>1 DEF FuncAddrOfNext, HostTypes, prev_tb, NOT_IND, IND_TYPE_CALL, IND_TYPE_JMP
<1> QED BY <1>1, <1>2

\* A block that the dispatcher finds translated has code.
LEMMA FoundStep ==
  ASSUME IInv, mode = "dispatch", NEW t \in DOMAIN tbs, tbs[t].pc = eip, tbs[t].tc_ptr # NOT_TRANS_YET,
         t # NULL, tb' = t, mode' = "link",
         UNCHANGED <<prog, cacheVars, transVars, hostVars, envVars, stb_count>>
  PROVE  IInv'
<1>1. KeepsCode /\ KeepsSlots /\ KeepsBlocks /\ KeepsStubs
  BY DEF KeepsCode, KeepsSlots, KeepsBlocks, KeepsStubs, cacheVars
<1>2. DOMAIN tbs = 1 .. Len(tbs)
  BY Domains DEF IInv, CacheInv
<1> USE DEF IInv, CacheInv, cacheVars, transVars
<1>3. CacheTypes' /\ OneBlockPerPC'
  BY <1>2 DEF CacheTypes, OneBlockPerPC
<1>4. OpsOK'
  <2>1. \A a \in DOMAIN code : OpOK(a)'
    BY <1>1, OldOps DEF Unfinished
  <2> QED BY <2>1 DEF OpsOK
<1>5. BlocksOK'
  BY DEF BlocksOK, At, code_ptr
<1>6. tbs[t].tc_ptr \in DOMAIN code
  BY DEF BlocksOK, At
<1>7. OpenBlockOK' /\ AskedOK'
  BY <1>6 DEF OpenBlockOK, AskedOK, Emitting, code_ptr, envVars
<1>8. PatchesOK'
  BY DEF PatchesOK, PatchOK, IsJump, Emitting, Stable
<1>9. JumpsOK'
  BY DEF JumpsOK, IsJump, Resolved, Translated
<1>10. StubsOK'
  BY DEF StubsOK, StubOK, JumpAt, LinkAt, IsJump
<1>11. RingsOK'
  BY ZenonT(30) DEF RingsOK, RingOK, JumpAt, LinkAt, IsJump
<1>12. ExitsOK'
  BY DEF ExitsOK, Unused, Emitting
<1>13. IndsOK'
  BY DEF IndsOK, IndOK, Emitting
<1>14. SieveOK'
  BY <1>1, OldNodes
<1>15. HostInv'
  BY <1>1, <1>3, HostKept
<1> QED BY <1>3, <1>4, <1>5, <1>7, <1>8, <1>9, <1>10, <1>11, <1>12, <1>13, <1>14, <1>15

\* get_next_tb keeps the invariant.
LEMMA GetNextTbStep ==
  ASSUME IInv, get_next_tb
  PROVE  IInv'
<1>1. mode = "dispatch" /\ UNCHANGED <<prog, hostVars, envVars>>
  BY DEF get_next_tb
<1>2. PICK q \in Nat : q = eip
  BY <1>1, AtDispatch
<1>3. PICK t : t = tb_find_fast(q)
  OBVIOUS
<1>4. /\ t # NULL => t \in DOMAIN tbs /\ tbs[t].pc = q
      /\ t = NULL => \A u \in DOMAIN tbs : tbs[u].pc # q
  BY <1>1, <1>3, AtDispatch, FindFast
<1>5. PICK f \in Nat : f = FuncAddrOfNext
  BY <1>1, AtDispatch
<1>6. code_gen_ptr = code_ptr /\ patch_array = <<>> /\ stb_count \in Nat
  BY <1>1, AtDispatch DEF CacheTypes
<1>7. ASSUME NEW ts, NEW new, cpu_gen_code(ts, new), ts[new].pc = q
      PROVE  /\ tb' = new /\ tbs' = [ts EXCEPT ![new].tc_ptr = code_ptr] /\ cur_tb' = new /\ pc_ptr' = q
             /\ mode' \in {"emit", "aborted"} /\ num_insns' \in Nat /\ stb_count' \in Nat
             /\ UNCHANGED <<prog, code, code_gen_ptr, stubs, sieve_hashtable, ret_hash_table, patch_array>>
  BY <1>1, <1>6, <1>7 DEF cpu_gen_code
<1>8. CASE t = NULL /\ cpu_gen_code(Append(tbs, NewTB(eip, FuncAddrOfNext)), Len(tbs) + 1)
  <2>1. PICK new : new = Len(tbs) + 1
    OBVIOUS
  <2>2. PICK ts : ts = Append(tbs, NewTB(q, f))
    OBVIOUS
  <2>3. cpu_gen_code(ts, new)
    BY <1>2, <1>5, <1>8, <2>1, <2>2
  <2>4. ts[new].pc = q
    <3>1. NewTB(q, f) \in TBs /\ NewTB(q, f).pc = q
      BY NewBlock
    <3>2. tbs \in Seq(TBs)
      BY DEF IInv, CacheInv, CacheTypes
    <3>3. ts[new] = NewTB(q, f)
      BY <2>1, <2>2, <3>1, <3>2, AddBlock
    <3> QED BY <3>1, <3>3
  <2>5. Opens(new, q)
    BY <1>1, <1>4, <1>7, <1>8, <2>1, <2>2, <2>3, <2>4 DEF Opens
  <2> QED BY <1>1, <1>2, <1>7, <2>3, <2>4, <2>5, OpenStep
<1>9. CASE tb_flush /\ UNCHANGED execVars
  <2>1. mode' = "aborted" /\ UNCHANGED <<prog, cacheVars, transVars, hostVars, envVars, execVars>>
    BY <1>1, <1>9 DEF tb_flush
  <2> QED BY <1>1, <2>1, AbortStep
<1>10. CASE t # NULL /\ ~ Translated(t) /\ cpu_gen_code(tbs, t)
  <2>1. tbs[t].tc_ptr = NOT_TRANS_YET
    BY <1>10 DEF Translated
  <2>2. \A ts : ts = tbs => tbs' = [ts EXCEPT ![t].tc_ptr = code_ptr]
    BY <1>4, <1>7, <1>10
  <2>3. /\ tb' = t /\ cur_tb' = t /\ pc_ptr' = q /\ num_insns' \in Nat /\ stb_count' \in Nat
        /\ mode' \in {"emit", "aborted"}
        /\ UNCHANGED <<prog, code, code_gen_ptr, stubs, sieve_hashtable, ret_hash_table, patch_array>>
    BY <1>4, <1>7, <1>10
  <2>4. Opens(t, q)
    BY <1>1, <1>4, <1>10, <2>1, <2>2, <2>3 DEF Opens
  <2> QED BY <1>1, <1>2, <2>3, <2>4, OpenStep
<1>11. CASE Translated(t) /\ tb' = t /\ mode' = "link" /\ UNCHANGED <<cacheVars, transVars, stb_count>>
  BY <1>1, <1>2, <1>4, <1>11, FoundStep DEF Translated
<1> QED BY <1>2, <1>3, <1>8, <1>9, <1>10, <1>11 DEF get_next_tb
(***************************************************************************)
(* Entering the code cache                                                 *)
(***************************************************************************)

\* What is known when the dispatcher has its block.
LEMMA AtLink ==
  ASSUME IInv, mode = "link"
  PROVE  /\ CacheTypes /\ patch_array = <<>> /\ code_gen_ptr = code_ptr
         /\ tb \in DOMAIN tbs /\ tbs[tb].pc = eip /\ At(tbs[tb].tc_ptr, eip) /\ tbs[tb].tc_ptr # NOT_TRANS_YET
         /\ tbs[tb].tc_ptr \in DOMAIN code /\ tbs[tb].tc_ptr \in Nat \ {0} /\ eip \in Nat
         /\ \A t \in DOMAIN tbs : tbs[t].tc_ptr # NOT_TRANS_YET => At(tbs[t].tc_ptr, tbs[t].pc)
         /\ \A a \in DOMAIN code : IsJump(a) => Resolved(a)
<1> USE DEF IInv, CacheInv, HostInv
<1>1. patch_array = <<>> /\ code_gen_ptr = code_ptr /\ tb # NULL /\ tbs[tb].pc = eip
      /\ tbs[tb].tc_ptr # NOT_TRANS_YET /\ tbs[tb].tc_ptr \in DOMAIN code
  BY DEF PatchesOK, Stable, AskedOK
<1>2. tb \in DOMAIN tbs /\ tbs[tb].tc_ptr \in Nat \ {0} /\ eip \in Nat
  BY <1>1, Domains DEF CacheTypes, NULL, HostTypes
<1>3. \A t \in DOMAIN tbs : tbs[t].tc_ptr # NOT_TRANS_YET => At(tbs[t].tc_ptr, tbs[t].pc)
  BY DEF BlocksOK
<1>4. \A a \in DOMAIN code : IsJump(a) => Resolved(a)
  BY <1>1 DEF JumpsOK
<1> QED BY <1>1, <1>2, <1>3, <1>4

\* The machine enters the code of the block that was asked for.
LEMMA EnterStep ==
  ASSUME IInv, mode = "link", EnterCodeCache, CacheTypes', KeepsCode, Len(code') = Len(code)
  PROVE  HostInv'
<1> USE DEF EnterCodeCache
<1>1. /\ tbs[tb].tc_ptr \in DOMAIN code /\ tbs[tb].tc_ptr \in Nat \ {0}
      /\ code[tbs[tb].tc_ptr].op \notin {"ind", "rc_cmp"}
  BY AtLink DEF At
<1>2. hp' = tbs[tb].tc_ptr /\ code'[hp'].op \notin {"ind", "rc_cmp"} /\ hp' \in 1 .. Len(code) /\ Len(stubs') \in Nat
  BY <1>1, Domains DEF KeepsCode, IInv, CacheInv
<1>3. HostTypes'
  <2>1. Len(tbs') \in Nat
    BY DEF CacheTypes
  <2> QED BY <1>2, <2>1, SMTT(30) DEF IInv, HostInv, HostTypes, NULL
<1>4. ReturnCacheOK'
  BY Persists DEF IInv, HostInv, ReturnCacheOK
<1>5. MachineOK'
  BY <1>2 DEF IInv, HostInv, MachineOK, InSieve, InCodeCache, sieve_stub
<1>6. HostPointerOK' /\ RequestOK'
  BY <1>2 DEF HostPointerOK, RequestOK, Dispatching
<1> QED BY <1>3, <1>4, <1>5, <1>6 DEF HostInv

\* Blocks and code stay as they are when only the sieve changes.
LEMMA SameCache ==
  ASSUME IInv, mode = "link", mode' \in {"exec", "aborted"},
         UNCHANGED <<prog, tbs, code, code_gen_ptr, stubs, transVars, execVars>>,
         sieve_hashtable' \in [0 .. SIEVE_SIZE - 1 -> Seq([pc : Nat, dest : Int])], SieveOK'
  PROVE  CacheInv' /\ KeepsCode
<1>1. KeepsCode /\ KeepsSlots
  BY DEF KeepsCode, KeepsSlots
<1> USE DEF IInv, CacheInv, transVars, execVars
<1>3. CacheTypes' /\ OneBlockPerPC'
  BY DEF CacheTypes, OneBlockPerPC
<1>4. OpsOK'
  <2>1. \A a \in DOMAIN code : OpOK(a)'
    BY <1>1, OldOps DEF Unfinished
  <2> QED BY <2>1 DEF OpsOK
<1>5. BlocksOK'
  BY DEF BlocksOK, At, code_ptr
<1>7. OpenBlockOK' /\ AskedOK'
  BY DEF OpenBlockOK, AskedOK, Emitting, code_ptr
<1>8. PatchesOK'
  BY DEF PatchesOK, PatchOK, IsJump, Emitting, Stable
<1>9. JumpsOK'
  BY DEF JumpsOK, IsJump, Resolved, Translated
<1>10. StubsOK'
  BY DEF StubsOK, StubOK, JumpAt, LinkAt, IsJump
<1>11. RingsOK'
  BY ZenonT(30) DEF RingsOK, RingOK, JumpAt, LinkAt, IsJump
<1>12. ExitsOK'
  BY DEF ExitsOK, Unused, Emitting
<1>13. IndsOK'
  BY DEF IndsOK, IndOK, Emitting
<1> QED BY <1>1, <1>3, <1>4, <1>5, <1>7, <1>8, <1>9, <1>10, <1>11, <1>12, <1>13

(***************************************************************************)
(* The sieve                                                               *)
(***************************************************************************)

\* A node in front of its bucket's chain keeps the sieve right if the chain has
\* no node for its pc.
LEMMA NodeInFront ==
  ASSUME IInv, NEW q \in Nat, NEW d \in Int, At(d, q), UNCHANGED code,
         \A i \in DOMAIN sieve_hashtable[SIEVE_HASH(q)] : sieve_hashtable[SIEVE_HASH(q)][i].pc # q,
         sieve_hashtable' = [sieve_hashtable EXCEPT ![SIEVE_HASH(q)] = <<[pc |-> q, dest |-> d]>> \o @]
  PROVE  /\ sieve_hashtable' \in [0 .. SIEVE_SIZE - 1 -> Seq([pc : Nat, dest : Int])]
         /\ SieveOK'
<1> DEFINE Nodes == [pc : Nat, dest : Int]
<1>1. PICK h : h = SIEVE_HASH(q)
  OBVIOUS
<1>2. h \in 0 .. SIEVE_SIZE - 1
  <2>1. SIEVE_SIZE \in Nat \ {0}
    BY SizeAssumption
  <2> QED BY <1>1, <2>1 DEF SIEVE_HASH
<1>3. PICK old : old = sieve_hashtable[h]
  OBVIOUS
<1>4. PICK nd \in Nodes : nd = [pc |-> q, dest |-> d]
  OBVIOUS
<1>5. PICK new : new = <<nd>> \o old
  OBVIOUS
<1>6. sieve_hashtable \in [0 .. SIEVE_SIZE - 1 -> Seq(Nodes)]
  BY DEF IInv, CacheInv, CacheTypes
<1>7. sieve_hashtable' = [sieve_hashtable EXCEPT ![h] = new]
  BY <1>1, <1>2, <1>3, <1>4, <1>5, <1>6
<1>8. old \in Seq(Nodes) /\ Len(old) \in Nat /\ DOMAIN old = 1 .. Len(old)
  <2>1. old \in Seq(Nodes)
    BY <1>2, <1>3, <1>6
  <2> QED BY <2>1, LenProperties
<1>9. <<nd>> \in Seq(Nodes) /\ Len(<<nd>>) = 1 /\ <<nd>>[1] = nd
  OBVIOUS
<1>10. /\ new \in Seq(Nodes) /\ Len(new) = Len(old) + 1
       /\ \A i \in 1 .. Len(old) + 1 : new[i] = IF i <= 1 THEN nd ELSE old[i - 1]
  <2> HIDE DEF Nodes
  <2>1. /\ new \in Seq(Nodes) /\ Len(new) = 1 + Len(old)
        /\ \A i \in 1 .. 1 + Len(old) : new[i] = IF i <= 1 THEN <<nd>>[i] ELSE old[i - 1]
    BY <1>5, <1>8, <1>9, ConcatProperties
  <2> QED BY <1>8, <1>9, <2>1
<1>11. DOMAIN new = 1 .. Len(old) + 1 /\ new[1] = nd /\ \A i \in 2 .. Len(old) + 1 : new[i] = old[i - 1] /\ i - 1 \in DOMAIN old
  <2>1. DOMAIN new = 1 .. Len(old) + 1
    BY <1>10, LenProperties
  <2> QED BY <1>8, <1>10, <2>1
<1>12. nd.pc = q /\ nd.dest = d
  BY <1>4
<1>13. /\ \A i \in DOMAIN old : SIEVE_HASH(old[i].pc) = h /\ At(old[i].dest, old[i].pc) /\ old[i].pc # q
       /\ \A i, j \in DOMAIN old : old[i].pc = old[j].pc => i = j
  BY <1>1, <1>2, <1>3, <1>6 DEF IInv, CacheInv, SieveOK
<1>14. \A i \in DOMAIN new : SIEVE_HASH(new[i].pc) = h /\ At(new[i].dest, new[i].pc)
  <2> SUFFICES ASSUME NEW i \in DOMAIN new PROVE SIEVE_HASH(new[i].pc) = h /\ At(new[i].dest, new[i].pc)
    OBVIOUS
  <2>1. CASE i = 1
    BY <1>1, <1>11, <1>12, <2>1
  <2>2. CASE i # 1
    <3>1. i \in 2 .. Len(old) + 1
      BY <1>8, <1>11, <2>2
    <3>2. new[i] = old[i - 1] /\ i - 1 \in DOMAIN old
      BY <1>11, <3>1
    <3> QED BY <1>13, <3>2
  <2> QED BY <2>1, <2>2
<1>15. \A i, j \in DOMAIN new : new[i].pc = new[j].pc => i = j
  <2> SUFFICES ASSUME NEW i \in DOMAIN new, NEW j \in DOMAIN new, new[i].pc = new[j].pc PROVE i = j
    OBVIOUS
  <2>1. i \in Int /\ j \in Int /\ (i = 1 \/ i \in 2 .. Len(old) + 1) /\ (j = 1 \/ j \in 2 .. Len(old) + 1)
    BY <1>8, <1>11
  <2>2. i \in 2 .. Len(old) + 1 => new[i] = old[i - 1] /\ i - 1 \in DOMAIN old
    BY <1>11
  <2>3. j \in 2 .. Len(old) + 1 => new[j] = old[j - 1] /\ j - 1 \in DOMAIN old
    BY <1>11
  <2>4. i \in 2 .. Len(old) + 1 => new[i].pc # q
    BY <1>13, <2>2
  <2>5. j \in 2 .. Len(old) + 1 => new[j].pc # q
    BY <1>13, <2>3
  <2>6. i \in 2 .. Len(old) + 1 /\ j \in 2 .. Len(old) + 1 => i - 1 = j - 1
    BY <1>13, <2>2, <2>3
  <2>7. new[1].pc = q
    BY <1>11, <1>12
  <2>8. i = 1 => j = 1
    BY <2>1, <2>5, <2>7
  <2>9. j = 1 => i = 1
    BY <2>1, <2>4, <2>7
  <2> QED BY <2>1, <2>6, <2>8, <2>9
<1>16. sieve_hashtable' \in [0 .. SIEVE_SIZE - 1 -> Seq(Nodes)]
  BY <1>6, <1>7, <1>10
<1>17. SieveOK'
  <2>1. ASSUME NEW b \in 0 .. SIEVE_SIZE - 1, NEW c, c = sieve_hashtable'[b]
        PROVE  /\ \A i \in DOMAIN c : SIEVE_HASH(c[i].pc) = b /\ At(c[i].dest, c[i].pc)
               /\ \A i, j \in DOMAIN c : c[i].pc = c[j].pc => i = j
    <3>1. CASE b = h
      <4>1. c = new
        BY <1>2, <1>6, <1>7, <2>1, <3>1
      <4> QED BY <1>14, <1>15, <3>1, <4>1
    <3>2. CASE b # h
      <4>1. c = sieve_hashtable[b]
        BY <1>6, <1>7, <2>1, <3>2
      <4> QED BY <1>6, <4>1 DEF IInv, CacheInv, SieveOK
    <3> QED BY <3>1, <3>2
  <2>2. DOMAIN sieve_hashtable' = 0 .. SIEVE_SIZE - 1
    BY <1>16
  <2>3. \A b \in DOMAIN sieve_hashtable' :
           /\ \A i \in DOMAIN sieve_hashtable'[b] :
                 /\ SIEVE_HASH(sieve_hashtable'[b][i].pc) = b
                 /\ At(sieve_hashtable'[b][i].dest, sieve_hashtable'[b][i].pc)
           /\ \A i, j \in DOMAIN sieve_hashtable'[b] :
                 sieve_hashtable'[b][i].pc = sieve_hashtable'[b][j].pc => i = j
    BY <2>1, <2>2
  <2>4. code' = code
    OBVIOUS
  <2> HIDE DEF Nodes
  <2> QED BY ONLY <2>3, <2>4 DEF SieveOK, At, SIEVE_HASH
<1> QED BY <1>16, <1>17

\* add_sieve_entry keeps the invariant.
LEMMA AddSieveEntryStep ==
  ASSUME IInv, add_sieve_entry
  PROVE  IInv'
<1>1. mode = "link" /\ ind_type # NOT_IND /\ ret_tb = NULL
  BY DEF add_sieve_entry, prev_tb
<1>2. /\ tb \in DOMAIN tbs /\ tbs[tb].pc = eip /\ At(tbs[tb].tc_ptr, eip) /\ eip \in Nat
      /\ tbs[tb].tc_ptr \in Nat /\ Translated(tb)
  <2>1. tb # NULL
    BY <1>1, AtLink, Domains DEF NULL
  <2> QED BY <1>1, <2>1, AtLink DEF Translated
<1>3. /\ UNCHANGED <<prog, tbs, code, code_gen_ptr, stubs, transVars, execVars, ret_hash_table>>
      /\ mode' \in {"exec", "aborted"} /\ sieve_hashtable' = SieveWith(tb)
  BY <1>2 DEF add_sieve_entry, EnterCodeCache
<1>4. PICK q \in Nat : q = eip
  BY <1>2
<1>5. PICK d \in Int : d = tbs[tb].tc_ptr
  BY <1>2
<1>6. sieve_hashtable' = [sieve_hashtable EXCEPT ![SIEVE_HASH(q)] = <<[pc |-> q, dest |-> d]>> \o @]
  BY <1>2, <1>3, <1>4, <1>5 DEF SieveWith
<1>7. \A i \in DOMAIN sieve_hashtable[SIEVE_HASH(q)] : sieve_hashtable[SIEVE_HASH(q)][i].pc # q
  BY <1>1, <1>4 DEF IInv, HostInv, RequestOK, Dispatching
<1>8. sieve_hashtable' \in [0 .. SIEVE_SIZE - 1 -> Seq([pc : Nat, dest : Int])] /\ SieveOK'
  BY <1>2, <1>3, <1>4, <1>5, <1>6, <1>7, NodeInFront
<1>9. CacheInv' /\ KeepsCode
  BY <1>1, <1>3, <1>8, SameCache
<1>10. CASE EnterCodeCache
  <2>1. HostInv'
    BY <1>1, <1>3, <1>9, <1>10, EnterStep DEF CacheInv
  <2> QED BY <1>9, <2>1 DEF IInv
<1>11. CASE mode' = "aborted" /\ UNCHANGED <<prog, transVars, hostVars, envVars, execVars>>
  <2>1. HostTypes'
    BY <1>3, <1>11 DEF IInv, HostInv, HostTypes, hostVars, envVars
  <2>2. ReturnCacheOK'
    BY <1>3 DEF IInv, HostInv, ReturnCacheOK, OpIs
  <2>3. MachineOK' /\ HostPointerOK' /\ RequestOK'
    BY <1>1, <1>11 DEF IInv, HostInv, MachineOK, HostPointerOK, RequestOK, InSieve, InCodeCache, Dispatching, hostVars
  <2> QED BY <1>9, <2>1, <2>2, <2>3 DEF IInv, HostInv
<1> QED BY <1>10, <1>11 DEF add_sieve_entry

(***************************************************************************)
(* Linking                                                                 *)
(***************************************************************************)

\* The jump that the dispatcher links is the one whose stub asked for the block.
LEMMA LinkIsJump ==
  ASSUME IInv, mode = "link", ind_type = NOT_IND, ret_tb # NULL, tb # ret_tb
  PROVE  /\ ret_tb \in DOMAIN tbs /\ patch_num \in 0 .. PATCH_MAX - 1
         /\ JumpAt(ret_tb, patch_num, eip) /\ LinkAddress = LinkAt(ret_tb, patch_num)
         /\ LinkAddress \in DOMAIN code /\ IsJump(LinkAddress) /\ code[LinkAddress].to = tbs[tb].pc
<1>1. tb \in DOMAIN tbs /\ tbs[tb].pc = eip
  BY AtLink
<1>2. PICK k \in DOMAIN stubs : stubs[k] = [tb |-> ret_tb, patch_num |-> patch_num, to |-> eip]
  BY DEF IInv, HostInv, RequestOK, Dispatching
<1>3. StubOK(stubs[k]) /\ stubs[k].tb = ret_tb /\ stubs[k].patch_num = patch_num /\ stubs[k].to = eip
  BY <1>2 DEF IInv, CacheInv, StubsOK
<1>4. ret_tb \in DOMAIN tbs /\ (JumpAt(ret_tb, patch_num, eip) \/ tbs[ret_tb].pc = eip)
  BY <1>3 DEF StubOK
<1>5. tbs[ret_tb].pc # eip
  BY <1>1, <1>4 DEF IInv, CacheInv, OneBlockPerPC
<1>6. patch_num \in 0 .. PATCH_MAX - 1
  BY DEF IInv, HostInv, HostTypes
<1>7. LinkAddress = LinkAt(ret_tb, patch_num)
  BY DEF LinkAddress, LinkAt, prev_tb
<1> QED BY <1>1, <1>4, <1>5, <1>6, <1>7 DEF JumpAt

\* Linking keeps the invariant of the code cache.
LEMMA LinkStep ==
  ASSUME IInv, mode = "link", mode' = "exec", NEW s, NEW n \in 0 .. PATCH_MAX - 1, NEW at, NEW v,
         s \in DOMAIN tbs, JumpAt(s, n, eip), at = LinkAt(s, n), v = tbs[tb].tc_ptr,
         Redirects(at, v), RingSet(tbs, tbs', s, tb, n),
         UNCHANGED <<prog, code_gen_ptr, stubs, sieve_hashtable, transVars, execVars>>
  PROVE  CacheInv'
<1>1. /\ CacheTypes /\ patch_array = <<>> /\ code_gen_ptr = code_ptr
      /\ tb \in DOMAIN tbs /\ tbs[tb].pc = eip /\ tbs[tb].tc_ptr # NOT_TRANS_YET /\ tbs[tb].tc_ptr \in DOMAIN code
      /\ \A a \in DOMAIN code : IsJump(a) => Resolved(a)
  BY AtLink
<1>2. /\ tbs' \in Seq(TBs) /\ DOMAIN tbs' = DOMAIN tbs
      /\ \A u \in DOMAIN tbs : SameBut(tbs[u], tbs'[u], {"jmp_from"})
      /\ \A u \in DOMAIN tbs : \A i \in 0 .. TB_FROM_MAX - 1 :
            tbs'[u].jmp_from[i] = tbs[u].jmp_from[i] \/ (u = tb /\ tbs'[u].jmp_from[i] = [tb |-> s, n |-> n])
  BY DEF RingSet
<1>3. /\ at \in DOMAIN code /\ code[at].op \in {"jcc", "jmp"}
      /\ code' \in Seq(HostOps) /\ DOMAIN code' = DOMAIN code /\ Len(code') = Len(code)
      /\ \A a \in DOMAIN code : a # at => code'[a] = code[a]
      /\ code'[at].op = code[at].op /\ code'[at].to = code[at].to /\ code'[at].dest = v
      /\ KeepsCode /\ KeepsSlots
  BY DEF Redirects
<1>4. \A u \in DOMAIN tbs :
         /\ tbs'[u].pc = tbs[u].pc /\ tbs'[u].tc_ptr = tbs[u].tc_ptr /\ tbs'[u].patch_num = tbs[u].patch_num
         /\ tbs'[u].tb_jmp_offset = tbs[u].tb_jmp_offset
         /\ SameBut(tbs[u], tbs'[u], {"patch_num", "tb_jmp_offset", "jmp_from"})
  BY <1>2 DEF SameBut
<1>5. OneBlockPerPC'
  BY <1>2, <1>4 DEF IInv, CacheInv, OneBlockPerPC
<1>6. code[at].to = eip /\ tbs[s].tc_ptr \in DOMAIN code /\ tbs[s].tc_ptr + tbs[s].tb_jmp_offset[n] = at
  BY DEF JumpAt, LinkAt
<1>7. KeepsOffsets
  BY <1>4 DEF KeepsOffsets
<1>8. KeepsDests
  <2> SUFFICES ASSUME NEW a \in DOMAIN code, IsJump(a), code'[a].dest # code[a].dest,
                      NEW u \in DOMAIN tbs, tbs[u].pc = code[a].to
               PROVE  code'[a].dest = tbs[u].tc_ptr
    BY DEF KeepsDests
  <2>1. a = at
    BY <1>3
  <2>2. u = tb
    BY <1>1, <1>6, <2>1 DEF IInv, CacheInv, OneBlockPerPC
  <2> QED BY <1>3, <2>1, <2>2
<1>9. PICK d : d = tb
  OBVIOUS
<1>10. Links(s, n, d, at)
  <2>1. /\ at \in DOMAIN code' /\ code'[at].op \in {"jcc", "jmp"}
        /\ code'[at].to = tbs[d].pc /\ code'[at].dest = tbs[d].tc_ptr
    BY <1>1, <1>3, <1>6, <1>9
  <2>2. tbs[s].tc_ptr + tbs'[s].tb_jmp_offset[n] = at
    BY <1>4, <1>6
  <2>3. \A u \in DOMAIN tbs : \A i \in 0 .. TB_FROM_MAX - 1 :
            tbs'[u].jmp_from[i] = tbs[u].jmp_from[i] \/ (u = d /\ tbs'[u].jmp_from[i] = [tb |-> s, n |-> n])
    BY <1>2, <1>9
  <2> QED BY <1>1, <1>2, <1>3, <1>4, <1>6, <1>7, <1>8, <1>9, <2>1, <2>2, <2>3 DEF Links
<1>11. /\ KeepsBlocks /\ KeepsTcPtr /\ KeepsStubs /\ StubsOK' /\ RingsOK'
       /\ \A t \in DOMAIN tbs : \A k : (t # s \/ k # n) /\ Unused(t, k) => Unused(t, k)'
  BY <1>1, <1>10, LinksStep DEF IInv, CacheInv
<1>12. Relinks
  BY <1>2, <1>3, <1>4, <1>5 DEF Relinks
<1>13. BlocksOK' /\ OpenBlockOK' /\ IndsOK' /\ SieveOK'
  BY <1>12, RelinksStep DEF IInv
<1>14. CacheTypes'
  <2>1. Len(tbs') = Len(tbs)
    <3>1. tbs \in Seq(TBs)
      BY <1>1 DEF CacheTypes
    <3>2. DOMAIN tbs = 1 .. Len(tbs) /\ Len(tbs) \in Nat /\ DOMAIN tbs' = 1 .. Len(tbs') /\ Len(tbs') \in Nat
      BY <1>2, <3>1, LenProperties
    <3> QED BY <1>2, <3>2
  <2> QED BY <1>1, <1>2, <1>3, <2>1 DEF CacheTypes, transVars, execVars
<1>15. OpsOK'
  <2>1. \A a \in DOMAIN code : OpOK(a)'
    BY <1>1, <1>3, OldOps DEF IInv, CacheInv, Unfinished
  <2> QED BY <1>3, <2>1 DEF OpsOK
<1>16. AskedOK'
  BY <1>1, <1>3 DEF AskedOK, code_ptr
<1>17. PatchesOK'
  <2>1. \A t \in DOMAIN tbs : tbs[t].patch_num # 1
    BY <1>1 DEF IInv, CacheInv, PatchesOK
  <2>2. patch_array' = <<>> /\ Len(patch_array') < PATCH_ARRAY_SIZE
    BY <1>1 DEF transVars, IInv, CacheInv, PatchesOK
  <2> QED BY <1>2, <1>4, <2>1, <2>2 DEF PatchesOK, Emitting
<1>18. JumpsOK'
  <2> SUFFICES ASSUME NEW a \in DOMAIN code, IsJump(a) PROVE Resolved(a)'
    BY <1>3, Persists DEF JumpsOK
  <2>1. Resolved(a)
    BY <1>1
  <2>2. CASE a # at
    <3>1. code'[a].dest = code[a].dest /\ code'[a].to = code[a].to
      BY <1>3, <2>2
    <3> QED BY <1>3, <1>11, <2>1, <3>1, ResolvedKept
  <2>3. CASE a = at
    <3>1. /\ tb \in DOMAIN tbs' /\ tbs'[tb].tc_ptr = tbs[tb].tc_ptr /\ tbs'[tb].pc = eip
          /\ tbs'[tb].tc_ptr # NOT_TRANS_YET /\ tbs'[tb].tc_ptr \in DOMAIN code'
      BY <1>1, <1>2, <1>3, <1>4
    <3>2. tb # NULL
      BY <1>1, Domains DEF NULL
    <3>3. code'[a].dest = tbs'[tb].tc_ptr /\ code'[a].to = tbs'[tb].pc
      BY <1>3, <1>6, <2>3, <3>1
    <3> QED BY <3>1, <3>2, <3>3 DEF Resolved, Translated
  <2> QED BY <2>2, <2>3
<1>19. ExitsOK'
  <2>1. ASSUME NEW t \in DOMAIN tbs, tbs'[t].tc_ptr = NOT_TRANS_YET, NEW k \in 0 .. PATCH_MAX - 1
        PROVE  Unused(t, k)'
    <3>1. Unused(t, k)
      BY <1>4, <2>1 DEF IInv, CacheInv, ExitsOK
    <3>2. t # s
      BY <1>1, <1>4, <1>6, <2>1, Domains DEF NOT_TRANS_YET
    <3> QED BY <1>11, <3>1, <3>2
  <2>2. patch_array' = <<>>
    BY <1>1 DEF transVars
  <2> QED BY <1>2, <2>1, <2>2 DEF ExitsOK, Emitting
<1> QED BY <1>5, <1>11, <1>13, <1>14, <1>15, <1>16, <1>17, <1>18, <1>19 DEF CacheInv

\* tb_add_jump keeps the invariant.
LEMMA TbAddJumpStep ==
  ASSUME IInv, tb_add_jump
  PROVE  IInv'
<1>1. /\ mode = "link" /\ ind_type = NOT_IND /\ UNCHANGED sieve_hashtable /\ EnterCodeCache
      /\ mode' = "exec" /\ UNCHANGED <<prog, code_gen_ptr, stubs, transVars, execVars>>
  BY DEF tb_add_jump, EnterCodeCache
<1>2. CASE UNCHANGED <<code, tbs>>
  <2>1. CacheInv' /\ KeepsCode
    <3>1. sieve_hashtable' \in [0 .. SIEVE_SIZE - 1 -> Seq([pc : Nat, dest : Int])]
      BY <1>1 DEF IInv, CacheInv, CacheTypes
    <3>2. SieveOK'
      BY <1>1, <1>2 DEF IInv, CacheInv, SieveOK, At, SIEVE_HASH
    <3> QED BY <1>1, <1>2, <3>1, <3>2, SameCache
  <2>2. HostInv'
    BY <1>1, <1>2, <2>1, EnterStep DEF CacheInv
  <2> QED BY <2>1, <2>2 DEF IInv
<1>3. CASE /\ prev_tb # NULL /\ tb # prev_tb
           /\ code' = [code EXCEPT ![LinkAddress].dest = tbs[tb].tc_ptr]
           /\ tbs' = tb_add_jmp_from(tbs, prev_tb, tb, patch_num)
  <2>1. ret_tb # NULL /\ tb # ret_tb
    BY <1>3 DEF prev_tb
  <2>2. /\ ret_tb \in DOMAIN tbs /\ patch_num \in 0 .. PATCH_MAX - 1
        /\ JumpAt(ret_tb, patch_num, eip) /\ LinkAddress = LinkAt(ret_tb, patch_num)
        /\ LinkAddress \in DOMAIN code /\ IsJump(LinkAddress)
    BY <1>1, <2>1, LinkIsJump
  <2>3. CacheTypes /\ tb \in DOMAIN tbs /\ tbs[tb].tc_ptr \in Int /\ tbs \in Seq(TBs)
    BY <1>1, AtLink DEF CacheTypes
  <2>4. PICK s \in DOMAIN tbs : s = ret_tb
    BY <2>2
  <2>5. PICK n \in 0 .. PATCH_MAX - 1 : n = patch_num
    BY <2>2
  <2>6. PICK at \in DOMAIN code : at = LinkAddress
    BY <2>2
  <2>7. PICK v \in Int : v = tbs[tb].tc_ptr
    BY <2>3
  <2>8. PICK d \in DOMAIN tbs : d = tb
    BY <2>3
  <2>9. Redirects(at, v)
    <3>1. code' = [code EXCEPT ![at].dest = v]
      BY <1>3, <2>6, <2>7
    <3>2. IsJump(at)
      BY <2>2, <2>6
    <3> QED BY <1>1, <2>3, <3>1, <3>2, SetJump
  <2>10. RingSet(tbs, tbs', s, tb, n)
    <3>1. tbs' = tb_add_jmp_from(tbs, s, d, n)
      BY <1>3, <2>4, <2>5, <2>8 DEF prev_tb
    <3>2. RingSet(tbs, tbs', s, d, n)
      BY <2>3, <3>1, AddJmpFrom
    <3> QED BY <2>8, <3>2
  <2>11. JumpAt(s, n, eip) /\ at = LinkAt(s, n)
    BY <2>2, <2>4, <2>5, <2>6
  <2>12. CacheInv'
    BY <1>1, <2>4, <2>5, <2>6, <2>7, <2>9, <2>10, <2>11, LinkStep
  <2>13. KeepsCode /\ Len(code') = Len(code)
    BY <2>9 DEF Redirects
  <2>14. HostInv'
    BY <1>1, <2>12, <2>13, EnterStep DEF CacheInv
  <2> QED BY <2>12, <2>14 DEF IInv
<1> QED BY <1>2, <1>3 DEF tb_add_jump

(***************************************************************************)
(* Inlined targets                                                         *)
(***************************************************************************)

\* The comparisons at address at become x, those of the same block s, whose count
\* may change.
Refills(at, x, s) ==
  /\ at \in DOMAIN code /\ code[at].op = "ind" /\ code[at].tb = s /\ s \in DOMAIN tbs
  /\ x \in IndOps /\ x.tb = s
  /\ code' = [code EXCEPT ![at] = x]
  /\ tbs' \in Seq(TBs) /\ DOMAIN tbs' = DOMAIN tbs
  /\ \A u \in DOMAIN tbs : u # s => tbs'[u] = tbs[u]
  /\ SameBut(tbs[s], tbs'[s], {"jmp_ind_index"})

\* What the comparisons must be like to be right.
SlotsOK(x, index) ==
  /\ \A i \in DOMAIN x.slots : At(x.slots[i].dest, x.slots[i].src)
  /\ Len(x.slots) = index
  /\ \A i, j \in DOMAIN x.slots : x.slots[i].src = x.slots[j].src => i = j

\* Changing comparisons keeps the invariant of the code cache.
LEMMA RefillStep ==
  ASSUME IInv, mode = "link", mode' = "exec", NEW at, NEW x, NEW s, Refills(at, x, s),
         SlotsOK(x, tbs'[s].jmp_ind_index),
         UNCHANGED <<prog, code_gen_ptr, stubs, sieve_hashtable, transVars, execVars>>
  PROVE  CacheInv' /\ KeepsCode /\ Len(code') = Len(code)
<1>1. /\ CacheTypes /\ patch_array = <<>> /\ code_gen_ptr = code_ptr
      /\ \A t \in DOMAIN tbs : tbs[t].tc_ptr # NOT_TRANS_YET => At(tbs[t].tc_ptr, tbs[t].pc)
      /\ \A a \in DOMAIN code : IsJump(a) => Resolved(a)
  BY AtLink
<1>2. /\ at \in DOMAIN code /\ code[at].op = "ind" /\ code[at].tb = s /\ s \in DOMAIN tbs
      /\ tbs' \in Seq(TBs) /\ DOMAIN tbs' = DOMAIN tbs
      /\ \A u \in DOMAIN tbs : u # s => tbs'[u] = tbs[u]
      /\ SameBut(tbs[s], tbs'[s], {"jmp_ind_index"})
      /\ x \in IndOps /\ x.tb = s /\ x.op = "ind"
  BY DEF Refills, IndOps
<1>3. /\ code' \in Seq(HostOps) /\ DOMAIN code' = DOMAIN code /\ Len(code') = Len(code)
      /\ code'[at] = x /\ \A a \in DOMAIN code : a # at => code'[a] = code[a]
  <2>1. code \in Seq(HostOps) /\ x \in HostOps /\ code' = [code EXCEPT ![at] = x]
    BY <1>1, <1>2 DEF CacheTypes, HostOps, Refills
  <2>2. code' \in Seq(HostOps) /\ Len(code') = Len(code)
    BY <1>2, <2>1, ExceptSeq
  <2> QED BY <1>2, <2>1, <2>2
<1>4. KeepsCode
  BY <1>2, <1>3 DEF KeepsCode, IsJump
<1>5. \A u \in DOMAIN tbs : /\ tbs'[u].pc = tbs[u].pc /\ tbs'[u].tc_ptr = tbs[u].tc_ptr
                            /\ tbs'[u].patch_num = tbs[u].patch_num /\ tbs'[u].jmp_from = tbs[u].jmp_from
                            /\ tbs'[u].tb_jmp_offset = tbs[u].tb_jmp_offset /\ tbs'[u].ind_addr = tbs[u].ind_addr
  BY <1>2 DEF SameBut
<1>6. KeepsBlocks /\ KeepsTcPtr /\ KeepsOffsets /\ KeepsDests /\ KeepsStubs
  <2>1. \A a \in DOMAIN code : IsJump(a) => code'[a] = code[a]
    BY <1>2, <1>3 DEF IsJump
  <2> QED BY <1>2, <1>5, <2>1 DEF KeepsBlocks, KeepsTcPtr, KeepsOffsets, KeepsDests, KeepsStubs
<1>7. CacheTypes'
  <2>1. Len(tbs') = Len(tbs)
    <3>1. tbs \in Seq(TBs)
      BY <1>1 DEF CacheTypes
    <3>2. DOMAIN tbs = 1 .. Len(tbs) /\ Len(tbs) \in Nat /\ DOMAIN tbs' = 1 .. Len(tbs') /\ Len(tbs') \in Nat
      BY <1>2, <3>1, LenProperties
    <3> QED BY <1>2, <3>2
  <2> QED BY <1>1, <1>2, <1>3, <2>1 DEF CacheTypes, transVars, execVars
<1>8. OneBlockPerPC'
  BY <1>2, <1>5 DEF IInv, CacheInv, OneBlockPerPC
<1>9. \A a, q : At(a, q) => At(a, q)'
  BY <1>4, Persists
<1>10. OpsOK'
  <2> SUFFICES ASSUME NEW a \in DOMAIN code PROVE OpOK(a)'
    BY <1>3 DEF OpsOK
  <2>1. CASE a # at
    <3>1. code[a].op = "ind" => code'[a] = code[a]
      BY <1>3, <2>1
    <3> QED BY <1>1, <1>4, <3>1, OldOp DEF IInv, CacheInv, Unfinished
  <2>2. CASE a = at
    <3>1. code'[a].op = "ind" /\ code'[a] = x
      BY <1>2, <1>3, <2>2
    <3>2. \A i \in DOMAIN x.slots : At(x.slots[i].dest, x.slots[i].src)'
      BY <1>9 DEF SlotsOK
    <3> QED BY <3>1, <3>2 DEF OpOK, At
  <2> QED BY <2>1, <2>2
<1>11. BlocksOK'
  <2> SUFFICES ASSUME NEW t \in DOMAIN tbs, tbs'[t].tc_ptr # NOT_TRANS_YET
               PROVE  At(tbs[t].tc_ptr, tbs[t].pc)'
    BY <1>2 DEF BlocksOK
  <2>1. At(tbs[t].tc_ptr, tbs[t].pc)
    BY <1>1, <1>5
  <2> QED BY <1>5, <1>9, <2>1 DEF At
<1>12. OpenBlockOK' /\ AskedOK'
  BY <1>1, <1>3 DEF OpenBlockOK, AskedOK, Emitting, code_ptr
<1>13. PatchesOK'
  <2>1. \A t \in DOMAIN tbs : tbs[t].patch_num # 1
    BY <1>1 DEF IInv, CacheInv, PatchesOK
  <2>2. patch_array' = <<>> /\ Len(patch_array') < PATCH_ARRAY_SIZE
    BY <1>1 DEF transVars, IInv, CacheInv, PatchesOK
  <2> QED BY <1>2, <1>5, <2>1, <2>2 DEF PatchesOK, Emitting
<1>14. JumpsOK'
  <2> SUFFICES ASSUME NEW a \in DOMAIN code, IsJump(a) PROVE Resolved(a)'
    BY <1>3, <1>4, Persists DEF JumpsOK
  <2>1. Resolved(a) /\ code'[a].dest = code[a].dest /\ code'[a].to = code[a].to
    BY <1>1, <1>2, <1>3 DEF IsJump
  <2> QED BY <1>4, <1>6, <2>1, ResolvedKept
<1>15. StubsOK'
  <2> SUFFICES ASSUME NEW k \in DOMAIN stubs PROVE StubOK(stubs[k])'
    BY DEF StubsOK
  <2>1. \A y : y = stubs[k] => StubOK(y)'
    BY <1>1, <1>4, <1>6, StubsKept DEF IInv, CacheInv
  <2> QED BY <2>1 DEF StubOK, JumpAt, LinkAt, IsJump
<1>16. RingsOK'
  <2> SUFFICES ASSUME NEW u \in DOMAIN tbs, NEW i \in 0 .. TB_FROM_MAX - 1
               PROVE  RingOK(u, tbs[u].jmp_from[i])'
    BY <1>2 DEF RingsOK
  <2>1. \A from : from = tbs[u].jmp_from[i] => RingOK(u, from)'
    BY <1>1, <1>4, <1>6, RingsKept DEF IInv, CacheInv
  <2> QED BY <1>5, <2>1 DEF RingOK, JumpAt, LinkAt, IsJump
<1>17. ExitsOK'
  <2>1. ASSUME NEW t \in DOMAIN tbs, tbs'[t].tc_ptr = NOT_TRANS_YET, NEW k \in 0 .. PATCH_MAX - 1
        PROVE  Unused(t, k)'
    <3>1. Unused(t, k)
      BY <1>5, <2>1 DEF IInv, CacheInv, ExitsOK
    <3> QED BY <1>2, <1>5, <1>6, <3>1, UnusedKept
  <2>2. patch_array' = <<>>
    BY <1>1 DEF transVars
  <2> QED BY <1>2, <2>1, <2>2 DEF ExitsOK, Emitting
<1>18. IndsOK'
  <2>1. \A a \in DOMAIN code : code[a].op = "ind" => IndOK(a)
    BY DEF IInv, CacheInv, IndsOK
  <2>2. tbs[s].ind_addr = at /\ tbs[s].tc_ptr \in DOMAIN code
    BY <1>2, <2>1 DEF IndOK
  <2>3. ASSUME NEW a \in DOMAIN code, code'[a].op = "ind" PROVE IndOK(a)'
    <3>1. CASE a = at
      <4>1. code'[a] = x /\ tbs'[s].ind_addr = at /\ tbs'[s].tc_ptr \in DOMAIN code'
        BY <1>2, <1>3, <1>5, <2>2, <3>1
      <4> QED BY <1>2, <3>1, <4>1 DEF IndOK, SlotsOK, Emitting
    <3>2. CASE a # at
      <4>1. code'[a] = code[a] /\ IndOK(a)
        BY <1>3, <2>1, <2>3, <3>2
      <4>2. code[a].tb \in DOMAIN tbs /\ code[a].tb # s
        BY <2>2, <3>2, <4>1 DEF IndOK
      <4>3. tbs'[code[a].tb] = tbs[code[a].tb]
        BY <1>2, <4>2
      <4> QED BY <1>2, <1>3, <4>1, <4>3 DEF IndOK, Emitting
    <3> QED BY <3>1, <3>2
  <2>4. \A t \in DOMAIN tbs : tbs'[t].tc_ptr = NOT_TRANS_YET => tbs'[t].jmp_ind_index = 0
    <3>1. tbs[s].tc_ptr # NOT_TRANS_YET
      BY <1>1, <2>2, Domains DEF NOT_TRANS_YET
    <3> QED BY <1>2, <1>5, <3>1 DEF IInv, CacheInv, IndsOK
  <2> QED BY <1>2, <1>3, <2>3, <2>4 DEF IndsOK, Emitting
<1>19. SieveOK'
  BY <1>4, OldNodes DEF IInv, CacheInv
<1> QED BY <1>3, <1>4, <1>7, <1>8, <1>10, <1>11, <1>12, <1>13, <1>14, <1>15, <1>16, <1>17, <1>18, <1>19
       DEF CacheInv

\* One more slot.
LEMMA AddSlot ==
  ASSUME NEW c \in IndOps, NEW q \in Nat, NEW d \in Int, NEW index, SlotsOK(c, index), At(d, q),
         \A i \in DOMAIN c.slots : c.slots[i].src # q,
         NEW x, x = [c EXCEPT !.slots = Append(@, [src |-> q, dest |-> d])]
  PROVE  x \in IndOps /\ x.tb = c.tb /\ SlotsOK(x, index + 1)
<1> DEFINE Slots == [src : Nat, dest : Int]
<1>1. PICK e \in Slots : e = [src |-> q, dest |-> d]
  OBVIOUS
<1>2. PICK old : old = c.slots
  OBVIOUS
<1>3. PICK new : new = Append(old, e)
  OBVIOUS
<1>4. old \in Seq(Slots) /\ e.src = q /\ e.dest = d
  BY <1>1, <1>2 DEF IndOps
<1>5. x = [c EXCEPT !.slots = new]
  BY <1>1, <1>2, <1>3 DEF IndOps
<1>6. /\ new \in Seq(Slots) /\ Len(new) = Len(old) + 1 /\ Len(old) \in Nat /\ DOMAIN old = 1 .. Len(old)
      /\ DOMAIN new = 1 .. Len(old) + 1
      /\ \A i \in 1 .. Len(old) : new[i] = old[i]
  <2> HIDE DEF Slots
  <2>1. new \in Seq(Slots) /\ Len(new) = Len(old) + 1 /\ \A i \in 1 .. Len(old) : new[i] = old[i]
    BY <1>3, <1>4, AppendProperties
  <2>2. Len(old) \in Nat /\ DOMAIN old = 1 .. Len(old) /\ DOMAIN new = 1 .. Len(new)
    BY <1>4, <2>1, LenProperties
  <2> QED BY <2>1, <2>2
<1>7. new[Len(old) + 1] = e
  <2> HIDE DEF Slots
  <2> QED BY <1>3, <1>4, AppendProperties
<1>8. x \in IndOps /\ x.tb = c.tb /\ x.slots = new
  BY <1>5, <1>6 DEF IndOps
<1>9. /\ \A i \in 1 .. Len(old) : At(old[i].dest, old[i].src) /\ old[i].src # q
      /\ Len(old) = index
      /\ \A i, j \in 1 .. Len(old) : old[i].src = old[j].src => i = j
  BY <1>2, <1>6 DEF SlotsOK
<1>10. \A i \in DOMAIN new : At(new[i].dest, new[i].src)
  <2> SUFFICES ASSUME NEW i \in DOMAIN new PROVE At(new[i].dest, new[i].src)
    OBVIOUS
  <2>1. i \in 1 .. Len(old) \/ i = Len(old) + 1
    BY <1>6
  <2>2. CASE i \in 1 .. Len(old)
    BY <1>6, <1>9, <2>2
  <2>3. CASE i = Len(old) + 1
    BY <1>4, <1>7, <2>3
  <2> QED BY <2>1, <2>2, <2>3
<1>11. \A i, j \in DOMAIN new : new[i].src = new[j].src => i = j
  <2> SUFFICES ASSUME NEW i \in DOMAIN new, NEW j \in DOMAIN new, new[i].src = new[j].src PROVE i = j
    OBVIOUS
  <2>1. (i \in 1 .. Len(old) \/ i = Len(old) + 1) /\ (j \in 1 .. Len(old) \/ j = Len(old) + 1)
    BY <1>6
  <2>2. \A k \in 1 .. Len(old) : new[k] = old[k] /\ new[k].src # q
    BY <1>6, <1>9
  <2>3. new[Len(old) + 1].src = q
    BY <1>4, <1>7
  <2> QED BY <1>9, <2>1, <2>2, <2>3
<1>12. Len(new) = index + 1
  BY <1>6, <1>9
<1>13. SlotsOK(x, index + 1)
  <2> HIDE DEF Slots
  <2> QED BY ONLY <1>8, <1>10, <1>11, <1>12 DEF SlotsOK
<1> QED BY <1>8, <1>13

\* patch_ind_opt keeps the invariant.
LEMMA PatchIndOptStep ==
  ASSUME IInv, patch_ind_opt
  PROVE  IInv'
<1>1. /\ mode = "link" /\ ind_type # NOT_IND /\ ret_tb # NULL /\ UNCHANGED sieve_hashtable /\ EnterCodeCache
      /\ mode' = "exec" /\ UNCHANGED <<prog, code_gen_ptr, stubs, transVars, execVars>>
  BY DEF patch_ind_opt, EnterCodeCache, prev_tb
<1>2. PICK at \in DOMAIN code : /\ code[at].op = "ind" /\ code[at].tb = ret_tb
                                /\ \A i \in DOMAIN code[at].slots : code[at].slots[i].src # eip
  BY <1>1 DEF IInv, HostInv, RequestOK, Dispatching
<1>3. IndOK(at) /\ OpOK(at)
  BY <1>2 DEF IInv, CacheInv, IndsOK, OpsOK
<1>4. PICK s \in DOMAIN tbs : s = ret_tb
  BY <1>2, <1>3 DEF IndOK
<1>5. tbs[s].ind_addr = at /\ code[at].tb = s /\ tbs[prev_tb].ind_addr = at
  BY <1>2, <1>3, <1>4 DEF IndOK, prev_tb
<1>6. /\ CacheTypes /\ eip \in Nat /\ At(tbs[tb].tc_ptr, eip) /\ tbs[tb].tc_ptr \in Int
      /\ tbs[s] \in TBs /\ tbs \in Seq(TBs) /\ code[at] \in HostOps
  <2>1. CacheTypes
    BY <1>1, AtLink
  <2> QED BY <1>1, <2>1, AtLink, Domains DEF CacheTypes
<1>7. PICK c : c = code[at]
  OBVIOUS
<1>8. c \in IndOps /\ c.tb = s /\ SlotsOK(c, tbs[s].jmp_ind_index)
  BY <1>2, <1>3, <1>4, <1>6, <1>7, OpKinds DEF SlotsOK, IndOK, OpOK
<1>9. \E x : Refills(at, x, s) /\ SlotsOK(x, tbs'[s].jmp_ind_index)
  <2>1. CASE /\ tbs[prev_tb].jmp_ind_index < IND_SLOT_MAX
             /\ code' = [code EXCEPT ![at].slots = Append(@, [src |-> eip, dest |-> tbs[tb].tc_ptr])]
             /\ tbs' = [tbs EXCEPT ![prev_tb].jmp_ind_index = @ + 1]
    <3>1. PICK q \in Nat : q = eip
      BY <1>6
    <3>2. PICK d \in Int : d = tbs[tb].tc_ptr
      BY <1>6
    <3>3. PICK x : x = [c EXCEPT !.slots = Append(@, [src |-> q, dest |-> d])]
      OBVIOUS
    <3>4. code' = [code EXCEPT ![at] = x]
      BY <1>7, <2>1, <3>1, <3>2, <3>3
    <3>5. PICK index : index = tbs[s].jmp_ind_index
      OBVIOUS
    <3>6. index + 1 \in 0 .. IND_SLOT_MAX
      <4>1. index \in 0 .. IND_SLOT_MAX /\ index < IND_SLOT_MAX /\ IND_SLOT_MAX \in Nat
        BY <1>4, <1>6, <2>1, <3>5, SizeAssumption DEF TBs, prev_tb
      <4> QED BY <4>1
    <3>7. x \in IndOps /\ x.tb = c.tb /\ SlotsOK(x, index + 1)
      <4>1. At(d, q) /\ \A i \in DOMAIN c.slots : c.slots[i].src # q
        BY <1>2, <1>6, <1>7, <3>1, <3>2
      <4>2. SlotsOK(c, index)
        BY <1>8, <3>5
      <4> QED BY <1>8, <3>3, <4>1, <4>2, AddSlot
    <3>8. PICK v \in 0 .. IND_SLOT_MAX : v = index + 1
      BY <3>6
    <3>9. PICK r : r = [tbs[s] EXCEPT !.jmp_ind_index = v]
      OBVIOUS
    <3>10. r \in TBs /\ SameBut(tbs[s], r, {"jmp_ind_index"}) /\ r.jmp_ind_index = v
      BY <1>6, <3>9, SetIndIndex
    <3>11. tbs' = [tbs EXCEPT ![s] = r]
      BY <1>4, <2>1, <3>5, <3>8, <3>9 DEF prev_tb
    <3>12. /\ tbs' \in Seq(TBs) /\ DOMAIN tbs' = DOMAIN tbs /\ tbs'[s] = r
           /\ \A u \in DOMAIN tbs : u # s => tbs'[u] = tbs[u]
      BY <1>6, <3>10, <3>11, ReplaceBlock
    <3>13. Refills(at, x, s)
      BY <1>2, <1>5, <1>8, <3>4, <3>7, <3>10, <3>12 DEF Refills
    <3>14. SlotsOK(x, tbs'[s].jmp_ind_index)
      BY <3>7, <3>8, <3>10, <3>12
    <3> QED BY <3>13, <3>14
  <2>2. CASE /\ code' = [code EXCEPT ![at].to_sieve = TRUE]
             /\ UNCHANGED tbs
    <3>1. PICK x : x = [c EXCEPT !.to_sieve = TRUE]
      OBVIOUS
    <3>2. code' = [code EXCEPT ![at] = x]
      BY <1>7, <2>2, <3>1
    <3>3. x \in IndOps /\ x.tb = c.tb /\ x.slots = c.slots
      BY <1>8, <3>1 DEF IndOps
    <3>4. SameBut(tbs[s], tbs'[s], {"jmp_ind_index"})
      BY <2>2 DEF SameBut
    <3>5. Refills(at, x, s)
      BY <1>2, <1>5, <1>6, <1>8, <2>2, <3>2, <3>3, <3>4 DEF Refills
    <3>6. SlotsOK(x, tbs'[s].jmp_ind_index)
      BY <1>8, <2>2, <3>3 DEF SlotsOK
    <3> QED BY <3>5, <3>6
  <2> QED BY <1>5, <2>1, <2>2 DEF patch_ind_opt
<1>10. CacheInv' /\ KeepsCode /\ Len(code') = Len(code)
  BY <1>1, <1>9, RefillStep
<1>11. HostInv'
  BY <1>1, <1>10, EnterStep DEF CacheInv
<1> QED BY <1>10, <1>11 DEF IInv

(***************************************************************************)
(* The specification                                                       *)
(***************************************************************************)

\* Every step of the translator keeps the invariant.
LEMMA NextInv ==
  ASSUME ShortBlocks, IInv, [Next]_vars
  PROVE  IInv'
<1>1. CASE get_next_tb
  BY <1>1, GetNextTbStep
<1>2. CASE add_sieve_entry
  BY <1>2, AddSieveEntryStep
<1>3. CASE patch_ind_opt
  BY <1>3, PatchIndOptStep
<1>4. CASE tb_add_jump
  BY <1>4, TbAddJumpStep
<1>5. CASE gen_target_code /\ UNCHANGED <<prog, hostVars, envVars, execVars>>
  BY <1>5, TranslateStep
<1>6. CASE RunCodeCache /\ UNCHANGED execVars
  BY <1>6, RunStep
<1>7. CASE UNCHANGED vars
  <2>1. /\ UNCHANGED <<prog, mode, tbs, code, code_gen_ptr, stubs, sieve_hashtable, ret_hash_table>>
        /\ UNCHANGED <<cur_tb, pc_ptr, num_insns, patch_array, hp, stack, ecx>>
        /\ UNCHANGED <<eip, ret_tb, ind_type, patch_num, ind_dest, tb, stb_count>>
    BY <1>7 DEF vars, cacheVars, transVars, hostVars, envVars, execVars
  <2> USE DEF IInv, CacheInv, HostInv
  <2>2. CacheTypes' /\ OneBlockPerPC'
    BY <2>1 DEF CacheTypes, OneBlockPerPC
  <2>3. OpsOK'
    <3>1. KeepsCode /\ KeepsSlots
      BY <2>1 DEF KeepsCode, KeepsSlots
    <3>2. \A a \in DOMAIN code : OpOK(a)'
      BY <2>1, <3>1, OldOps DEF Unfinished
    <3> QED BY <2>1, <3>2 DEF OpsOK
  <2>4. BlocksOK'
    BY <2>1 DEF BlocksOK, At, code_ptr
  <2>5. OpenBlockOK'
    BY <2>1 DEF OpenBlockOK, Emitting, code_ptr, IsInsn
  <2>6. AskedOK'
    BY <2>1 DEF AskedOK, code_ptr
  <2>7. PatchesOK'
    BY <2>1 DEF PatchesOK, PatchOK, IsJump, Emitting, Stable
  <2>8. JumpsOK'
    BY <2>1 DEF JumpsOK, IsJump, Resolved, Translated
  <2>9. StubsOK'
    BY <2>1 DEF StubsOK, StubOK, JumpAt, LinkAt, IsJump
  <2>10. RingsOK'
    BY <2>1, ZenonT(30) DEF RingsOK, RingOK, JumpAt, LinkAt, IsJump
  <2>11. ExitsOK'
    BY <2>1 DEF ExitsOK, Unused, Emitting, code_ptr
  <2>12. IndsOK' /\ SieveOK'
    BY <2>1 DEF IndsOK, IndOK, SieveOK, Emitting, At, SIEVE_HASH
  <2>13. HostTypes' /\ ReturnCacheOK'
    BY <2>1 DEF HostTypes, ReturnCacheOK, OpIs
  <2>14. MachineOK' /\ HostPointerOK'
    BY <2>1 DEF MachineOK, HostPointerOK, InSieve, InCodeCache
  <2>15. RequestOK'
    BY <2>1 DEF RequestOK, Dispatching, SIEVE_HASH
  <2> QED BY <2>2, <2>3, <2>4, <2>5, <2>6, <2>7, <2>8, <2>9, <2>10, <2>11, <2>12, <2>13, <2>14, <2>15
<1> QED BY <1>1, <1>2, <1>3, <1>4, <1>5, <1>6, <1>7 DEF Next, Step, Stopped, cpu_exec

\* The invariant holds in every reachable state of the translator, for every set
\* of guest programs whose blocks tb_jmp_offset can span: blocks, code, links,
\* stubs, predictions and the machine fit together as CpuExecInv says.
THEOREM Invariant ==
  ASSUME ShortBlocks
  PROVE  Spec => []IInv
<1>1. Init => IInv
  BY InitInv
<1>2. IInv /\ [Next]_vars => IInv'
  BY NextInv
<1> QED BY <1>1, <1>2, PTL DEF Spec

\* What the invariant says of the properties that the runs check.
LEMMA InvTypeOK == ASSUME IInv PROVE TypeOK
<1> USE DEF IInv, CacheInv, HostInv
<1>1. CacheTypes /\ HostTypes
  OBVIOUS
<1>2. ASSUME NEW t \in DOMAIN tbs
      PROVE  /\ tbs[t].tc_ptr \in 0 .. code_ptr /\ tbs[t].patch_num \in 0 .. PATCH_MAX - 1
             /\ tbs[t].jmp_ind_index \in 0 .. IND_SLOT_MAX /\ tbs[t].jmp_from_index \in 0 .. TB_FROM_MAX - 1
  <2>1. tbs[t] \in TBs
    BY <1>1, Domains
  <2>2. /\ tbs[t].tc_ptr \in Nat /\ tbs[t].patch_num \in {0, 1}
        /\ tbs[t].jmp_ind_index \in 0 .. IND_SLOT_MAX /\ tbs[t].jmp_from_index \in 0 .. TB_FROM_MAX - 1
    BY <2>1 DEF TBs
  <2>3. tbs[t].patch_num \in 0 .. PATCH_MAX - 1
    <3>1. PATCH_MAX \in Nat /\ PATCH_MAX > 1
      BY SizeAssumption
    <3> QED BY <2>2, <3>1
  <2>4. tbs[t].tc_ptr = 0 \/ tbs[t].tc_ptr \in DOMAIN code \/ tbs[t].tc_ptr = code_ptr
    BY DEF BlocksOK, At, NOT_TRANS_YET
  <2>5. tbs[t].tc_ptr \in 0 .. code_ptr
    <3>1. Len(code) \in Nat /\ DOMAIN code = 1 .. Len(code)
      BY <1>1, Domains
    <3> QED BY <2>2, <2>4, <3>1 DEF code_ptr
  <2> QED BY <2>2, <2>3, <2>5
<1>3. Len(patch_array) < PATCH_ARRAY_SIZE
  BY DEF PatchesOK
<1>4. prog \in Programs /\ {cur_tb, ret_tb, tb} \subseteq 0 .. Len(tbs)
  BY <1>1 DEF CacheTypes, HostTypes
<1> QED BY <1>1, <1>2, <1>3, <1>4 DEF TypeOK, HostTypes

\* Links hit their jumps, jumps are resolved, and so on: each property of the
\* runs is a part of the invariant, or follows from its parts.
LEMMA InvProperties ==
  ASSUME IInv
  PROVE  /\ OneBlockPerPC /\ CodeStartsAtTcPtr /\ LinkHitsItsJump /\ JumpsResolved
         /\ PredictionsDistinct /\ JmpFromSound /\ EcxIsRestored
<1>1. OneBlockPerPC
  BY DEF IInv, CacheInv
<1>2. CodeStartsAtTcPtr
  BY DEF IInv, CacheInv, BlocksOK, CodeStartsAtTcPtr, Translated, At
<1>3. LinkHitsItsJump
  BY LinkIsJump DEF LinkHitsItsJump, prev_tb
<1>4. JumpsResolved
  <2>1. ASSUME mode \in {"dispatch", "link", "exec"}, NEW a \in DOMAIN code, IsJump(a)
        PROVE  Resolved(a)
    <3>1. patch_array = <<>>
      BY <2>1 DEF IInv, CacheInv, PatchesOK, Stable
    <3> QED BY <2>1, <3>1 DEF IInv, CacheInv, JumpsOK
  <2>2. mode = "dispatch" /\ ind_type = NOT_IND => tb_find_fast(eip) # NULL
    <3>1. CacheTypes
      BY DEF IInv, CacheInv
    <3> QED BY <3>1, FindFast DEF IInv, HostInv, RequestOK, Dispatching
  <2> QED BY <2>1, <2>2 DEF JumpsResolved, Resolved
<1>5. PredictionsDistinct
  BY DEF IInv, CacheInv, IndsOK, IndOK, SieveOK, PredictionsDistinct
<1>6. JmpFromSound
  BY DEF IInv, CacheInv, RingsOK, RingOK, JumpAt, LinkAt, JmpFromSound
<1>7. EcxIsRestored
  BY DEF IInv, HostInv, MachineOK, EcxIsRestored
<1> QED BY <1>1, <1>2, <1>3, <1>4, <1>5, <1>6, <1>7

\* Every variable keeps its type: in particular patch_array, tb_jmp_offset, the
\* jmp_from ring and the slots of an indirect branch stay inside their C arrays.
THEOREM TypesHold ==
  ASSUME ShortBlocks
  PROVE  Spec => []TypeOK
<1>1. IInv => TypeOK
  BY InvTypeOK
<1> QED BY <1>1, Invariant, PTL

\* The five callers of make_tb never make two blocks for one guest pc.
THEOREM BlocksAreUnique ==
  ASSUME ShortBlocks
  PROVE  Spec => []OneBlockPerPC
<1>1. IInv => OneBlockPerPC
  BY InvProperties
<1> QED BY <1>1, Invariant, PTL

\* A block's tc_ptr is where the code of its own guest pc starts, also after a
\* superblock was closed at the very address where trans_next had opened a block.
THEOREM CodeOfBlocks ==
  ASSUME ShortBlocks
  PROVE  Spec => []CodeStartsAtTcPtr
<1>1. IInv => CodeStartsAtTcPtr
  BY InvProperties
<1> QED BY <1>1, Invariant, PTL

\* tb_set_jmp_target only ever overwrites a jump to the pc that is linked.
THEOREM LinksHitJumps ==
  ASSUME ShortBlocks
  PROVE  Spec => []LinkHitsItsJump
<1>1. IInv => LinkHitsItsJump
  BY InvProperties
<1> QED BY <1>1, Invariant, PTL

\* No unpatched jump is ever run, every jump leads to the code or a stub of its
\* target, and the "unexpected path" of get_next_tb is dead.
THEOREM JumpsAreResolved ==
  ASSUME ShortBlocks
  PROVE  Spec => []JumpsResolved
<1>1. IInv => JumpsResolved
  BY InvProperties
<1> QED BY <1>1, Invariant, PTL

\* Slots and sieve nodes are not used up by repetitions.
THEOREM NoRepeatedPrediction ==
  ASSUME ShortBlocks
  PROVE  Spec => []PredictionsDistinct
<1>1. IInv => PredictionsDistinct
  BY InvProperties
<1> QED BY <1>1, Invariant, PTL

\* Each predecessor in a jmp_from ring really jumps to the ring's block.
THEOREM RingsAreSound ==
  ASSUME ShortBlocks
  PROVE  Spec => []JmpFromSound
<1>1. IInv => JmpFromSound
  BY InvProperties
<1> QED BY <1>1, Invariant, PTL

\* Guest code and the dispatcher always see the guest's %ecx.
THEOREM EcxRestored ==
  ASSUME ShortBlocks
  PROVE  Spec => []EcxIsRestored
<1>1. IInv => EcxIsRestored
  BY InvProperties
<1> QED BY <1>1, Invariant, PTL

(***************************************************************************)
(* Code does not move                                                      *)
(***************************************************************************)

\* us holds the blocks of ts, all of which keep their tc_ptr.
SameTcPtr(ts, us) ==
  \A t \in DOMAIN ts : t \in DOMAIN us /\ us[t].tc_ptr = ts[t].tc_ptr

\* Noting a jump, recording an exit or a predecessor, and adding a block leave
\* every tc_ptr alone.
LEMMA SameTcPtrSteps ==
  ASSUME NEW ts \in Seq(TBs), NEW us
  PROVE  /\ \A c, v : us = [ts EXCEPT ![c].patch_num = v] => SameTcPtr(ts, us)
         /\ \A c, v : us = [ts EXCEPT ![c].ind_addr = v] => SameTcPtr(ts, us)
         /\ \A c, v : us = [ts EXCEPT ![c].jmp_ind_index = v] => SameTcPtr(ts, us)
         /\ \A t, n, at : us = SetJmpOffset(ts, t, n, at) => SameTcPtr(ts, us)
         /\ \A t, d, n : us = tb_add_jmp_from(ts, t, d, n) => SameTcPtr(ts, us)
         /\ \A r \in TBs : us = Append(ts, r) => SameTcPtr(ts, us)
<1>1. \A t \in DOMAIN ts : ts[t] \in TBs
  BY LenProperties
<1>2. \A r \in TBs : \A v : /\ [r EXCEPT !.patch_num = v].tc_ptr = r.tc_ptr
                            /\ [r EXCEPT !.ind_addr = v].tc_ptr = r.tc_ptr
                            /\ [r EXCEPT !.jmp_ind_index = v].tc_ptr = r.tc_ptr
                            /\ [r EXCEPT !.tb_jmp_offset = v].tc_ptr = r.tc_ptr
                            /\ \A w : [r EXCEPT !.jmp_from = v, !.jmp_from_index = w].tc_ptr = r.tc_ptr
  BY DEF TBs
<1>3. ASSUME NEW c, NEW x, c \in DOMAIN ts => x.tc_ptr = ts[c].tc_ptr, us = [ts EXCEPT ![c] = x]
      PROVE  SameTcPtr(ts, us)
  BY <1>3 DEF SameTcPtr
<1>4. ASSUME NEW c, NEW v, us = [ts EXCEPT ![c].patch_num = v] PROVE SameTcPtr(ts, us)
  BY <1>1, <1>2, <1>3, <1>4
<1>5. ASSUME NEW c, NEW v, us = [ts EXCEPT ![c].ind_addr = v] PROVE SameTcPtr(ts, us)
  BY <1>1, <1>2, <1>3, <1>5
<1>6. ASSUME NEW c, NEW v, us = [ts EXCEPT ![c].jmp_ind_index = v] PROVE SameTcPtr(ts, us)
  BY <1>1, <1>2, <1>3, <1>6
<1>7. ASSUME NEW t, NEW n, NEW at, us = SetJmpOffset(ts, t, n, at) PROVE SameTcPtr(ts, us)
  <2>1. PICK v : v = [ts[t].tb_jmp_offset EXCEPT ![n] = (at - ts[t].tc_ptr) % OffsetRange]
    OBVIOUS
  <2>2. us = [ts EXCEPT ![t] = [ts[t] EXCEPT !.tb_jmp_offset = v]]
    BY <1>7, <2>1 DEF SetJmpOffset
  <2> QED BY <1>1, <1>2, <1>3, <2>2
<1>8. ASSUME NEW t, NEW d, NEW n, us = tb_add_jmp_from(ts, t, d, n) PROVE SameTcPtr(ts, us)
  BY <1>1, <1>8 DEF tb_add_jmp_from, SameTcPtr, TBs
<1>9. ASSUME NEW r \in TBs, us = Append(ts, r) PROVE SameTcPtr(ts, us)
  BY <1>9, AddBlock DEF SameTcPtr
<1> QED BY <1>4, <1>5, <1>6, <1>7, <1>8, <1>9

\* Opening a new block, or one that has no code, moves no code.
LEMMA OpeningKeeps ==
  ASSUME IInv, NEW v,
         \/ \E t : tbs[t].tc_ptr = NOT_TRANS_YET /\ tbs' = [tbs EXCEPT ![t].tc_ptr = v]
         \/ \E r \in TBs : tbs' = [Append(tbs, r) EXCEPT ![Len(tbs) + 1].tc_ptr = v]
  PROVE  KeepsTcPtr
<1>1. CASE \E t : tbs[t].tc_ptr = NOT_TRANS_YET /\ tbs' = [tbs EXCEPT ![t].tc_ptr = v]
  <2>1. NOT_TRANS_YET \notin DOMAIN code
    BY Domains DEF IInv, CacheInv, NOT_TRANS_YET
  <2> QED BY <1>1, <2>1 DEF KeepsTcPtr
<1>2. CASE \E r \in TBs : tbs' = [Append(tbs, r) EXCEPT ![Len(tbs) + 1].tc_ptr = v]
  <2>1. PICK r \in TBs : tbs' = [Append(tbs, r) EXCEPT ![Len(tbs) + 1].tc_ptr = v]
    BY <1>2
  <2>2. PICK ts : ts = Append(tbs, r)
    OBVIOUS
  <2>3. tbs \in Seq(TBs) /\ DOMAIN tbs = 1 .. Len(tbs) /\ Len(tbs) \in Nat
    BY Domains DEF IInv, CacheInv, CacheTypes
  <2>4. DOMAIN ts = DOMAIN tbs \cup {Len(tbs) + 1} /\ \A u \in DOMAIN tbs : ts[u] = tbs[u]
    BY <2>2, <2>3, AddBlock
  <2>5. \A u \in DOMAIN tbs : u # Len(tbs) + 1 /\ u \in DOMAIN ts
    BY <2>3, <2>4
  <2>6. tbs' = [ts EXCEPT ![Len(tbs) + 1].tc_ptr = v]
    BY <2>1, <2>2
  <2>7. \A u \in DOMAIN tbs : tbs'[u] = tbs[u]
    BY <2>4, <2>5, <2>6
  <2> QED BY <2>7 DEF KeepsTcPtr
<1> QED BY <1>1, <1>2

\* The translator moves no code.
LEMMA TranslateKeeps ==
  ASSUME IInv, gen_target_code, UNCHANGED <<prog, hostVars, envVars, execVars>>
  PROVE  KeepsTcPtr
<1> USE SameTcPtrSteps
<1>1. CacheTypes /\ tbs \in Seq(TBs) /\ DOMAIN tbs = 1 .. Len(tbs) /\ \A t \in DOMAIN tbs : tbs[t] \in TBs
  BY Domains DEF IInv, CacheInv, CacheTypes
<1>2. SameTcPtr(tbs, tbs') => KeepsTcPtr
  BY DEF SameTcPtr, KeepsTcPtr
<1>3. UNCHANGED tbs => KeepsTcPtr
  BY DEF KeepsTcPtr
<1>4. CASE emit_normal \/ emit_int \/ emit_ret \/ FetchFault \/ EndTranslation
  BY <1>3, <1>4 DEF emit_normal, emit_int, emit_ret, FetchFault, EndTranslation, cacheVars
<1>5. CASE emit_jcond \/ emit_other_jcond \/ emit_call_disp
  <2>1. tbs' = [tbs EXCEPT ![cur_tb].patch_num = tbs[cur_tb].patch_num + 1]
    BY <1>5 DEF emit_jcond, emit_other_jcond, emit_call_disp, note_patch
  <2> QED BY <1>1, <1>2, <2>1
<1>6. CASE emit_call_near_mem \/ emit_jmp_near_mem
  <2>1. tbs' = [tbs EXCEPT ![cur_tb].ind_addr = code_ptr + 1]
    BY <1>6 DEF emit_call_near_mem, emit_jmp_near_mem
  <2> QED BY <1>1, <1>2, <2>1
<1>7. CASE emit_jmp
  <2>1. CASE tb_flush
    BY <1>3, <2>1 DEF tb_flush, cacheVars
  <2>2. CASE Decode({"jmp"}) /\ \E ts \in {tbs, Append(tbs, NewTB(insn.to, insn.to))} :
                tbs' = [ts EXCEPT ![cur_tb].patch_num = @ + 1]
    <3>1. insn.to \in Nat
      BY <1>1, <2>2, ProgramFacts, SMTT(30) DEF Decode, insn, CacheTypes
    <3>2. NewTB(insn.to, insn.to) \in TBs
      BY <3>1, NewBlock
    <3>3. PICK ts \in {tbs, Append(tbs, NewTB(insn.to, insn.to))} : tbs' = [ts EXCEPT ![cur_tb].patch_num = @ + 1]
      BY <2>2
    <3>4. ts \in Seq(TBs) /\ SameTcPtr(tbs, ts)
      BY <1>1, <3>2, <3>3, AddBlock, SMTT(30) DEF SameTcPtr
    <3>5. SameTcPtr(ts, tbs')
      <4>1. tbs' = [ts EXCEPT ![cur_tb].patch_num = ts[cur_tb].patch_num + 1]
        BY <3>3
      <4> QED BY <3>4, <4>1
    <3>6. SameTcPtr(tbs, tbs')
      BY <3>4, <3>5 DEF SameTcPtr
    <3> QED BY <1>2, <3>6
  <2> QED BY <1>7, <2>1, <2>2 DEF emit_jmp, note_patch
<1>8. CASE trans_next
  <2>1. PICK t : t = tb_find_fast(pc_ptr)
    OBVIOUS
  <2>2. PICK n : n = tbs[cur_tb].patch_num
    OBVIOUS
  <2>3. cur_tb \in DOMAIN tbs /\ pc_ptr \in Nat
    BY <1>1, <1>8 DEF trans_next, IInv, CacheInv, CacheTypes, AskedOK, NULL
  <2>4. n \in 0 .. PATCH_MAX - 1 /\ tbs[cur_tb].func_addr \in Nat
    <3>1. n \in {0, 1} /\ tbs[cur_tb].func_addr \in Nat
      BY <1>1, <2>2, <2>3 DEF TBs
    <3>2. PATCH_MAX \in Nat /\ PATCH_MAX > 1
      BY SizeAssumption
    <3> QED BY <3>1, <3>2
  <2>5. CASE tbs' = tb_add_jmp_from(SetJmpOffset(tbs, cur_tb, n, code_ptr), cur_tb, t, n)
    <3>1. PICK ts : ts = SetJmpOffset(tbs, cur_tb, n, code_ptr)
      OBVIOUS
    <3>2. PICK c \in DOMAIN tbs : c = cur_tb
      BY <2>3
    <3>3. PICK at \in Nat : at = code_ptr
      BY <1>1, Domains DEF code_ptr
    <3>4. ts = SetJmpOffset(tbs, c, n, at)
      BY <3>1, <3>2, <3>3
    <3>5. OffsetSet(tbs, ts, c, n, at)
      BY <1>1, <2>4, <3>4, JmpOffset
    <3>6. ts \in Seq(TBs) /\ SameTcPtr(tbs, ts)
      BY <1>1, <3>4, <3>5 DEF OffsetSet
    <3>7. SameTcPtr(ts, tbs')
      BY <2>5, <3>1, <3>6
    <3>8. SameTcPtr(tbs, tbs')
      BY <3>6, <3>7 DEF SameTcPtr
    <3> QED BY <1>2, <3>8
  <2>6. CASE /\ ~ Translated(t)
             /\ LET new == IF t = NULL THEN Len(tbs) + 1 ELSE t
                    all == IF t = NULL THEN Append(tbs, NewTB(pc_ptr, tbs[cur_tb].func_addr)) ELSE tbs
                IN  tbs' = [all EXCEPT ![new].tc_ptr = code_ptr]
    <3>1. CASE t = NULL
      <4>1. PICK r \in TBs : r = NewTB(pc_ptr, tbs[cur_tb].func_addr)
        BY <2>3, <2>4, NewBlock
      <4>2. tbs' = [Append(tbs, r) EXCEPT ![Len(tbs) + 1].tc_ptr = code_ptr]
        BY <2>6, <3>1, <4>1
      <4> QED BY <4>2, OpeningKeeps
    <3>2. CASE t # NULL
      <4>1. tbs' = [tbs EXCEPT ![t].tc_ptr = code_ptr] /\ tbs[t].tc_ptr = NOT_TRANS_YET
        BY <2>6, <3>2 DEF Translated
      <4> QED BY <4>1, OpeningKeeps
    <3> QED BY <3>1, <3>2
  <2>7. CASE tb_flush
    BY <1>3, <2>7 DEF tb_flush, cacheVars
  <2> QED BY <1>8, <2>1, <2>2, <2>5, <2>6, <2>7 DEF trans_next
<1>9. CASE CheckLimit
  <2>1. CASE UNCHANGED cacheVars
    BY <1>3, <2>1 DEF cacheVars
  <2>2. CASE tbs' = [CloseEmptyBlock EXCEPT ![cur_tb].patch_num = @ + 1]
    <3>1. code_ptr \notin DOMAIN code
      BY <1>1, Domains DEF code_ptr
    <3>2. CASE tbs[cur_tb].tc_ptr = code_ptr
      <4>1. \A u \in DOMAIN tbs : u # cur_tb => tbs'[u] = tbs[u]
        BY <2>2, <3>2 DEF CloseEmptyBlock
      <4> QED BY <3>1, <3>2, <4>1 DEF KeepsTcPtr
    <3>3. CASE tbs[cur_tb].tc_ptr # code_ptr
      <4>1. tbs' = [tbs EXCEPT ![cur_tb].patch_num = tbs[cur_tb].patch_num + 1]
        BY <2>2, <3>3 DEF CloseEmptyBlock
      <4> QED BY <1>1, <1>2, <4>1
    <3> QED BY <3>2, <3>3
  <2> QED BY <1>9, <2>1, <2>2 DEF CheckLimit, note_patch
<1>10. CASE lazy_patch
  <2>1. PICK p : p = Head(patch_array)
    OBVIOUS
  <2>2. PICK n : n = tbs[p.tb].patch_num - 1
    OBVIOUS
  <2>3. PICK ts : ts = SetJmpOffset([tbs EXCEPT ![p.tb].patch_num = n], p.tb, n, p.at)
    OBVIOUS
  <2>4. mode = "patch" /\ patch_array # <<>>
    BY <1>10 DEF lazy_patch
  <2>5. Uncounted(ts, p) /\ p \in Patches
    BY <2>1, <2>2, <2>3, <2>4, FirstPatch
  <2>6. ts \in Seq(TBs) /\ SameTcPtr(tbs, ts)
    BY <2>5 DEF Uncounted, SameBut, SameTcPtr
  <2>7. CASE \E d : tbs' = tb_add_jmp_from(ts, p.tb, d, n)
    <3>1. SameTcPtr(ts, tbs')
      BY <2>6, <2>7
    <3>2. SameTcPtr(tbs, tbs')
      BY <2>6, <3>1 DEF SameTcPtr
    <3> QED BY <1>2, <3>2
  <2>8. CASE tbs' = BlockForExit(ts, p.to, p.func_addr)
    <3>1. NewTB(p.to, p.func_addr) \in TBs
      BY <2>5, NewBlock DEF Patches
    <3>2. tbs' = ts \/ tbs' = Append(ts, NewTB(p.to, p.func_addr))
      BY <2>8 DEF BlockForExit
    <3>3. SameTcPtr(ts, tbs')
      <4>1. CASE tbs' = ts
        BY <4>1 DEF SameTcPtr
      <4>2. CASE tbs' = Append(ts, NewTB(p.to, p.func_addr))
        BY <2>6, <3>1, <4>2
      <4> QED BY <3>2, <4>1, <4>2
    <3>4. SameTcPtr(tbs, tbs')
      BY <2>6, <3>3 DEF SameTcPtr
    <3> QED BY <1>2, <3>4
  <2>9. CASE tb_flush
    BY <1>3, <2>9 DEF tb_flush, cacheVars
  <2> QED BY <1>10, <2>1, <2>2, <2>3, <2>7, <2>8, <2>9 DEF lazy_patch
<1> QED BY <1>4, <1>5, <1>6, <1>7, <1>8, <1>9, <1>10 DEF gen_target_code

\* No step of the translator moves the code of a block.
LEMMA NextKeeps ==
  ASSUME IInv, [Next]_vars
  PROVE  KeepsTcPtr
<1> USE SameTcPtrSteps
<1>1. CacheTypes /\ tbs \in Seq(TBs)
  BY DEF IInv, CacheInv, CacheTypes
<1>2. SameTcPtr(tbs, tbs') => KeepsTcPtr
  BY DEF SameTcPtr, KeepsTcPtr
<1>3. UNCHANGED tbs => KeepsTcPtr
  BY DEF KeepsTcPtr
<1>4. CASE get_next_tb
  <2>1. mode = "dispatch"
    BY <1>4 DEF get_next_tb
  <2>2. PICK t : t = tb_find_fast(eip)
    OBVIOUS
  <2>3. CASE cpu_gen_code(Append(tbs, NewTB(eip, FuncAddrOfNext)), Len(tbs) + 1)
    <3>1. PICK r \in TBs : r = NewTB(eip, FuncAddrOfNext)
      BY <2>1, AtDispatch, NewBlock
    <3>2. tbs' = [Append(tbs, r) EXCEPT ![Len(tbs) + 1].tc_ptr = code_gen_ptr]
      BY <2>3, <3>1 DEF cpu_gen_code
    <3> QED BY <3>2, OpeningKeeps
  <2>4. CASE t # NULL /\ ~ Translated(t) /\ cpu_gen_code(tbs, t)
    <3>1. tbs[t].tc_ptr = NOT_TRANS_YET /\ tbs' = [tbs EXCEPT ![t].tc_ptr = code_gen_ptr]
      BY <2>4 DEF Translated, cpu_gen_code
    <3> QED BY <3>1, OpeningKeeps
  <2>5. CASE tb_flush \/ UNCHANGED cacheVars
    BY <1>3, <2>5 DEF tb_flush, cacheVars
  <2> QED BY <1>4, <2>2, <2>3, <2>4, <2>5 DEF get_next_tb
<1>5. CASE add_sieve_entry
  BY <1>3, <1>5 DEF add_sieve_entry
<1>6. CASE patch_ind_opt
  <2>1. CASE tbs' = [tbs EXCEPT ![prev_tb].jmp_ind_index = @ + 1]
    <3>1. tbs' = [tbs EXCEPT ![prev_tb].jmp_ind_index = tbs[prev_tb].jmp_ind_index + 1]
      BY <2>1
    <3> QED BY <1>1, <1>2, <3>1
  <2> QED BY <1>3, <1>6, <2>1 DEF patch_ind_opt
<1>7. CASE tb_add_jump
  <2>1. CASE tbs' = tb_add_jmp_from(tbs, prev_tb, tb, patch_num)
    BY <1>1, <1>2, <2>1
  <2> QED BY <1>3, <1>7, <2>1 DEF tb_add_jump
<1>8. CASE gen_target_code /\ UNCHANGED <<prog, hostVars, envVars, execVars>>
  BY <1>8, TranslateKeeps
<1>9. CASE RunCodeCache
  BY <1>3, <1>9 DEF RunCodeCache, RunInsn, RunExit, RunJcc, RunLoop, RunJmp, RunCall, RunICall, RunIJmp, RunCopyRc,
       RunInd, RunRcCmp, RunRet, RunSieve, RunStub, Goto, Die, UnchangedByCall, EnterSieve, cemit_exit_tb, cacheVars
<1>10. CASE UNCHANGED vars
  BY <1>3, <1>10 DEF vars, cacheVars
<1> QED BY <1>4, <1>5, <1>6, <1>7, <1>8, <1>9, <1>10 DEF Next, Step, Stopped, cpu_exec

\* A block that has code never moves: the copies of its tc_ptr in jumps, slots and
\* sieve nodes, which nobody would update, stay right.
THEOREM CodeNeverMoves ==
  ASSUME ShortBlocks
  PROVE  Spec => TcPtrIsFinal
<1>1. IInv /\ [Next]_vars => [\A t \in DOMAIN tbs : tbs[t].tc_ptr \in DOMAIN code =>
                                  tbs'[t].tc_ptr = tbs[t].tc_ptr]_vars
  BY NextKeeps DEF KeepsTcPtr
<1> QED BY <1>1, Invariant, PTL DEF Spec, TcPtrIsFinal

(***************************************************************************)
(* Stacks                                                                  *)
(***************************************************************************)

\* Taking words off a stack.
LEMMA DropNIs ==
  ASSUME NEW S, NEW s \in Seq(S), NEW n \in Nat, n <= Len(s)
  PROVE  /\ DropN(s, n) \in Seq(S) /\ Len(DropN(s, n)) = Len(s) - n
         /\ \A i \in 1 .. Len(s) - n : DropN(s, n)[i] = s[n + i]
<1>1. Len(s) \in Nat /\ \A i \in 1 .. Len(s) : s[i] \in S
  BY LenProperties
<1>2. n + 1 \in 1 .. Len(s) + 1 /\ n + 1 <= Len(s) + 1 /\ Len(s) \in n .. Len(s) /\ n + 1 \in Int
  BY <1>1
<1>3. \A i \in n + 1 .. Len(s) : s[i] \in S
  BY <1>1
<1>4. /\ SubSeq(s, n + 1, Len(s)) \in Seq(S)
      /\ Len(SubSeq(s, n + 1, Len(s))) = IF n + 1 <= Len(s) THEN Len(s) - (n + 1) + 1 ELSE 0
      /\ \A i \in 1 .. Len(s) - (n + 1) + 1 : SubSeq(s, n + 1, Len(s))[i] = s[(n + 1) + i - 1]
  BY <1>1, <1>2, <1>3, SubSeqProperties
<1>5. Len(SubSeq(s, n + 1, Len(s))) = Len(s) - n
  BY <1>1, <1>4
<1>6. \A i \in 1 .. Len(s) - n : (n + 1) + i - 1 = n + i /\ i \in 1 .. Len(s) - (n + 1) + 1
  BY <1>1
<1> QED BY <1>4, <1>5, <1>6 DEF DropN

\* Two stacks with the same words.
LEMMA SameWords ==
  ASSUME NEW S, NEW s \in Seq(S), NEW t \in Seq(S), Len(s) = Len(t), \A i \in 1 .. Len(s) : s[i] = t[i]
  PROVE  s = t
BY SeqEqual

\* A word pushed on a stack, and taken off it.
LEMMA PushDrop ==
  ASSUME NEW S, NEW s \in Seq(S), NEW v \in S
  PROVE  /\ <<v>> \o s \in Seq(S) /\ Len(<<v>> \o s) = Len(s) + 1 /\ Len(s) \in Nat
         /\ (<<v>> \o s)[1] = v /\ \A i \in 1 .. Len(s) : (<<v>> \o s)[i + 1] = s[i]
         /\ \A n \in Nat : n <= Len(s) => DropN(<<v>> \o s, n + 1) = DropN(s, n)
         /\ DropN(s, 0) = s
<1> DEFINE w == <<v>> \o s
<1>1. w \in Seq(S) /\ Len(w) = Len(s) + 1 /\ Len(s) \in Nat /\ \A i \in 1 .. Len(s) + 1 : w[i] = IF i <= 1 THEN v ELSE s[i - 1]
  <2>1. <<v>> \in Seq(S) /\ Len(<<v>>) = 1 /\ <<v>>[1] = v /\ Len(s) \in Nat
    BY LenProperties
  <2>2. /\ w \in Seq(S) /\ Len(w) = 1 + Len(s)
        /\ \A i \in 1 .. 1 + Len(s) : w[i] = IF i <= 1 THEN <<v>>[i] ELSE s[i - 1]
    BY <2>1, ConcatProperties
  <2> QED BY <2>1, <2>2
<1> HIDE DEF w
<1>2. w[1] = v /\ \A i \in 1 .. Len(s) : w[i + 1] = s[i]
  <2>1. \A i \in 1 .. Len(s) : i + 1 \in 1 .. Len(s) + 1 /\ ~ (i + 1 <= 1) /\ (i + 1) - 1 = i
    BY <1>1
  <2>2. w[1] = v
    BY <1>1
  <2> QED BY <1>1, <2>1, <2>2
<1>3. ASSUME NEW n \in Nat, n <= Len(s) PROVE DropN(w, n + 1) = DropN(s, n)
  <2>1. PICK m \in Nat : m = n + 1
    OBVIOUS
  <2>2. m <= Len(w) /\ Len(w) - m = Len(s) - n
    BY <1>1, <1>3, <2>1
  <2>3. PICK x : x = DropN(w, m)
    OBVIOUS
  <2>4. PICK y : y = DropN(s, n)
    OBVIOUS
  <2>5. x \in Seq(S) /\ Len(x) = Len(w) - m /\ \A i \in 1 .. Len(w) - m : x[i] = w[m + i]
    BY <1>1, <2>2, <2>3, DropNIs
  <2>6. y \in Seq(S) /\ Len(y) = Len(s) - n /\ \A i \in 1 .. Len(s) - n : y[i] = s[n + i]
    BY <1>3, <2>4, DropNIs
  <2>7. \A i \in 1 .. Len(s) - n : w[m + i] = s[n + i]
    <3>1. \A i \in 1 .. Len(s) - n : n + i \in 1 .. Len(s) /\ (n + i) + 1 = m + i
      BY <1>1, <1>3, <2>1
    <3> QED BY <1>2, <3>1
  <2>8. Len(x) = Len(y) /\ \A i \in 1 .. Len(x) : x[i] = y[i]
    BY <2>2, <2>5, <2>6, <2>7
  <2>9. x = y
    BY <2>5, <2>6, <2>8, SameWords
  <2> QED BY <2>1, <2>3, <2>4, <2>9
<1>4. DropN(s, 0) = s
  <2>1. /\ DropN(s, 0) \in Seq(S) /\ Len(DropN(s, 0)) = Len(s) - 0
        /\ \A i \in 1 .. Len(s) - 0 : DropN(s, 0)[i] = s[0 + i]
    BY <1>1, DropNIs
  <2>2. Len(s) - 0 = Len(s) /\ \A i \in 1 .. Len(s) : 0 + i = i
    BY <1>1
  <2> QED BY <2>1, <2>2, SameWords
<1> QED BY <1>1, <1>2, <1>3, <1>4 DEF w

\* The word on top.
LEMMA TopWord ==
  ASSUME NEW S, NEW s \in Seq(S), s # <<>>
  PROVE  /\ Head(s) = s[1] /\ Head(s) \in S /\ Tail(s) = DropN(s, 1) /\ Tail(s) \in Seq(S)
         /\ Len(s) \in Nat /\ Len(s) >= 1
<1>1. Len(s) \in Nat /\ Len(s) >= 1
  BY LenProperties, EmptySeq
<1>2. Head(s) = s[1] /\ Head(s) \in S /\ Tail(s) \in Seq(S)
  BY <1>1, HeadTailProperties, LenProperties
<1>3. /\ DropN(s, 1) \in Seq(S) /\ Len(DropN(s, 1)) = Len(s) - 1
      /\ \A i \in 1 .. Len(s) - 1 : DropN(s, 1)[i] = s[1 + i]
  BY <1>1, DropNIs
<1>4. Len(Tail(s)) = Len(s) - 1 /\ \A i \in 1 .. Len(Tail(s)) : Tail(s)[i] = s[i + 1]
  BY HeadTailProperties
<1>5. \A i \in 1 .. Len(s) - 1 : 1 + i = i + 1
  BY <1>1
<1>6. Tail(s) = DropN(s, 1)
  BY <1>2, <1>3, <1>4, <1>5, SameWords
<1> QED BY <1>1, <1>2, <1>6

(***************************************************************************)
(* The guest state that a state of the machine represents                  *)
(***************************************************************************)

\* At an operation that expects no word on the stack.
LEMMA GuestAtOp ==
  ASSUME IInv, NEW op, Running(op)
  PROVE  /\ op \notin {"ind", "rc_cmp"} => GuestPC = code[hp].pc /\ GuestStack = stack
         /\ op \in {"ind", "rc_cmp"} => GuestPC = stack[1] /\ GuestStack = DropN(stack, 1)
<1>1. mode = "exec" /\ hp > 0 /\ hp \in Int /\ code[hp].op = op
  BY AtOp DEF Running
<1> QED BY <1>1 DEF GuestPC, GuestStack, InSieve, TargetOnStack, InCodeCache, sieve_stub

\* Control arrives at the code, or at a stub, of guest pc q.
LEMMA Arrive ==
  ASSUME mode' = "exec", NEW d \in Int, NEW q, LeadsTo(d, q), hp' = d, UNCHANGED <<code, stubs>>
  PROVE  GuestPC' = q /\ GuestStack' = stack'
<1>1. CASE d > 0 /\ At(d, q)
  BY <1>1 DEF At, GuestPC, GuestStack, InSieve, TargetOnStack, InCodeCache, sieve_stub
<1>2. CASE d < 0 /\ stubs[-d].to = q
  BY <1>2 DEF GuestPC, GuestStack, InSieve, TargetOnStack, InCodeCache, sieve_stub
<1> QED BY <1>1, <1>2 DEF LeadsTo

\* Control arrives at comparisons or a return site.
LEMMA ArriveTarget ==
  ASSUME mode' = "exec", hp' \in Int, hp' > 0, code'[hp'].op \in {"ind", "rc_cmp"}
  PROVE  GuestPC' = stack'[1] /\ GuestStack' = DropN(stack', 1)
BY DEF GuestPC, GuestStack, InSieve, TargetOnStack, InCodeCache, sieve_stub

\* Control arrives at the sieve.
LEMMA ArriveSieve ==
  ASSUME mode' = "exec", hp' = sieve_stub
  PROVE  GuestPC' = stack'[2] /\ GuestStack' = DropN(stack', 2)
BY DEF GuestPC, GuestStack, InSieve, TargetOnStack, InCodeCache, sieve_stub

\* Control leaves the code cache.
LEMMA Leave ==
  ASSUME mode' = "dispatch"
  PROVE  GuestPC' = eip' /\ GuestStack' = stack'
BY DEF GuestPC, GuestStack, InSieve, TargetOnStack, InCodeCache

\* The guest dies where it is.
LEMMA GuestDies ==
  ASSUME mode = "exec", Die
  PROVE  /\ GuestPC' = GuestPC /\ GuestStack' = GuestStack /\ prog' = prog
         /\ mode \notin {"halted", "faulted"} /\ mode' = "halted"
BY DEF Die, GuestPC, GuestStack, InSieve, TargetOnStack, InCodeCache, cacheVars, hostVars

\* A step that the guest does not see.
LEMMA Unseen ==
  ASSUME prog' = prog, GuestPC' = GuestPC, GuestStack' = GuestStack,
         mode \notin {"halted", "faulted"}, mode' \notin {"halted", "faulted"}
  PROVE  [G!Step]_(G!vars)
BY DEF G!vars

\* A step of the guest to pc q with stack s.
GuestGoes(q, s) ==
  /\ prog' = prog /\ GuestPC' = q /\ GuestStack' = s
  /\ mode \notin {"halted", "faulted"} /\ mode' \notin {"halted", "faulted"}

\* Which is the step of the guest's processor.
LEMMA GuestStep ==
  ASSUME NEW q, NEW s, GuestGoes(q, s), GuestPC \in DOMAIN prog,
         LET i == prog[GuestPC]
         IN  \/ i.kind \in {"nop", "int"} /\ q = GuestPC + 1 /\ s = GuestStack
             \/ i.kind = "push" /\ Len(GuestStack) < MaxStack /\ q = GuestPC + 1 /\ s = <<i.v>> \o GuestStack
             \/ i.kind = "pop" /\ GuestStack # <<>> /\ q = GuestPC + 1 /\ s = Tail(GuestStack)
             \/ i.kind \in {"jcond", "loop"} /\ q \in {i.to, GuestPC + 1} /\ s = GuestStack
             \/ i.kind = "jmp" /\ q = i.to /\ s = GuestStack
             \/ i.kind = "call" /\ Len(GuestStack) < MaxStack /\ q = i.to /\ s = <<GuestPC + 1>> \o GuestStack
             \/ i.kind = "ijmp" /\ q \in i.tgts /\ s = GuestStack
             \/ i.kind = "icall" /\ Len(GuestStack) < MaxStack /\ q \in i.tgts /\ s = <<GuestPC + 1>> \o GuestStack
             \/ i.kind = "ret" /\ Len(GuestStack) > i.n /\ q = Head(GuestStack) /\ s = DropN(GuestStack, i.n + 1)
  PROVE  [G!Step]_(G!vars)
<1>1. G!Goto(q, s) /\ G!Mapped /\ G!Insn = prog[GuestPC]
  BY DEF GuestGoes, G!Goto, G!Mapped, G!Insn
<1>2. \/ G!Plain \/ G!Push \/ G!Pop \/ G!Branch \/ G!Jump \/ G!Call
      \/ G!IndirectJump \/ G!IndirectCall \/ G!Return
  BY <1>1 DEF G!Plain, G!Push, G!Pop, G!Branch, G!Jump, G!Call, G!IndirectJump, G!IndirectCall, G!Return,
       G!PopN, DropN
<1> QED BY <1>1, <1>2 DEF G!Step, GuestGoes

\* A step that ends the guest, which its processor takes too.
LEMMA GuestStop ==
  ASSUME mode = "exec", Die, GuestPC \in DOMAIN prog,
         LET i == prog[GuestPC]
         IN  \/ i.kind = "exit"
             \/ i.kind \in {"push", "call", "icall"} /\ Len(GuestStack) >= MaxStack
             \/ i.kind = "pop" /\ GuestStack = <<>>
             \/ i.kind = "ret" /\ Len(GuestStack) <= i.n
  PROVE  [G!Step]_(G!vars)
<1>1. G!Mapped /\ G!Insn = prog[GuestPC]
  BY DEF G!Mapped, G!Insn
<1>2. G!Insn.kind = "exit" \/ G!StackFault
  BY <1>1 DEF G!StackFault
<1>3. G!Stop
  BY GuestDies DEF G!Stop
<1>4. mode \notin {"halted", "faulted"}
  BY GuestDies
<1> QED BY <1>1, <1>2, <1>3, <1>4 DEF G!Step

(***************************************************************************)
(* Running the code                                                        *)
(***************************************************************************)

\* What every operation of guest code has in common.
LEMMA AtGuestOp ==
  ASSUME IInv, NEW op, Running(op), op \notin {"ind", "rc_cmp"}
  PROVE  /\ GuestPC = code[hp].pc /\ GuestStack = stack /\ code[hp].pc \in Nat
         /\ mode = "exec" /\ OpOK(hp) /\ code[hp].op = op /\ stack \in Seq(Nat) /\ hp \in DOMAIN code /\ hp \in Int
         /\ code[hp] \in HostOps /\ Len(stack) \in Nat /\ MaxStack \in Nat
<1>1. Len(stack) \in Nat /\ MaxStack \in Nat
  BY AtOp, LenProperties, SizeAssumption
<1>2. code[hp].pc \in Nat
  BY AtOp, OpKinds
<1> QED BY <1>1, <1>2, AtOp, GuestAtOp

\* Falling through to the next operation.
LEMMA ArriveNext ==
  ASSUME IInv, mode = "exec", NEW a \in DOMAIN code, NEW q, FallsTo(a, q),
         mode' = "exec", hp' = a + 1, UNCHANGED <<code, stubs>>
  PROVE  GuestPC' = q /\ GuestStack' = stack'
<1>1. At(a + 1, q) /\ a \in Nat
  BY FallStep, Domains DEF IInv, CacheInv
<1>2. LeadsTo(a + 1, q) /\ a + 1 \in Int
  BY <1>1 DEF LeadsTo
<1> QED BY <1>2, Arrive

\* Arriving at the jump of a call or of a loop instruction.
LEMMA ArriveJmp ==
  ASSUME IInv, NEW a, NEW q, a + 1 \in Int, Leads(a + 1, q),
         mode' = "exec", hp' = a + 1, UNCHANGED <<code, stubs>>
  PROVE  GuestPC' = q /\ GuestStack' = stack'
<1>1. a + 1 > 0
  BY Domains DEF IInv, CacheInv, Leads, OpIs
<1>2. LeadsTo(a + 1, q)
  BY <1>1 DEF Leads, LeadsTo, At, OpIs
<1> QED BY <1>2, Arrive

\* An instruction without effect on control, a push or a pop.
LEMMA InsnRefines == ASSUME IInv, RunInsn PROVE [G!Step]_(G!vars)
<1>1. Running("insn")
  BY DEF RunInsn
<1>2. /\ GuestPC = code[hp].pc /\ GuestStack = stack /\ mode = "exec" /\ OpOK(hp) /\ code[hp].op = "insn"
      /\ stack \in Seq(Nat) /\ hp \in DOMAIN code /\ Len(stack) \in Nat /\ MaxStack \in Nat
  BY <1>1, AtGuestOp
<1>3. /\ FallsTo(hp, code[hp].pc + 1) /\ GuestPC \in DOMAIN prog
      /\ prog[GuestPC].kind \in {"nop", "int", "push", "pop"}
  BY <1>2 DEF OpOK, IsInsn
<1>4. ASSUME NEW s, Goto(hp + 1, s) PROVE GuestGoes(GuestPC + 1, s)
  <2>1. mode' = "exec" /\ hp' = hp + 1 /\ UNCHANGED <<code, stubs, prog>> /\ stack' = s
    BY <1>2, <1>4 DEF Goto, cacheVars
  <2>2. PICK q : q = code[hp].pc + 1
    OBVIOUS
  <2>3. PICK a : a = hp
    OBVIOUS
  <2>4. FallsTo(a, q) /\ hp' = a + 1 /\ a \in DOMAIN code
    BY <1>2, <1>3, <2>1, <2>2, <2>3
  <2>5. GuestPC' = q /\ GuestStack' = s
    BY <1>2, <2>1, <2>4, ArriveNext
  <2> QED BY <1>2, <2>1, <2>2, <2>5 DEF GuestGoes
<1>5. PICK i : i = prog[GuestPC]
  OBVIOUS
<1>6. i = prog[Op.pc]
  BY <1>2, <1>5 DEF Op
<1>7. CASE i.kind \in {"nop", "int"} /\ Goto(hp + 1, stack)
  BY <1>2, <1>3, <1>4, <1>5, <1>7, GuestStep
<1>8. CASE i.kind = "push" /\ ~ StackFull /\ Goto(hp + 1, <<i.v>> \o stack)
  <2>1. Len(GuestStack) < MaxStack
    BY <1>2, <1>8 DEF StackFull
  <2>2. GuestGoes(GuestPC + 1, <<i.v>> \o GuestStack)
    BY <1>2, <1>4, <1>8
  <2> QED BY <1>3, <1>5, <1>8, <2>1, <2>2, GuestStep
<1>9. CASE i.kind = "push" /\ StackFull /\ Die
  BY <1>2, <1>3, <1>5, <1>9, GuestStop DEF StackFull
<1>10. CASE i.kind = "pop" /\ stack # <<>> /\ Goto(hp + 1, Tail(stack))
  <2>1. GuestGoes(GuestPC + 1, Tail(GuestStack))
    BY <1>2, <1>4, <1>10
  <2> QED BY <1>2, <1>3, <1>5, <1>10, <2>1, GuestStep
<1>11. CASE i.kind = "pop" /\ stack = <<>> /\ Die
  BY <1>2, <1>3, <1>5, <1>11, GuestStop
<1> QED BY <1>6, <1>7, <1>8, <1>9, <1>10, <1>11 DEF RunInsn

\* exit_group.
LEMMA ExitRefines == ASSUME IInv, RunExit PROVE [G!Step]_(G!vars)
<1>1. Running("exit") /\ Die
  BY DEF RunExit
<1>2. GuestPC = code[hp].pc /\ mode = "exec" /\ OpOK(hp) /\ code[hp].op = "exit"
  BY <1>1, AtGuestOp
<1>3. GuestPC \in DOMAIN prog /\ prog[GuestPC].kind = "exit"
  BY <1>2 DEF OpOK, IsInsn
<1> QED BY <1>1, <1>2, <1>3, GuestStop

\* A conditional branch.
LEMMA JccRefines == ASSUME IInv, RunJcc PROVE [G!Step]_(G!vars)
<1>1. Running("jcc")
  BY DEF RunJcc
<1>2. /\ GuestPC = code[hp].pc /\ GuestStack = stack /\ mode = "exec" /\ OpOK(hp) /\ code[hp].op = "jcc"
      /\ hp \in DOMAIN code
  BY <1>1, AtGuestOp
<1>3. /\ FallsTo(hp, code[hp].pc + 1) /\ GuestPC \in DOMAIN prog
      /\ prog[GuestPC].kind = "jcond" /\ prog[GuestPC].to = code[hp].to
  BY <1>2 DEF OpOK, IsInsn
<1>4. PICK a : a = hp
  OBVIOUS
<1>5. CASE Goto(code[hp].dest, stack)
  <2>1. PICK d : d = code[hp].dest
    OBVIOUS
  <2>2. PICK q : q = code[hp].to
    OBVIOUS
  <2>3. d \in Int /\ LeadsTo(d, q)
    <3>1. IsJump(hp) /\ Len(stubs) \in Nat /\ Len(code) \in Nat
      BY <1>2, Domains DEF IsJump, IInv, CacheInv
    <3> QED BY <1>2, <2>1, <2>2, <3>1, DestStep
  <2>4. mode' = "exec" /\ hp' = d /\ UNCHANGED <<code, stubs, prog>> /\ stack' = stack
    BY <1>2, <1>5, <2>1 DEF Goto, cacheVars
  <2>5. GuestPC' = q /\ GuestStack' = stack'
    BY <2>3, <2>4, Arrive
  <2>6. GuestGoes(q, GuestStack)
    BY <1>2, <2>4, <2>5 DEF GuestGoes
  <2> QED BY <1>3, <2>2, <2>6, GuestStep
<1>6. CASE Goto(hp + 1, stack)
  <2>1. mode' = "exec" /\ hp' = a + 1 /\ UNCHANGED <<code, stubs, prog>> /\ stack' = stack
    BY <1>2, <1>4, <1>6 DEF Goto, cacheVars
  <2>2. PICK q : q = code[hp].pc + 1
    OBVIOUS
  <2>3. GuestPC' = q /\ GuestStack' = stack'
    BY <1>2, <1>3, <1>4, <2>1, <2>2, ArriveNext
  <2>4. GuestGoes(q, GuestStack)
    BY <1>2, <2>1, <2>3 DEF GuestGoes
  <2> QED BY <1>2, <1>3, <2>2, <2>4, GuestStep
<1> QED BY <1>5, <1>6 DEF RunJcc, Op

\* jecxz and loop.
LEMMA LoopRefines == ASSUME IInv, RunLoop PROVE [G!Step]_(G!vars)
<1>1. Running("loop")
  BY DEF RunLoop
<1>2. /\ GuestPC = code[hp].pc /\ GuestStack = stack /\ mode = "exec" /\ OpOK(hp) /\ code[hp].op = "loop"
      /\ hp \in DOMAIN code /\ hp \in Int
  BY <1>1, AtGuestOp
<1>3. /\ Leads(hp + 1, prog[GuestPC].to) /\ FallsTo(hp + 1, code[hp].pc + 1) /\ GuestPC \in DOMAIN prog
      /\ prog[GuestPC].kind = "loop"
  BY <1>2 DEF OpOK, IsInsn
<1>4. PICK a : a = hp
  OBVIOUS
<1>5. CASE Goto(hp + 1, stack)
  <2>1. mode' = "exec" /\ hp' = a + 1 /\ UNCHANGED <<code, stubs, prog>> /\ stack' = stack
    BY <1>2, <1>4, <1>5 DEF Goto, cacheVars
  <2>2. PICK q : q = prog[GuestPC].to
    OBVIOUS
  <2>3. a + 1 \in Int /\ Leads(a + 1, q)
    BY <1>2, <1>3, <1>4, <2>2
  <2>4. GuestPC' = q /\ GuestStack' = stack'
    BY <2>1, <2>3, ArriveJmp
  <2>5. GuestGoes(q, GuestStack)
    BY <1>2, <2>1, <2>4 DEF GuestGoes
  <2> QED BY <1>3, <2>2, <2>5, GuestStep
<1>6. CASE Goto(hp + 2, stack)
  <2>1. PICK b : b = hp + 1
    OBVIOUS
  <2>2. mode' = "exec" /\ hp' = b + 1 /\ UNCHANGED <<code, stubs, prog>> /\ stack' = stack
    BY <1>2, <1>6, <2>1 DEF Goto, cacheVars
  <2>3. PICK q : q = code[hp].pc + 1
    OBVIOUS
  <2>4. b \in DOMAIN code /\ FallsTo(b, q)
    BY <1>3, <2>1, <2>3 DEF Leads, OpIs
  <2>5. GuestPC' = q /\ GuestStack' = stack'
    BY <1>2, <2>2, <2>4, ArriveNext
  <2>6. GuestGoes(q, GuestStack)
    BY <1>2, <2>2, <2>5 DEF GuestGoes
  <2> QED BY <1>2, <1>3, <2>3, <2>6, GuestStep
<1> QED BY <1>5, <1>6 DEF RunLoop

\* A jump: the guest's, or one of the translator's own, which the guest does not
\* see.
LEMMA JmpRefines == ASSUME IInv, RunJmp PROVE [G!Step]_(G!vars)
<1>1. Running("jmp") /\ Goto(code[hp].dest, stack)
  BY DEF RunJmp, Op
<1>2. /\ GuestPC = code[hp].pc /\ GuestStack = stack /\ mode = "exec" /\ OpOK(hp) /\ code[hp].op = "jmp"
      /\ hp \in DOMAIN code
  BY <1>1, AtGuestOp
<1>3. PICK d : d = code[hp].dest
  OBVIOUS
<1>4. PICK q : q = code[hp].to
  OBVIOUS
<1>5. d \in Int /\ LeadsTo(d, q)
  <2>1. IsJump(hp) /\ Len(stubs) \in Nat /\ Len(code) \in Nat
    BY <1>2, Domains DEF IsJump, IInv, CacheInv
  <2> QED BY <1>2, <1>3, <1>4, <2>1, DestStep
<1>6. mode' = "exec" /\ hp' = d /\ UNCHANGED <<code, stubs, prog>> /\ stack' = stack
  BY <1>1, <1>2, <1>3 DEF Goto, cacheVars
<1>7. GuestPC' = q /\ GuestStack' = GuestStack
  BY <1>2, <1>5, <1>6, Arrive
<1>8. CASE code[hp].to = code[hp].pc
  BY <1>2, <1>4, <1>6, <1>7, <1>8, Unseen
<1>9. CASE IsInsn(code[hp].pc, {"jmp"}) /\ prog[code[hp].pc].to = code[hp].to
  <2>1. GuestGoes(q, GuestStack)
    BY <1>2, <1>6, <1>7 DEF GuestGoes
  <2> QED BY <1>2, <1>4, <1>9, <2>1, GuestStep DEF IsInsn
<1> QED BY <1>2, <1>8, <1>9 DEF OpOK

\* A direct call.
LEMMA CallRefines == ASSUME IInv, RunCall PROVE [G!Step]_(G!vars)
<1>1. Running("call")
  BY DEF RunCall
<1>2. /\ GuestPC = code[hp].pc /\ GuestStack = stack /\ mode = "exec" /\ OpOK(hp) /\ code[hp].op = "call"
      /\ hp \in DOMAIN code /\ hp \in Int /\ Len(stack) \in Nat /\ MaxStack \in Nat
  BY <1>1, AtGuestOp
<1>3. /\ Leads(hp + 1, prog[GuestPC].to) /\ GuestPC \in DOMAIN prog
      /\ prog[GuestPC].kind = "call" /\ code[hp].ret = GuestPC + 1
  BY <1>2 DEF OpOK, IsInsn
<1>4. CASE StackFull /\ Die
  BY <1>2, <1>3, <1>4, GuestStop DEF StackFull
<1>5. CASE ~ StackFull /\ stack' = <<Op.ret>> \o stack /\ hp' = hp + 1 /\ UnchangedByCall
  <2>1. PICK a : a = hp
    OBVIOUS
  <2>2. PICK q : q = prog[GuestPC].to
    OBVIOUS
  <2>3. mode' = "exec" /\ hp' = a + 1 /\ UNCHANGED <<code, stubs, prog>> /\ stack' = <<GuestPC + 1>> \o GuestStack
    BY <1>2, <1>3, <1>5, <2>1 DEF UnchangedByCall, Op
  <2>4. a + 1 \in Int /\ Leads(a + 1, q)
    BY <1>2, <1>3, <2>1, <2>2
  <2>5. GuestPC' = q /\ GuestStack' = stack'
    BY <2>3, <2>4, ArriveJmp
  <2>6. GuestGoes(q, <<GuestPC + 1>> \o GuestStack)
    BY <1>2, <2>3, <2>5 DEF GuestGoes
  <2>7. Len(GuestStack) < MaxStack
    BY <1>2, <1>5 DEF StackFull
  <2> QED BY <1>3, <2>2, <2>6, <2>7, GuestStep
<1> QED BY <1>4, <1>5 DEF RunCall

\* An indirect jump: its operand is the word on the stack.
LEMMA IJmpRefines == ASSUME IInv, RunIJmp PROVE [G!Step]_(G!vars)
<1>1. Running("ijmp")
  BY DEF RunIJmp
<1>2. /\ GuestPC = code[hp].pc /\ GuestStack = stack /\ mode = "exec" /\ OpOK(hp) /\ code[hp].op = "ijmp"
      /\ hp \in DOMAIN code /\ hp \in Int /\ hp > 0 /\ stack \in Seq(Nat) /\ prog \in Programs
  BY <1>1, AtGuestOp, AtOp
<1>3. /\ OpIs(hp + 1, "ind") /\ GuestPC \in DOMAIN prog /\ prog[GuestPC].kind = "ijmp"
  BY <1>2 DEF OpOK, IsInsn
<1>4. PICK t \in prog[GuestPC].tgts : stack' = <<t>> \o stack
  BY <1>2 DEF RunIJmp, Op
<1>5. t \in Nat
  BY <1>2, <1>3, <1>4, ProgramFacts
<1>6. mode' = "exec" /\ hp' = hp + 1 /\ UNCHANGED <<code, prog>>
  BY <1>2 DEF RunIJmp, UnchangedByCall
<1>7. GuestPC' = stack'[1] /\ GuestStack' = DropN(stack', 1)
  <2>1. hp' \in Int /\ hp' > 0 /\ code'[hp'].op \in {"ind", "rc_cmp"}
    BY <1>2, <1>3, <1>6 DEF OpIs
  <2> QED BY <1>6, <2>1, ArriveTarget
<1>8. (<<t>> \o stack)[1] = t /\ DropN(<<t>> \o stack, 1) = stack
  <2>1. /\ (<<t>> \o stack)[1] = t /\ DropN(<<t>> \o stack, 0 + 1) = DropN(stack, 0) /\ DropN(stack, 0) = stack
    BY <1>2, <1>5, PushDrop
  <2> QED BY <2>1
<1>9. GuestGoes(t, GuestStack)
  BY <1>2, <1>4, <1>6, <1>7, <1>8 DEF GuestGoes
<1> QED BY <1>3, <1>4, <1>9, GuestStep

\* An indirect call.
LEMMA ICallRefines == ASSUME IInv, RunICall PROVE [G!Step]_(G!vars)
<1>1. Running("icall")
  BY DEF RunICall
<1>2. /\ GuestPC = code[hp].pc /\ GuestStack = stack /\ mode = "exec" /\ OpOK(hp) /\ code[hp].op = "icall"
      /\ hp \in DOMAIN code /\ hp \in Int /\ hp > 0 /\ stack \in Seq(Nat) /\ prog \in Programs
      /\ Len(stack) \in Nat /\ MaxStack \in Nat /\ code[hp].pc \in Nat
  BY <1>1, AtGuestOp, AtOp
<1>3. /\ OpIs(hp + 1, "ind") /\ GuestPC \in DOMAIN prog /\ prog[GuestPC].kind = "icall"
      /\ code[hp].ret = GuestPC + 1
  BY <1>2 DEF OpOK, IsInsn
<1>4. CASE StackFull /\ Die
  BY <1>2, <1>3, <1>4, GuestStop DEF StackFull
<1>5. CASE /\ ~ StackFull /\ hp' = hp + 1 /\ UnchangedByCall
           /\ \E t \in prog[Op.pc].tgts : stack' = <<t, Op.ret>> \o stack
  <2>1. PICK r : r = GuestPC + 1
    OBVIOUS
  <2>2. PICK t \in prog[GuestPC].tgts : stack' = <<t, r>> \o stack
    BY <1>2, <1>3, <1>5, <2>1 DEF Op
  <2>3. t \in Nat /\ r \in Nat
    BY <1>2, <1>3, <2>1, <2>2, ProgramFacts
  <2>4. PICK s : s = <<r>> \o stack
    OBVIOUS
  <2>5. s \in Seq(Nat)
    BY <1>2, <2>3, <2>4, PushDrop
  <2>6. stack' = <<t>> \o s
    BY <1>2, <2>2, <2>3, <2>4
  <2>7. mode' = "exec" /\ hp' = hp + 1 /\ UNCHANGED <<code, prog>>
    BY <1>2, <1>5 DEF UnchangedByCall
  <2>8. GuestPC' = stack'[1] /\ GuestStack' = DropN(stack', 1)
    <3>1. hp' \in Int /\ hp' > 0 /\ code'[hp'].op \in {"ind", "rc_cmp"}
      BY <1>2, <1>3, <2>7 DEF OpIs
    <3> QED BY <2>7, <3>1, ArriveTarget
  <2>9. (<<t>> \o s)[1] = t /\ DropN(<<t>> \o s, 1) = s
    <3>1. /\ (<<t>> \o s)[1] = t /\ DropN(<<t>> \o s, 0 + 1) = DropN(s, 0) /\ DropN(s, 0) = s
      BY <2>3, <2>5, PushDrop
    <3> QED BY <3>1
  <2>10. GuestGoes(t, <<GuestPC + 1>> \o GuestStack)
    BY <1>2, <2>1, <2>4, <2>6, <2>7, <2>8, <2>9 DEF GuestGoes
  <2>11. Len(GuestStack) < MaxStack
    BY <1>2, <1>5 DEF StackFull
  <2> QED BY <1>3, <2>2, <2>10, <2>11, GuestStep
<1> QED BY <1>4, <1>5 DEF RunICall

\* Copying a return-cache entry, which the guest does not see.
LEMMA CopyRcRefines == ASSUME IInv, RunCopyRc PROVE [G!Step]_(G!vars)
<1>1. Running("copy_rc")
  BY DEF RunCopyRc
<1>2. /\ GuestPC = code[hp].pc /\ GuestStack = stack /\ mode = "exec" /\ OpOK(hp) /\ code[hp].op = "copy_rc"
      /\ hp \in DOMAIN code /\ hp \in Int /\ hp > 0
  BY <1>1, AtGuestOp, AtOp
<1>3. OpIs(hp + 1, "jmp") /\ code[hp + 1].pc = GuestPC
  BY <1>2 DEF OpOK
<1>4. PICK q : q = GuestPC
  OBVIOUS
<1>5. PICK d : d = hp + 1
  OBVIOUS
<1>6. mode' = "exec" /\ hp' = d /\ UNCHANGED <<code, stubs, prog, stack>>
  BY <1>2, <1>5 DEF RunCopyRc, UnchangedByCall
<1>7. d \in Int /\ LeadsTo(d, q)
  BY <1>2, <1>3, <1>4, <1>5 DEF LeadsTo, At, OpIs
<1>8. GuestPC' = q /\ GuestStack' = stack'
  BY <1>6, <1>7, Arrive
<1> QED BY <1>2, <1>4, <1>6, <1>8, Unseen

\* The two words on top of the stack in the sieve.
LEMMA SieveWords ==
  ASSUME NEW s \in Seq(Nat), s # <<>>
  PROVE  /\ (<<GuestECX>> \o s)[2] = Head(s) /\ DropN(<<GuestECX>> \o s, 2) = Tail(s)
<1>1. GuestECX \in Int /\ s \in Seq(Int)
  BY SeqIntOfNat DEF GuestECX
<1>2. /\ Head(s) = s[1] /\ Tail(s) = DropN(s, 1) /\ Len(s) \in Nat /\ Len(s) >= 1
  BY <1>1, TopWord
<1>3. /\ \A i \in 1 .. Len(s) : (<<GuestECX>> \o s)[i + 1] = s[i]
      /\ \A n \in Nat : n <= Len(s) => DropN(<<GuestECX>> \o s, n + 1) = DropN(s, n)
  BY <1>1, PushDrop
<1>4. 1 \in 1 .. Len(s) /\ 1 \in Nat /\ 1 + 1 = 2
  BY <1>2
<1>5. (<<GuestECX>> \o s)[1 + 1] = s[1]
  BY <1>3, <1>4
<1>6. DropN(<<GuestECX>> \o s, 1 + 1) = DropN(s, 1)
  BY <1>2, <1>3
<1> QED BY <1>2, <1>4, <1>5, <1>6

\* Entering the sieve with a target on the stack.
LEMMA OnSieve ==
  ASSUME mode = "exec", ecx = GuestECX, NEW s \in Seq(Nat), s # <<>>, EnterSieve(s)
  PROVE  GuestPC' = Head(s) /\ GuestStack' = Tail(s) /\ mode' = "exec" /\ prog' = prog
<1>1. mode' = "exec" /\ prog' = prog /\ hp' = sieve_stub /\ stack' = <<GuestECX>> \o s
  BY DEF EnterSieve, Goto
<1>2. GuestPC' = stack'[2] /\ GuestStack' = DropN(stack', 2)
  BY <1>1, ArriveSieve
<1> QED BY <1>1, <1>2, SieveWords

\* Leaving the code cache for the dispatcher from an indirect branch or the sieve.
LEMMA OnExit ==
  ASSUME NEW t, NEW type, NEW s, cemit_exit_tb(t, type, s)
  PROVE  GuestPC' = s[2] /\ GuestStack' = DropN(s, 2) /\ mode' = "dispatch" /\ prog' = prog
<1>1. mode' = "dispatch" /\ prog' = prog /\ eip' = s[2] /\ stack' = DropN(s, 2)
  BY DEF cemit_exit_tb
<1> QED BY <1>1, Leave

\* Jumping to the code of a guest pc.
LEMMA OnCode ==
  ASSUME mode = "exec", IInv, NEW d, NEW q, NEW s, At(d, q), Goto(d, s)
  PROVE  GuestPC' = q /\ GuestStack' = s /\ mode' = "exec" /\ prog' = prog
<1>1. d \in Int /\ LeadsTo(d, q)
  BY Domains DEF At, LeadsTo, IInv, CacheInv
<1>2. mode' = "exec" /\ prog' = prog /\ hp' = d /\ UNCHANGED <<code, stubs>> /\ stack' = s
  BY DEF Goto, cacheVars
<1> QED BY <1>1, <1>2, Arrive

\* What is known at a comparison of a target on the stack.
LEMMA AtTarget ==
  ASSUME IInv, NEW op \in {"ind", "rc_cmp"}, Running(op)
  PROVE  /\ GuestPC = Head(stack) /\ GuestStack = Tail(stack) /\ stack \in Seq(Nat) /\ stack # <<>>
         /\ ecx = GuestECX /\ mode = "exec" /\ hp \in DOMAIN code /\ code[hp].op = op /\ OpOK(hp)
<1>1. /\ stack \in Seq(Nat) /\ stack # <<>> /\ ecx = GuestECX /\ mode = "exec"
      /\ hp \in DOMAIN code /\ code[hp].op = op /\ OpOK(hp)
  BY AtOp
<1>2. GuestPC = stack[1] /\ GuestStack = DropN(stack, 1)
  BY GuestAtOp
<1> QED BY <1>1, <1>2, TopWord

\* The comparisons of an indirect branch, which the guest does not see.
LEMMA IndRefines == ASSUME IInv, RunInd PROVE [G!Step]_(G!vars)
<1> DEFINE hits == SlotHits(Op.slots, Head(stack))
<1>1. Running("ind")
  BY DEF RunInd
<1>2. /\ GuestPC = Head(stack) /\ GuestStack = Tail(stack) /\ stack \in Seq(Nat) /\ stack # <<>>
      /\ ecx = GuestECX /\ mode = "exec" /\ hp \in DOMAIN code /\ code[hp].op = "ind" /\ OpOK(hp)
  BY <1>1, AtTarget
<1>3. CASE hits # {} /\ (LET i == CHOOSE i \in hits : \A j \in hits : i <= j
                         IN  Goto(Op.slots[i].dest, Tail(stack)))
  <2> DEFINE first == CHOOSE i \in hits : \A j \in hits : i <= j
  <2>1. first \in hits
    <3>1. hits \subseteq Int
      BY <1>1, AtOp, OpKinds DEF SlotHits, Op, IndOps
    <3>2. \A i, j \in hits : i = j
      BY <1>2 DEF IInv, CacheInv, IndsOK, IndOK, SlotHits, Op
    <3> QED BY <1>3, <3>1, <3>2, FirstHit
  <2>2. PICK i : i = first
    OBVIOUS
  <2>3. i \in DOMAIN code[hp].slots /\ code[hp].slots[i].src = Head(stack) /\ Goto(code[hp].slots[i].dest, Tail(stack))
    BY <1>3, <2>1, <2>2 DEF SlotHits, Op
  <2>4. PICK d : d = code[hp].slots[i].dest
    OBVIOUS
  <2>5. PICK s : s = Tail(stack)
    OBVIOUS
  <2>6. PICK q : q = Head(stack)
    OBVIOUS
  <2>7. At(d, q) /\ Goto(d, s)
    BY <1>2, <2>3, <2>4, <2>5, <2>6 DEF OpOK
  <2>8. GuestPC' = q /\ GuestStack' = s /\ mode' = "exec" /\ prog' = prog
    BY <1>2, <2>7, OnCode
  <2> QED BY <1>2, <2>5, <2>6, <2>8, Unseen
<1>4. CASE EnterSieve(stack)
  <2>1. PICK s : s = stack
    OBVIOUS
  <2>2. GuestPC' = Head(s) /\ GuestStack' = Tail(s) /\ mode' = "exec" /\ prog' = prog
    BY <1>2, <1>4, <2>1, OnSieve
  <2> QED BY <1>2, <2>1, <2>2, Unseen
<1>5. CASE cemit_exit_tb(Op.tb, Op.ind_type, <<ecx>> \o stack)
  <2>1. PICK s : s = <<GuestECX>> \o stack
    OBVIOUS
  <2>2. PICK t, type : cemit_exit_tb(t, type, s)
    BY <1>2, <1>5, <2>1
  <2>3. GuestPC' = s[2] /\ GuestStack' = DropN(s, 2) /\ mode' = "dispatch" /\ prog' = prog
    BY <2>2, OnExit
  <2>4. s[2] = Head(stack) /\ DropN(s, 2) = Tail(stack)
    BY <1>2, <2>1, SieveWords
  <2> QED BY <1>2, <2>3, <2>4, Unseen
<1> QED BY <1>3, <1>4, <1>5 DEF RunInd

\* The comparison at a return site.
LEMMA RcCmpRefines == ASSUME IInv, RunRcCmp PROVE [G!Step]_(G!vars)
<1>1. Running("rc_cmp")
  BY DEF RunRcCmp
<1>2. /\ GuestPC = Head(stack) /\ GuestStack = Tail(stack) /\ stack \in Seq(Nat) /\ stack # <<>>
      /\ ecx = GuestECX /\ mode = "exec" /\ hp \in DOMAIN code /\ code[hp].op = "rc_cmp" /\ OpOK(hp)
  BY <1>1, AtTarget
<1>3. CASE ReturnsHere /\ Goto(hp + 1, Tail(stack))
  <2>1. PICK d : d = hp + 1
    OBVIOUS
  <2>2. PICK s : s = Tail(stack)
    OBVIOUS
  <2>3. PICK q : q = Head(stack)
    OBVIOUS
  <2>4. FallsTo(hp, q)
    BY <1>2, <1>3, <2>3 DEF OpOK, ReturnsHere, Op
  <2>5. At(d, q) /\ Goto(d, s)
    BY <1>2, <1>3, <2>1, <2>2, <2>4, FallStep
  <2>6. GuestPC' = q /\ GuestStack' = s /\ mode' = "exec" /\ prog' = prog
    BY <1>2, <2>5, OnCode
  <2> QED BY <1>2, <2>2, <2>3, <2>6, Unseen
<1>4. CASE EnterSieve(stack)
  <2>1. PICK s : s = stack
    OBVIOUS
  <2>2. GuestPC' = Head(s) /\ GuestStack' = Tail(s) /\ mode' = "exec" /\ prog' = prog
    BY <1>2, <1>4, <2>1, OnSieve
  <2> QED BY <1>2, <2>1, <2>2, Unseen
<1> QED BY <1>3, <1>4 DEF RunRcCmp

\* A return, through the return cache or the sieve.
LEMMA RetRefines == ASSUME IInv, RunRet PROVE [G!Step]_(G!vars)
<1> DEFINE site == ret_hash_table[Op.entry]
<1> DEFINE moved == <<Head(stack)>> \o DropN(stack, Op.n + 1)
<1>1. Running("ret")
  BY DEF RunRet
<1>2. /\ GuestPC = code[hp].pc /\ GuestStack = stack /\ mode = "exec" /\ OpOK(hp) /\ code[hp].op = "ret"
      /\ hp \in DOMAIN code /\ hp \in Int /\ hp > 0 /\ stack \in Seq(Nat) /\ ecx = GuestECX /\ Len(stack) \in Nat
  BY <1>1, AtGuestOp, AtOp
<1>3. code[hp] \in RetOps
  BY <1>1, AtOp, OpKinds
<1>4. PICK n : n = Op.n
  OBVIOUS
<1>5. /\ GuestPC \in DOMAIN prog /\ prog[GuestPC].kind = "ret" /\ n = prog[GuestPC].n /\ n \in Nat
  BY <1>2, <1>3, <1>4 DEF OpOK, IsInsn, Op, RetOps
<1>6. CASE Len(stack) <= Op.n /\ Die
  BY <1>2, <1>4, <1>5, <1>6, GuestStop
<1>7. ASSUME Len(stack) > Op.n, (site # 0 /\ Goto(site, moved)) \/ EnterSieve(moved)
      PROVE  [G!Step]_(G!vars)
  <2>1. PICK s : s = DropN(stack, n + 1)
    OBVIOUS
  <2>2. PICK q : q = Head(stack)
    OBVIOUS
  <2>3. s \in Seq(Nat) /\ q \in Nat
    <3>1. PICK m \in Nat : m = n + 1
      BY <1>5
    <3>2. m <= Len(stack) /\ stack # <<>>
      BY <1>2, <1>4, <1>5, <1>7, <3>1, EmptySeq
    <3>3. DropN(stack, m) \in Seq(Nat)
      BY <1>2, <3>2, DropNIs
    <3>4. Head(stack) \in Nat
      BY <1>2, <3>2, TopWord
    <3> QED BY <2>1, <2>2, <3>1, <3>3, <3>4
  <2>4. PICK w : w = <<q>> \o s
    OBVIOUS
  <2>5. moved = w
    BY <1>4, <2>1, <2>2, <2>4
  <2>6. w \in Seq(Nat) /\ w # <<>> /\ w[1] = q /\ DropN(w, 1) = s
    <3>1. /\ w \in Seq(Nat) /\ Len(w) = Len(s) + 1 /\ Len(s) \in Nat /\ w[1] = q
          /\ DropN(w, 0 + 1) = DropN(s, 0) /\ DropN(s, 0) = s
      BY <2>3, <2>4, PushDrop
    <3>2. w # <<>>
      BY <3>1, EmptySeq
    <3> QED BY <3>1, <3>2
  <2>7. Head(w) = q /\ Tail(w) = s
    BY <2>6, TopWord
  <2>8. GuestGoes(q, s)
    <3>1. CASE site # 0 /\ Goto(site, moved)
      <4>1. OpIs(site, "rc_cmp")
        BY <1>3, <3>1 DEF IInv, HostInv, HostTypes, ReturnCacheOK, RetOps, Op
      <4>2. site \in Int /\ site > 0
        BY <4>1, Domains DEF OpIs, IInv, CacheInv
      <4>3. mode' = "exec" /\ hp' = site /\ UNCHANGED <<code, prog>> /\ stack' = w
        BY <1>2, <2>5, <3>1 DEF Goto, cacheVars
      <4>4. hp' \in Int /\ hp' > 0 /\ code'[hp'].op \in {"ind", "rc_cmp"}
        BY <4>1, <4>2, <4>3 DEF OpIs
      <4>5. GuestPC' = stack'[1] /\ GuestStack' = DropN(stack', 1)
        BY <4>3, <4>4, ArriveTarget
      <4> QED BY <1>2, <2>6, <4>3, <4>5 DEF GuestGoes
    <3>2. CASE EnterSieve(moved)
      <4>1. EnterSieve(w)
        BY <2>5, <3>2
      <4>2. GuestPC' = Head(w) /\ GuestStack' = Tail(w) /\ mode' = "exec" /\ prog' = prog
        BY <1>2, <2>6, <4>1, OnSieve
      <4> QED BY <1>2, <2>7, <4>2 DEF GuestGoes
    <3> QED BY <1>7, <3>1, <3>2
  <2>9. Len(GuestStack) > n /\ s = DropN(GuestStack, n + 1)
    BY <1>2, <1>4, <1>7, <2>1
  <2> QED BY <1>2, <1>5, <2>2, <2>8, <2>9, GuestStep
<1> QED BY <1>6, <1>7 DEF RunRet

\* The sieve, which the guest does not see.
LEMMA SieveRefines == ASSUME IInv, RunSieve PROVE [G!Step]_(G!vars)
<1> DEFINE nodes == sieve_hashtable[SIEVE_HASH(stack[2])]
<1> DEFINE hits == {i \in DOMAIN nodes : nodes[i].pc = stack[2]}
<1>1. mode = "exec" /\ hp = sieve_stub /\ InSieve
  BY DEF RunSieve, InSieve, InCodeCache
<1>2. GuestPC = stack[2] /\ GuestStack = DropN(stack, 2)
  BY <1>1 DEF GuestPC, GuestStack, InSieve, sieve_stub
<1>3. stack[2] \in Nat
  <2>1. Len(stack) >= 2 /\ (\A i \in 2 .. Len(stack) : stack[i] \in Nat) /\ stack \in Seq(Int)
    BY <1>1 DEF IInv, HostInv, MachineOK, HostTypes
  <2> QED BY <2>1, LenProperties
<1>4. SIEVE_HASH(stack[2]) \in 0 .. SIEVE_SIZE - 1
  BY <1>3, SieveHash
<1>5. nodes \in Seq([pc : Nat, dest : Int])
  BY <1>4 DEF IInv, CacheInv, CacheTypes
<1>6. CASE hits # {} /\ (LET i == CHOOSE i \in hits : \A j \in hits : i <= j
                         IN  Goto(nodes[i].dest, DropN(stack, 2)))
  <2> DEFINE first == CHOOSE i \in hits : \A j \in hits : i <= j
  <2>1. first \in hits
    <3>1. hits \subseteq Int
      BY <1>5
    <3>2. \A i, j \in hits : i = j
      BY <1>4 DEF IInv, CacheInv, CacheTypes, SieveOK
    <3> HIDE DEF hits
    <3> QED BY <1>6, <3>1, <3>2, FirstHit
  <2>2. At(nodes[first].dest, nodes[first].pc) /\ nodes[first].pc = stack[2]
    BY <1>4, <2>1 DEF IInv, CacheInv, CacheTypes, SieveOK
  <2>3. PICK d : d = nodes[first].dest
    OBVIOUS
  <2>4. PICK s : s = DropN(stack, 2)
    OBVIOUS
  <2>5. PICK q : q = stack[2]
    OBVIOUS
  <2>6. At(d, q) /\ Goto(d, s)
    BY <1>6, <2>2, <2>3, <2>4, <2>5
  <2>7. GuestPC' = q /\ GuestStack' = s /\ mode' = "exec" /\ prog' = prog
    BY <1>1, <2>6, OnCode
  <2> QED BY <1>1, <1>2, <2>4, <2>5, <2>7, Unseen
<1>7. CASE cemit_exit_tb(ret_tb, IND_TYPE_CALL, stack)
  <2>1. PICK s : s = stack
    OBVIOUS
  <2>2. PICK t, type : cemit_exit_tb(t, type, s)
    BY <1>7, <2>1
  <2>3. GuestPC' = s[2] /\ GuestStack' = DropN(s, 2) /\ mode' = "dispatch" /\ prog' = prog
    BY <2>2, OnExit
  <2> QED BY <1>1, <1>2, <2>1, <2>3, Unseen
<1> QED BY <1>6, <1>7 DEF RunSieve

\* An exit stub, which the guest does not see.
LEMMA StubRefines == ASSUME IInv, RunStub PROVE [G!Step]_(G!vars)
<1>1. hp \in Int
  BY Domains DEF IInv, HostInv, HostTypes, CacheInv
<1>2. mode = "exec" /\ hp < 0 /\ mode' = "dispatch" /\ prog' = prog /\ eip' = stubs[-hp].to /\ stack' = stack
  BY DEF RunStub, hostVars
<1>3. GuestPC = stubs[-hp].to /\ GuestStack = stack
  BY <1>1, <1>2 DEF GuestPC, GuestStack, InSieve, TargetOnStack, InCodeCache, sieve_stub
<1>4. GuestPC' = eip' /\ GuestStack' = stack'
  BY <1>2, Leave
<1> QED BY <1>2, <1>3, <1>4, Unseen

\* Running code takes the guest's steps, or none.
LEMMA RunRefines == ASSUME IInv, RunCodeCache PROVE [G!Step]_(G!vars)
BY InsnRefines, ExitRefines, JccRefines, LoopRefines, JmpRefines, CallRefines, ICallRefines, IJmpRefines,
   CopyRcRefines, IndRefines, RcCmpRefines, RetRefines, SieveRefines, StubRefines DEF RunCodeCache

(***************************************************************************)
(* The dispatcher and the translator                                       *)
(***************************************************************************)

\* Outside the code cache the guest waits at eip.
LEMMA GuestOutside ==
  /\ mode \notin {"exec", "halted"} => GuestPC = eip /\ GuestStack = stack
  /\ mode' \notin {"exec", "halted"} => GuestPC' = eip' /\ GuestStack' = stack'
BY DEF GuestPC, GuestStack, InSieve, TargetOnStack, InCodeCache

\* Linking changes no code that a block starts with.
LEMMA EntryKept ==
  ASSUME IInv, add_sieve_entry \/ patch_ind_opt \/ tb_add_jump, NEW d, NEW q, At(d, q)
  PROVE  At(d, q)'
<1>1. CASE UNCHANGED code
  BY <1>1 DEF At
<1>2. CASE patch_ind_opt
  <2>1. mode = "link" /\ ind_type # NOT_IND /\ ret_tb # NULL
    BY <1>2 DEF patch_ind_opt, prev_tb
  <2>2. PICK at \in DOMAIN code : code[at].op = "ind" /\ code[at].tb = ret_tb
    BY <2>1 DEF IInv, HostInv, RequestOK, Dispatching
  <2>3. tbs[prev_tb].ind_addr = at
    BY <2>2 DEF IInv, CacheInv, IndsOK, IndOK, prev_tb
  <2>4. DOMAIN code' = DOMAIN code /\ \A a \in DOMAIN code : a # at => code'[a] = code[a]
    BY <1>2, <2>3 DEF patch_ind_opt
  <2>5. d # at
    BY <2>2 DEF At
  <2> QED BY <2>4, <2>5 DEF At
<1>3. CASE /\ tb_add_jump /\ prev_tb # NULL /\ tb # prev_tb
           /\ code' = [code EXCEPT ![LinkAddress].dest = tbs[tb].tc_ptr]
  <2>1. mode = "link" /\ ind_type = NOT_IND /\ ret_tb # NULL /\ tb # ret_tb /\ prog' = prog
    BY <1>3 DEF tb_add_jump, prev_tb, EnterCodeCache
  <2>2. PICK at \in DOMAIN code : at = LinkAddress /\ IsJump(at)
    BY <2>1, LinkIsJump
  <2>3. CacheTypes
    BY DEF IInv, CacheInv
  <2>4. PICK v \in Int : v = tbs[tb].tc_ptr
    BY <2>1, AtLink
  <2>5. code' = [code EXCEPT ![at].dest = v]
    BY <1>3, <2>2, <2>4
  <2>6. Redirects(at, v)
    BY <2>1, <2>2, <2>3, <2>5, SetJump
  <2>7. KeepsCode
    BY <2>6 DEF Redirects
  <2> QED BY <2>7, Persists
<1> QED BY <1>1, <1>2, <1>3 DEF add_sieve_entry, tb_add_jump

\* Linking, then entering the code cache at the code of eip.
LEMMA EnterRefines ==
  ASSUME IInv, add_sieve_entry \/ patch_ind_opt \/ tb_add_jump
  PROVE  [G!Step]_(G!vars)
<1>1. mode = "link"
  BY DEF add_sieve_entry, patch_ind_opt, tb_add_jump
<1>2. GuestPC = eip /\ GuestStack = stack
  BY <1>1, GuestOutside
<1>3. CASE EnterCodeCache
  <2>1. PICK d : d = tbs[tb].tc_ptr
    OBVIOUS
  <2>2. PICK q : q = eip
    OBVIOUS
  <2>3. At(d, q) /\ d \in Nat \ {0}
    BY <1>1, <2>1, <2>2, AtLink
  <2>4. At(d, q)'
    BY <2>3, EntryKept
  <2>5. mode' = "exec" /\ hp' = d /\ prog' = prog /\ stack' = stack
    BY <1>3, <2>1 DEF EnterCodeCache
  <2>6. d \in DOMAIN code' /\ code'[d].op \notin {"ind", "rc_cmp"} /\ code'[d].pc = q
    BY <2>4 DEF At
  <2>7. GuestPC' = q /\ GuestStack' = stack'
    BY <2>3, <2>5, <2>6 DEF GuestPC, GuestStack, InSieve, TargetOnStack, InCodeCache, sieve_stub
  <2> QED BY <1>1, <1>2, <2>2, <2>5, <2>7, Unseen
<1>4. CASE mode' = "aborted" /\ UNCHANGED <<prog, transVars, hostVars, envVars, execVars>>
  <2>1. GuestPC' = eip' /\ GuestStack' = stack' /\ eip' = eip /\ stack' = stack
    BY <1>4, GuestOutside DEF hostVars, envVars
  <2> QED BY <1>1, <1>2, <1>4, <2>1, Unseen
<1> QED BY <1>3, <1>4 DEF add_sieve_entry, patch_ind_opt, tb_add_jump

\* Finding or opening a block, which the guest does not see.
LEMMA GetNextRefines ==
  ASSUME IInv, get_next_tb
  PROVE  [G!Step]_(G!vars)
<1>1. mode = "dispatch" /\ UNCHANGED <<prog, eip, stack>>
  BY DEF get_next_tb, hostVars, envVars
<1>2. mode' \in {"emit", "aborted", "link"}
  BY DEF get_next_tb, cpu_gen_code, tb_flush
<1>3. GuestPC' = GuestPC /\ GuestStack' = GuestStack
  BY <1>1, <1>2, GuestOutside
<1> QED BY <1>1, <1>2, <1>3, Unseen

\* A missing instruction ends the guest, which waits for just that one; nothing
\* else that the translator does is seen by the guest.
LEMMA TranslateRefines ==
  ASSUME IInv, gen_target_code, UNCHANGED <<prog, hostVars, envVars, execVars>>
  PROVE  [G!Step]_(G!vars)
<1>1. UNCHANGED <<prog, eip, stack>>
  BY DEF hostVars, envVars
<1>2. CASE FetchFault
  <2>1. mode = "emit" /\ mode' = "faulted" /\ pc_ptr \notin DOMAIN prog
    BY <1>2 DEF FetchFault
  <2>2. eip \notin DOMAIN prog
    BY <2>1 DEF IInv, CacheInv, AskedOK
  <2>3. GuestPC = eip /\ GuestPC' = GuestPC /\ GuestStack' = GuestStack
    BY <1>1, <2>1, GuestOutside
  <2>4. ~ G!Mapped /\ G!Stop
    BY <1>1, <2>1, <2>2, <2>3 DEF G!Mapped, G!Stop
  <2> QED BY <2>1, <2>4 DEF G!Step
<1>3. CASE ~ FetchFault
  <2>1. mode \in {"emit", "trans_next", "limit", "patch"}
    BY <1>3 DEF gen_target_code, emit_normal, emit_int, emit_jcond, emit_other_jcond, emit_call_disp,
      emit_call_near_mem, emit_jmp_near_mem, emit_ret, emit_jmp, trans_next, CheckLimit, lazy_patch,
      EndTranslation, Decode
  <2>2. mode' \in {"emit", "trans_next", "limit", "patch", "link", "aborted"}
    BY <1>3 DEF gen_target_code, emit_normal, emit_int, emit_jcond, emit_other_jcond, emit_call_disp,
      emit_call_near_mem, emit_jmp_near_mem, emit_ret, emit_jmp, trans_next, CheckLimit, lazy_patch,
      EndTranslation, Continue, EndOfSuperblock, CallTransNext, tb_flush
  <2>3. GuestPC' = GuestPC /\ GuestStack' = GuestStack
    BY <1>1, <2>1, <2>2, GuestOutside
  <2> QED BY <1>1, <2>1, <2>2, <2>3, Unseen
<1> QED BY <1>2, <1>3

(***************************************************************************)
(* The refinement                                                          *)
(***************************************************************************)

\* Before anything is translated the guest is at its entry point.
LEMMA InitRefines == ASSUME Init PROVE G!Init
BY DEF Init, G!Init, GuestPC, GuestStack, InSieve, TargetOnStack, InCodeCache

\* Every step of the translator is a step of the guest's processor, or none.
LEMMA NextRefines ==
  ASSUME IInv, [Next]_vars
  PROVE  [G!Step]_(G!vars)
<1>1. CASE get_next_tb
  BY <1>1, GetNextRefines
<1>2. CASE add_sieve_entry \/ patch_ind_opt \/ tb_add_jump
  BY <1>2, EnterRefines
<1>3. CASE gen_target_code /\ UNCHANGED <<prog, hostVars, envVars, execVars>>
  BY <1>3, TranslateRefines
<1>4. CASE RunCodeCache
  BY <1>4, RunRefines
<1>5. CASE UNCHANGED vars
  <2>1. UNCHANGED <<prog, mode, code, stubs, hp, stack, eip>>
    BY <1>5 DEF vars, cacheVars, hostVars, envVars
  <2>2. GuestPC' = GuestPC /\ GuestStack' = GuestStack
    BY <2>1 DEF GuestPC, GuestStack, InSieve, TargetOnStack, InCodeCache
  <2> QED BY <2>1, <2>2 DEF G!vars
<1> QED BY <1>1, <1>2, <1>3, <1>4, <1>5 DEF Next, Step, Stopped, cpu_exec

\* The translator implements the guest's processor: whatever is linked, inlined,
\* predicted by the sieve or returned to through the return cache, control only
\* goes where the guest's own instruction would go, with the guest's stack.
THEOREM Refinement ==
  ASSUME ShortBlocks
  PROVE  Spec => ImplementsGuest
<1>1. Init => G!Init
  BY InitRefines
<1>2. IInv /\ [Next]_vars => [G!Step]_(G!vars)
  BY NextRefines
<1> QED BY <1>1, <1>2, Invariant, PTL DEF Spec, ImplementsGuest, G!Spec
=============================================================================
