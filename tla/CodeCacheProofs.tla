--------------------------- MODULE CodeCacheProofs ---------------------------
(***************************************************************************)
(* Running the code keeps the invariant of CpuExecInv.  First, facts about  *)
(* the records and sequences that blocks, host operations, stubs and sieve  *)
(* nodes are made of, and what of the invariant survives a step that only   *)
(* adds code, blocks or stubs, or that redirects a jump; TranslateProofs    *)
(* uses them too.  Then one lemma per operation of the code buffer, one for *)
(* the sieve and one for the stubs.                                        *)
(***************************************************************************)
EXTENDS CpuExecInv, TLAPS, SequenceTheorems

(***************************************************************************)
(* Blocks, operations, stubs and sieve nodes                               *)
(***************************************************************************)

\* What kind of record an operation of the code buffer is, by its op.
LEMMA OpKinds ==
  ASSUME NEW c \in HostOps
  PROVE  /\ c.op \in {"insn", "exit", "loop"} => c \in PlainOps
         /\ c.op \in {"jcc", "jmp"} => c \in JumpOps
         /\ c.op = "call" => c \in CallOps
         /\ c.op = "icall" => c \in ICallOps
         /\ c.op = "ijmp" => c \in IJmpOps
         /\ c.op = "ind" => c \in IndOps
         /\ c.op = "rc_cmp" => c \in RcCmpOps
         /\ c.op = "ret" => c \in RetOps
         /\ c.op = "copy_rc" => c \in CopyRcOps
         /\ c.op \notin {"ind", "rc_cmp"} => c.pc \in Nat
BY DEF HostOps, PlainOps, JumpOps, CallOps, ICallOps, IJmpOps, IndOps, RcCmpOps, RetOps, CopyRcOps

\* Giving a jump its destination.
LEMMA SetDest ==
  ASSUME NEW c \in JumpOps, NEW d \in Int
  PROVE  /\ [c EXCEPT !.dest = d] \in JumpOps
         /\ [c EXCEPT !.dest = d].op = c.op
         /\ [c EXCEPT !.dest = d].pc = c.pc
         /\ [c EXCEPT !.dest = d].to = c.to
         /\ [c EXCEPT !.dest = d].dest = d
BY DEF JumpOps

\* The hash of an address is an entry of the return cache.
LEMMA RetHash == ASSUME NEW addr \in Nat PROVE RET_HASH_FUNC(addr) \in 0 .. RET_CACHE_SIZE - 1
<1>1. RET_CACHE_SIZE \in Nat \ {0}
  BY SizeAssumption
<1> QED BY ONLY <1>1 DEF RET_HASH_FUNC

\* And a bucket of the sieve.
LEMMA SieveHash == ASSUME NEW addr \in Nat PROVE SIEVE_HASH(addr) \in 0 .. SIEVE_SIZE - 1
<1>1. SIEVE_SIZE \in Nat \ {0}
  BY SizeAssumption
<1> QED BY ONLY <1>1 DEF SIEVE_HASH

\* The domains of the sequences of the code cache.
LEMMA Domains ==
  ASSUME CacheTypes
  PROVE  /\ DOMAIN tbs = 1 .. Len(tbs) /\ Len(tbs) \in Nat
         /\ DOMAIN code = 1 .. Len(code) /\ Len(code) \in Nat
         /\ DOMAIN stubs = 1 .. Len(stubs) /\ Len(stubs) \in Nat
         /\ DOMAIN patch_array = 1 .. Len(patch_array) /\ Len(patch_array) \in Nat
         /\ \A t \in DOMAIN tbs : tbs[t] \in TBs
         /\ \A a \in DOMAIN code : code[a] \in HostOps
         /\ \A k \in DOMAIN stubs : stubs[k] \in Stubs
         /\ \A i \in DOMAIN patch_array : patch_array[i] \in Patches
BY DEF CacheTypes

\* A program is a sequence whose last instruction does not fall through.
LEMMA ProgramFacts ==
  ASSUME NEW p \in Programs
  PROVE  /\ Len(p) \in Nat \ {0} /\ DOMAIN p = 1 .. Len(p)
         /\ p[Len(p)].kind \in {"jmp", "ijmp", "ret"}
         /\ \A i \in DOMAIN p :
               /\ p[i].kind \in {"jcond", "loop", "jmp", "call"} => p[i].to \in DOMAIN p
               /\ p[i].kind \in {"ijmp", "icall"} => p[i].tgts \subseteq DOMAIN p
               /\ p[i].kind = "push" => p[i].v \in Nat
               /\ p[i].kind = "ret" => p[i].n \in Nat
<1> DEFINE S == UNION {{p[i]} : i \in DOMAIN p}
<1>1. p \in Seq(S) /\ p # <<>>
  BY ProgramAssumption
<1> HIDE DEF S
<1>2. Len(p) \in Nat \ {0} /\ DOMAIN p = 1 .. Len(p)
  BY <1>1, LenProperties, EmptySeq
<1> QED BY <1>2, ProgramAssumption

\* tb_find_fast answers with the block of pc, or NULL if there is none.
LEMMA FindFast ==
  ASSUME CacheTypes, NEW pc
  PROVE  /\ tb_find_fast(pc) \in 0 .. Len(tbs)
         /\ tb_find_fast(pc) # NULL => tb_find_fast(pc) \in DOMAIN tbs /\ tbs[tb_find_fast(pc)].pc = pc
         /\ tb_find_fast(pc) = NULL => \A t \in DOMAIN tbs : tbs[t].pc # pc
<1>1. DOMAIN tbs = 1 .. Len(tbs) /\ Len(tbs) \in Nat
  BY Domains
<1>2. CASE \E t \in DOMAIN tbs : tbs[t].pc = pc
  <2>1. tb_find_fast(pc) = CHOOSE t \in DOMAIN tbs : tbs[t].pc = pc
    BY <1>2 DEF tb_find_fast
  <2>2. tb_find_fast(pc) \in DOMAIN tbs /\ tbs[tb_find_fast(pc)].pc = pc
    BY <1>2, <2>1
  <2> QED BY <2>2, <1>1 DEF NULL
<1>3. CASE ~ \E t \in DOMAIN tbs : tbs[t].pc = pc
  BY <1>1, <1>3 DEF tb_find_fast, NULL
<1> QED BY <1>2, <1>3

(***************************************************************************)
(* Steps that only add to the code, or give a jump another destination     *)
(***************************************************************************)

\* Every operation stays what it is, but for the destination of a jump and the
\* slots of an indirect branch.
KeepsCode ==
  /\ prog' = prog
  /\ \A a \in DOMAIN code :
        /\ a \in DOMAIN code' /\ code'[a].op = code[a].op
        /\ code[a].op \notin {"jcc", "jmp", "ind"} => code'[a] = code[a]
        /\ IsJump(a) => code'[a].pc = code[a].pc /\ code'[a].to = code[a].to

KeepsSlots == \A a \in DOMAIN code : code[a].op = "ind" => code'[a] = code[a]

KeepsBlocks ==
  \A t \in DOMAIN tbs : t \in DOMAIN tbs' /\ tbs'[t].pc = tbs[t].pc

KeepsStubs ==
  \A k \in DOMAIN stubs : k \in DOMAIN stubs' /\ stubs'[k] = stubs[k]

\* What the rest of the code cache relies on survives such a step.
LEMMA Persists ==
  ASSUME KeepsCode, NEW a
  PROVE  /\ \A q : At(a, q) => At(a, q)'
         /\ \A op : OpIs(a, op) => OpIs(a, op)'
         /\ \A q : Leads(a, q) => Leads(a, q)'
         /\ a \in DOMAIN code => IsJump(a)' = IsJump(a)
BY DEF KeepsCode, At, OpIs, Leads, IsJump

\* An operation of the code so far stays right if control that falls off the end
\* of the code meets the code of the right pc.
LEMMA OldOp ==
  ASSUME OpsOK, KeepsCode, CacheTypes,
         Unfinished => \/ /\ Len(code) + 1 \in DOMAIN code' /\ code'[Len(code) + 1].pc = pc_ptr
                          /\ code'[Len(code) + 1].op \notin {"ind", "rc_cmp"}
                       \/ Len(code') = Len(code) /\ Unfinished' /\ pc_ptr' = pc_ptr,
         NEW a \in DOMAIN code, code[a].op = "ind" => code'[a] = code[a]
  PROVE  OpOK(a)'
<1>1. OpOK(a)
  BY DEF OpsOK
<1>2. ASSUME NEW b, NEW q, FallsTo(b, q) PROVE FallsTo(b, q)'
  <2>1. CASE At(b + 1, q)
    BY <2>1, Persists DEF FallsTo
  <2>2. CASE b = Len(code) /\ Unfinished /\ pc_ptr = q
    BY <2>2 DEF FallsTo, At
  <2> QED BY <1>2, <2>1, <2>2 DEF FallsTo
<1>3. CASE code[a].op = "ind"
  <2>1. code'[a] = code[a] /\ \A i \in DOMAIN code[a].slots : At(code[a].slots[i].dest, code[a].slots[i].src)
    BY <1>1, <1>3 DEF OpOK
  <2>2. \A i \in DOMAIN code[a].slots : At(code[a].slots[i].dest, code[a].slots[i].src)'
    BY <2>1, Persists DEF At
  <2> QED BY <1>3, <2>1, <2>2 DEF OpOK, At
<1>4. CASE IsJump(a)
  <2>1. code'[a].op = code[a].op /\ code'[a].pc = code[a].pc /\ code'[a].to = code[a].to /\ prog' = prog
    BY <1>4 DEF KeepsCode
  <2>2. code[a].op = "jcc" => FallsTo(a, code[a].pc + 1)'
    <3>1. SUFFICES ASSUME code[a].op = "jcc" PROVE FallsTo(a, code[a].pc + 1)'
      OBVIOUS
    <3>2. FallsTo(a, code[a].pc + 1)
      BY <1>1, <3>1 DEF OpOK
    <3>3. \A q : q = code[a].pc + 1 => FallsTo(a, q)'
      BY <1>2, <3>2
    <3> QED BY <2>1, <3>3 DEF FallsTo, At
  <2> QED BY <1>1, <1>4, <2>1, <2>2 DEF OpOK, IsJump, IsInsn, FallsTo, At
<1>5. CASE ~ IsJump(a) /\ code[a].op # "ind"
  <2>1. code'[a] = code[a] /\ prog' = prog
    BY <1>5 DEF KeepsCode, IsJump
  <2>2. /\ code[a].op = "insn" => FallsTo(a, code[a].pc + 1)'
        /\ code[a].op = "loop" => Leads(a + 1, prog[code[a].pc].to)' /\ FallsTo(a + 1, code[a].pc + 1)'
        /\ code[a].op = "rc_cmp" => FallsTo(a, code[a].ret)'
    BY <1>1, <1>2, <2>1, Persists DEF OpOK
  <2>3. /\ code[a].op = "call" => Leads(a + 1, prog[code[a].pc].to)' /\ OpIs(a + 2, "rc_cmp")'
        /\ code[a].op = "icall" => OpIs(a + 1, "ind")' /\ OpIs(a + 2, "rc_cmp")'
        /\ code[a].op = "ijmp" => OpIs(a + 1, "ind")'
        /\ code[a].op = "copy_rc" => OpIs(a + 1, "jmp")' /\ code'[a + 1].pc = code[a].pc
    BY <1>1, Persists DEF OpOK, OpIs, Leads, IsJump, KeepsCode
  <2> QED BY <1>1, <1>5, <2>1, <2>2, <2>3 DEF OpOK, IsJump, IsInsn, Leads, OpIs, FallsTo, At
<1> QED BY <1>3, <1>4, <1>5

\* So does all of the code when no slot is written.
LEMMA OldOps ==
  ASSUME OpsOK, KeepsCode, KeepsSlots, CacheTypes,
         Unfinished => \/ /\ Len(code) + 1 \in DOMAIN code' /\ code'[Len(code) + 1].pc = pc_ptr
                          /\ code'[Len(code) + 1].op \notin {"ind", "rc_cmp"}
                       \/ Len(code') = Len(code) /\ Unfinished' /\ pc_ptr' = pc_ptr,
         NEW a \in DOMAIN code
  PROVE  OpOK(a)'
<1>1. code[a].op = "ind" => code'[a] = code[a]
  BY DEF KeepsSlots
<1> QED BY <1>1, OldOp

\* The sieve's nodes stay right.
LEMMA OldNodes ==
  ASSUME SieveOK, KeepsCode, UNCHANGED sieve_hashtable
  PROVE  SieveOK'
BY Persists DEF SieveOK, At, SIEVE_HASH

\* A step of the dispatcher or the translator leaves the machine alone, and what
\* is known of the dispatcher's request stays true.
LEMMA HostKept ==
  ASSUME HostInv, CacheTypes, CacheTypes', KeepsCode, KeepsSlots, KeepsBlocks, KeepsStubs,
         UNCHANGED <<sieve_hashtable, ret_hash_table, hostVars, envVars>>,
         mode \in {"dispatch", "emit", "limit", "trans_next", "patch", "link"},
         mode' \in {"emit", "limit", "trans_next", "patch", "link", "faulted", "aborted"}
  PROVE  HostInv'
<1> USE DEF HostInv, hostVars, envVars
<1>1. Len(tbs) <= Len(tbs') /\ Len(code) <= Len(code') /\ Len(stubs) <= Len(stubs')
  <2>1. /\ DOMAIN tbs' = 1 .. Len(tbs') /\ Len(tbs') \in Nat
        /\ DOMAIN code' = 1 .. Len(code') /\ Len(code') \in Nat
        /\ DOMAIN stubs' = 1 .. Len(stubs') /\ Len(stubs') \in Nat
    BY SMTT(30) DEF CacheTypes
  <2>2. ASSUME NEW m \in Nat, NEW n \in Nat, \A i \in 1 .. m : i \in 1 .. n PROVE m <= n
    <3>1. CASE m = 0
      BY <3>1
    <3>2. CASE m > 0
      BY <2>2, <3>2
    <3> QED BY <3>1, <3>2
  <2>3. Len(tbs) <= Len(tbs')
    BY <2>1, <2>2, Domains DEF KeepsBlocks
  <2>4. Len(code) <= Len(code')
    BY <2>1, <2>2, Domains DEF KeepsCode
  <2>5. Len(stubs) <= Len(stubs')
    BY <2>1, <2>2, Domains DEF KeepsStubs
  <2> QED BY <2>3, <2>4, <2>5
<1>2. HostTypes'
  <2>1. Len(stubs) \in Nat /\ Len(code) \in Nat /\ Len(tbs) \in Nat
    BY Domains
  <2>2. Len(stubs)' \in Nat /\ Len(code)' \in Nat /\ Len(tbs)' \in Nat
    BY SMTT(30) DEF CacheTypes
  <2> QED BY <1>1, <2>1, <2>2 DEF HostTypes
<1>3. ReturnCacheOK'
  BY Persists DEF ReturnCacheOK
<1>4. MachineOK'
  BY DEF MachineOK, InSieve, InCodeCache
<1>5. HostPointerOK'
  BY DEF HostPointerOK, InCodeCache
<1>6. RequestOK'
  BY DEF RequestOK, Dispatching, KeepsStubs, KeepsBlocks, KeepsCode, KeepsSlots, SIEVE_HASH
<1> QED BY <1>2, <1>3, <1>4, <1>5, <1>6

\* Appending to the code.
LEMMA Grow ==
  ASSUME CacheTypes, NEW new \in Seq(HostOps), code' = code \o new, prog' = prog
  PROVE  /\ code' \in Seq(HostOps) /\ Len(code') = Len(code) + Len(new) /\ Len(new) \in Nat
         /\ DOMAIN code' = 1 .. Len(code) + Len(new)
         /\ \A a \in DOMAIN code : code'[a] = code[a]
         /\ \A i \in 1 .. Len(new) : code'[Len(code) + i] = new[i]
         /\ KeepsCode /\ KeepsSlots
<1>1. code \in Seq(HostOps)
  BY DEF CacheTypes
<1>2. /\ code' \in Seq(HostOps) /\ Len(code') = Len(code) + Len(new) /\ Len(new) \in Nat
      /\ Len(code) \in Nat /\ DOMAIN code = 1 .. Len(code)
      /\ \A a \in 1 .. Len(code) + Len(new) :
            code'[a] = IF a <= Len(code) THEN code[a] ELSE new[a - Len(code)]
  BY <1>1, ConcatProperties, LenProperties
<1>3. DOMAIN code' = 1 .. Len(code) + Len(new)
  BY <1>2, LenProperties
<1>4. \A i \in 1 .. Len(new) : code'[Len(code) + i] = new[i]
  <2> SUFFICES ASSUME NEW i \in 1 .. Len(new) PROVE code'[Len(code) + i] = new[i]
    OBVIOUS
  <2>1. /\ Len(code) + i \in 1 .. Len(code) + Len(new)
        /\ ~ (Len(code) + i <= Len(code)) /\ (Len(code) + i) - Len(code) = i
    BY <1>2
  <2> QED BY <1>2, <2>1
<1>5. \A a \in DOMAIN code : code'[a] = code[a] /\ a \in DOMAIN code'
  BY <1>2, <1>3
<1> QED BY <1>2, <1>3, <1>4, <1>5 DEF KeepsCode, KeepsSlots

(***************************************************************************)
(* Updates of one block                                                    *)
(***************************************************************************)

\* The fields of a block.
SameBut(r, s, fields) ==
  /\ "pc" \in fields \/ s.pc = r.pc
  /\ "tc_ptr" \in fields \/ s.tc_ptr = r.tc_ptr
  /\ "patch_num" \in fields \/ s.patch_num = r.patch_num
  /\ "tb_jmp_offset" \in fields \/ s.tb_jmp_offset = r.tb_jmp_offset
  /\ "jmp_from" \in fields \/ s.jmp_from = r.jmp_from
  /\ "ind_addr" \in fields \/ s.ind_addr = r.ind_addr
  /\ "jmp_ind_index" \in fields \/ s.jmp_ind_index = r.jmp_ind_index

\* A block with its count of noted jumps set.
LEMMA SetPatchNum ==
  ASSUME NEW r \in TBs, NEW v \in {0, 1}
  PROVE  /\ [r EXCEPT !.patch_num = v] \in TBs
         /\ SameBut(r, [r EXCEPT !.patch_num = v], {"patch_num"})
         /\ [r EXCEPT !.patch_num = v].patch_num = v
<1>1. [r EXCEPT !.patch_num = v] \in TBs
  BY DEF TBs
<1> QED BY <1>1 DEF SameBut, TBs

\* A block with the address of its comparisons set.
LEMMA SetIndAddr ==
  ASSUME NEW r \in TBs, NEW v \in Nat
  PROVE  /\ [r EXCEPT !.ind_addr = v] \in TBs
         /\ SameBut(r, [r EXCEPT !.ind_addr = v], {"ind_addr"})
         /\ [r EXCEPT !.ind_addr = v].ind_addr = v
<1>1. [r EXCEPT !.ind_addr = v] \in TBs
  BY DEF TBs
<1> QED BY <1>1 DEF SameBut, TBs

\* A block with its code's address set.
LEMMA SetTcPtr ==
  ASSUME NEW r \in TBs, NEW v \in Nat
  PROVE  /\ [r EXCEPT !.tc_ptr = v] \in TBs
         /\ SameBut(r, [r EXCEPT !.tc_ptr = v], {"tc_ptr"})
         /\ [r EXCEPT !.tc_ptr = v].tc_ptr = v
<1>1. [r EXCEPT !.tc_ptr = v] \in TBs
  BY DEF TBs
<1> QED BY <1>1 DEF SameBut, TBs

\* A block with its count of inlined targets set.
LEMMA SetIndIndex ==
  ASSUME NEW r \in TBs, NEW v \in 0 .. IND_SLOT_MAX
  PROVE  /\ [r EXCEPT !.jmp_ind_index = v] \in TBs
         /\ SameBut(r, [r EXCEPT !.jmp_ind_index = v], {"jmp_ind_index"})
         /\ [r EXCEPT !.jmp_ind_index = v].jmp_ind_index = v
<1>1. [r EXCEPT !.jmp_ind_index = v] \in TBs
  BY DEF TBs
<1> QED BY <1>1 DEF SameBut, TBs

\* A block with the offset of one exit set.
LEMMA SetOffset ==
  ASSUME NEW r \in TBs, NEW n \in 0 .. PATCH_MAX - 1, NEW v \in Nat
  PROVE  /\ [r EXCEPT !.tb_jmp_offset[n] = v] \in TBs
         /\ SameBut(r, [r EXCEPT !.tb_jmp_offset[n] = v], {"tb_jmp_offset"})
         /\ [r EXCEPT !.tb_jmp_offset[n] = v].tb_jmp_offset[n] = v
         /\ \A k \in 0 .. PATCH_MAX - 1 : k # n =>
               [r EXCEPT !.tb_jmp_offset[n] = v].tb_jmp_offset[k] = r.tb_jmp_offset[k]
<1> DEFINE f == [r.tb_jmp_offset EXCEPT ![n] = v]
<1>1. /\ f \in [0 .. PATCH_MAX - 1 -> Nat] /\ f[n] = v
      /\ \A k \in 0 .. PATCH_MAX - 1 : k # n => f[k] = r.tb_jmp_offset[k]
  BY DEF TBs
<1>2. [r EXCEPT !.tb_jmp_offset[n] = v] = [r EXCEPT !.tb_jmp_offset = f]
  OBVIOUS
<1> HIDE DEF f
<1>3. [r EXCEPT !.tb_jmp_offset = f] \in TBs /\ [r EXCEPT !.tb_jmp_offset = f].tb_jmp_offset = f
  BY <1>1 DEF TBs
<1>4. SameBut(r, [r EXCEPT !.tb_jmp_offset = f], {"tb_jmp_offset"})
  BY DEF SameBut, TBs
<1> QED BY <1>1, <1>2, <1>3, <1>4

\* A block with one more predecessor in its ring.
LEMMA SetRing ==
  ASSUME NEW r \in TBs, NEW e \in [tb : Nat, n : 0 .. PATCH_MAX - 1]
  PROVE  LET s == [r EXCEPT !.jmp_from[r.jmp_from_index] = e, !.jmp_from_index = (@ + 1) % TB_FROM_MAX]
         IN  /\ s \in TBs /\ SameBut(r, s, {"jmp_from"})
             /\ \A i \in 0 .. TB_FROM_MAX - 1 : s.jmp_from[i] = e \/ s.jmp_from[i] = r.jmp_from[i]
<1> DEFINE f == [r.jmp_from EXCEPT ![r.jmp_from_index] = e]
<1> DEFINE x == (r.jmp_from_index + 1) % TB_FROM_MAX
<1> DEFINE s == [r EXCEPT !.jmp_from = f, !.jmp_from_index = x]
<1>1. f \in [0 .. TB_FROM_MAX - 1 -> [tb : Nat, n : 0 .. PATCH_MAX - 1]]
      /\ \A i \in 0 .. TB_FROM_MAX - 1 : f[i] = e \/ f[i] = r.jmp_from[i]
  BY DEF TBs
<1>2. x \in 0 .. TB_FROM_MAX - 1
  <2>1. r.jmp_from_index \in Nat /\ TB_FROM_MAX \in Nat \ {0}
    BY SizeAssumption DEF TBs
  <2> QED BY <2>1
<1>3. [r EXCEPT !.jmp_from[r.jmp_from_index] = e, !.jmp_from_index = (@ + 1) % TB_FROM_MAX] = s
  BY DEF TBs
<1> HIDE DEF f, x
<1>4. s \in TBs /\ s.jmp_from = f
  BY <1>1, <1>2 DEF TBs
<1>5. SameBut(r, s, {"jmp_from"})
  BY DEF SameBut, TBs
<1> HIDE DEF s
<1> QED BY <1>1, <1>3, <1>4, <1>5

\* A new block.
LEMMA NewBlock ==
  ASSUME NEW q \in Nat, NEW f \in Nat
  PROVE  /\ NewTB(q, f) \in TBs /\ NewTB(q, f).pc = q /\ NewTB(q, f).tc_ptr = NOT_TRANS_YET
         /\ NewTB(q, f).patch_num = 0 /\ NewTB(q, f).jmp_ind_index = 0
         /\ \A i \in 0 .. TB_FROM_MAX - 1 : NewTB(q, f).jmp_from[i].tb = NULL
<1>1. /\ [n \in 0 .. PATCH_MAX - 1 |-> 0] \in [0 .. PATCH_MAX - 1 -> Nat]
      /\ [i \in 0 .. TB_FROM_MAX - 1 |-> NoJmpFrom] \in [0 .. TB_FROM_MAX - 1 -> [tb : Nat, n : 0 .. PATCH_MAX - 1]]
      /\ 0 \in 0 .. TB_FROM_MAX - 1 /\ 0 \in 0 .. IND_SLOT_MAX
  BY SizeAssumption DEF NoJmpFrom, NULL
<1>2. NewTB(q, f) \in TBs
  BY <1>1 DEF NewTB, TBs, NOT_TRANS_YET
<1> QED BY <1>2 DEF NewTB, NoJmpFrom

\* Replacing one block of a store of blocks.
LEMMA ReplaceBlock ==
  ASSUME NEW ts \in Seq(TBs), NEW t \in DOMAIN ts, NEW r \in TBs
  PROVE  /\ [ts EXCEPT ![t] = r] \in Seq(TBs) /\ DOMAIN [ts EXCEPT ![t] = r] = DOMAIN ts
         /\ Len([ts EXCEPT ![t] = r]) = Len(ts)
         /\ [ts EXCEPT ![t] = r][t] = r
         /\ \A u \in DOMAIN ts : u # t => [ts EXCEPT ![t] = r][u] = ts[u]
BY ExceptSeq, LenProperties

\* Adding one.
LEMMA AddBlock ==
  ASSUME NEW ts \in Seq(TBs), NEW r \in TBs
  PROVE  /\ Append(ts, r) \in Seq(TBs) /\ DOMAIN Append(ts, r) = DOMAIN ts \cup {Len(ts) + 1}
         /\ Len(Append(ts, r)) = Len(ts) + 1 /\ Len(ts) \in Nat /\ DOMAIN ts = 1 .. Len(ts)
         /\ Append(ts, r)[Len(ts) + 1] = r
         /\ \A u \in DOMAIN ts : Append(ts, r)[u] = ts[u]
BY AppendProperties, LenProperties

\* us is ts with a jump counted in block c.
CountSet(ts, us, c, v) ==
  /\ us \in Seq(TBs) /\ DOMAIN us = DOMAIN ts
  /\ \A u \in DOMAIN ts : u # c => us[u] = ts[u]
  /\ SameBut(ts[c], us[c], {"patch_num"}) /\ us[c].patch_num = v

\* Setting a block's count of noted jumps in the store.
LEMMA SetCount ==
  ASSUME NEW ts \in Seq(TBs), NEW c \in DOMAIN ts, NEW v \in {0, 1}, NEW us,
         us = [ts EXCEPT ![c].patch_num = v]
  PROVE  CountSet(ts, us, c, v)
<1> DEFINE r == [ts[c] EXCEPT !.patch_num = v]
<1>1. ts[c] \in TBs
  BY LenProperties
<1>2. r \in TBs /\ SameBut(ts[c], r, {"patch_num"}) /\ r.patch_num = v
  BY <1>1, SetPatchNum
<1>3. us = [ts EXCEPT ![c] = r]
  OBVIOUS
<1> HIDE DEF r
<1>4. us \in Seq(TBs) /\ DOMAIN us = DOMAIN ts /\ us[c] = r /\ \A u \in DOMAIN ts : u # c => us[u] = ts[u]
  BY <1>2, <1>3, ReplaceBlock, SMTT(30)
<1> QED BY <1>2, <1>4 DEF CountSet

(***************************************************************************)
(* Steps that link blocks                                                  *)
(***************************************************************************)

\* Blocks keep their pc, and those with code its address.
KeepsTcPtr == \A t \in DOMAIN tbs : tbs[t].tc_ptr \in DOMAIN code => tbs'[t].tc_ptr = tbs[t].tc_ptr

\* Only an exit in nobody's hands may get another offset.
KeepsOffsets ==
  \A t \in DOMAIN tbs : \A n \in 0 .. PATCH_MAX - 1 :
     tbs'[t].tb_jmp_offset[n] = tbs[t].tb_jmp_offset[n] \/ Unused(t, n)

\* A jump keeps its destination, or gets the block of its target.
KeepsDests ==
  \A a \in DOMAIN code : IsJump(a) =>
     \/ code'[a].dest = code[a].dest
     \/ \A u \in DOMAIN tbs : tbs[u].pc = code[a].to /\ tbs[u].tc_ptr \in DOMAIN code =>
           code'[a].dest = tbs[u].tc_ptr

\* An exit that is in use stays where it is.
LEMMA JumpAtKept ==
  ASSUME KeepsCode, KeepsBlocks, KeepsTcPtr, NEW t \in DOMAIN tbs, NEW n, NEW q, JumpAt(t, n, q),
         tbs'[t].tb_jmp_offset[n] = tbs[t].tb_jmp_offset[n]
  PROVE  /\ JumpAt(t, n, q)' /\ LinkAt(t, n)' = LinkAt(t, n)
         /\ LinkAt(t, n) \in DOMAIN code /\ IsJump(LinkAt(t, n)) /\ code[LinkAt(t, n)].to = q
<1>1. tbs'[t].tc_ptr = tbs[t].tc_ptr /\ tbs[t].tc_ptr \in DOMAIN code'
  BY DEF KeepsTcPtr, JumpAt, KeepsCode
<1>2. LinkAt(t, n)' = LinkAt(t, n)
  BY <1>1 DEF LinkAt
<1>3. LinkAt(t, n) \in DOMAIN code /\ IsJump(LinkAt(t, n)) /\ code[LinkAt(t, n)].to = q
  BY DEF JumpAt
<1>4. \A a \in DOMAIN code : IsJump(a) => a \in DOMAIN code' /\ code'[a].op \in {"jcc", "jmp"} /\ code'[a].to = code[a].to
  BY DEF KeepsCode, IsJump
<1>5. JumpAt(t, n, q)'
  <2>1. /\ LinkAt(t, n) \in DOMAIN code' /\ code'[LinkAt(t, n)].op \in {"jcc", "jmp"}
        /\ code'[LinkAt(t, n)].to = q
    BY <1>3, <1>4
  <2> QED BY <1>1, <1>2, <2>1 DEF JumpAt, IsJump
<1> QED BY <1>2, <1>3, <1>5

\* The stubs that are there stay right.
LEMMA StubsKept ==
  ASSUME StubsOK, CacheTypes, KeepsCode, KeepsBlocks, KeepsTcPtr, KeepsOffsets, NEW k \in DOMAIN stubs
  PROVE  \A s : s = stubs[k] => StubOK(s)'
<1> SUFFICES ASSUME NEW s, s = stubs[k] PROVE StubOK(s)'
  OBVIOUS
<1>1. s \in Stubs /\ StubOK(s)
  BY Domains DEF StubsOK
<1>2. s.tb \in DOMAIN tbs' /\ \E u \in DOMAIN tbs' : tbs'[u].pc = s.to
  BY <1>1 DEF StubOK, KeepsBlocks
<1>3. CASE tbs[s.tb].pc = s.to
  BY <1>1, <1>2, <1>3 DEF StubOK, KeepsBlocks
<1>4. CASE tbs[s.tb].pc # s.to
  <2>1. JumpAt(s.tb, s.patch_num, s.to) /\ ~ Unused(s.tb, s.patch_num)
    BY <1>1, <1>4 DEF StubOK, Unused
  <2>2. s.tb \in DOMAIN tbs /\ s.patch_num \in 0 .. PATCH_MAX - 1
    BY <1>1 DEF StubOK, Stubs
  <2>3. tbs'[s.tb].tb_jmp_offset[s.patch_num] = tbs[s.tb].tb_jmp_offset[s.patch_num]
    BY <2>1, <2>2 DEF KeepsOffsets
  <2>4. JumpAt(s.tb, s.patch_num, s.to)'
    BY <2>1, <2>2, <2>3, JumpAtKept
  <2> QED BY <1>2, <2>4 DEF StubOK
<1> QED BY <1>3, <1>4

\* The entries of the rings that are there stay right.
LEMMA RingsKept ==
  ASSUME RingsOK, CacheTypes, KeepsCode, KeepsBlocks, KeepsTcPtr, KeepsOffsets, KeepsDests,
         NEW u \in DOMAIN tbs, NEW i \in 0 .. TB_FROM_MAX - 1
  PROVE  \A from : from = tbs[u].jmp_from[i] => RingOK(u, from)'
<1> SUFFICES ASSUME NEW from, from = tbs[u].jmp_from[i], from.tb # NULL PROVE RingOK(u, from)'
  BY DEF RingOK
<1>1. /\ from.tb \in DOMAIN tbs /\ JumpAt(from.tb, from.n, tbs[u].pc) /\ tbs[u].tc_ptr \in DOMAIN code
      /\ code[LinkAt(from.tb, from.n)].dest = tbs[u].tc_ptr
  BY DEF RingsOK, RingOK
<1>2. from \in [tb : Nat, n : 0 .. PATCH_MAX - 1]
  BY Domains DEF TBs
<1>3. ~ Unused(from.tb, from.n) /\ from.n \in 0 .. PATCH_MAX - 1
  BY <1>2 DEF Unused
<1>4. tbs'[from.tb].tb_jmp_offset[from.n] = tbs[from.tb].tb_jmp_offset[from.n]
  BY <1>1, <1>3 DEF KeepsOffsets
<1>5. PICK q : q = tbs[u].pc
  OBVIOUS
<1>6. /\ JumpAt(from.tb, from.n, q)' /\ LinkAt(from.tb, from.n)' = LinkAt(from.tb, from.n)
      /\ LinkAt(from.tb, from.n) \in DOMAIN code /\ IsJump(LinkAt(from.tb, from.n))
      /\ code[LinkAt(from.tb, from.n)].to = q
  BY <1>1, <1>4, <1>5, JumpAtKept
<1>7. tbs'[u].pc = q /\ tbs'[u].tc_ptr = tbs[u].tc_ptr /\ tbs[u].tc_ptr \in DOMAIN code' /\ from.tb \in DOMAIN tbs'
  BY <1>1, <1>5 DEF KeepsBlocks, KeepsTcPtr, KeepsCode
<1>8. code'[LinkAt(from.tb, from.n)].dest = tbs[u].tc_ptr
  BY <1>1, <1>5, <1>6 DEF KeepsDests
<1> QED BY <1>6, <1>7, <1>8 DEF RingOK, JumpAt

\* An exit stays in nobody's hands if no stub and no entry is added for it.
LEMMA UnusedKept ==
  ASSUME NEW t \in DOMAIN tbs, NEW n, Unused(t, n), KeepsBlocks,
         \A k \in DOMAIN stubs' : \/ k \in DOMAIN stubs /\ stubs'[k] = stubs[k]
                                  \/ stubs'[k].tb = t /\ stubs'[k].patch_num = n => stubs'[k].to = tbs[t].pc,
         \A u \in DOMAIN tbs' : \A i \in 0 .. TB_FROM_MAX - 1 :
            \/ u \in DOMAIN tbs /\ tbs'[u].jmp_from[i] = tbs[u].jmp_from[i]
            \/ tbs'[u].jmp_from[i] # [tb |-> t, n |-> n]
  PROVE  Unused(t, n)'
BY DEF Unused, KeepsBlocks

\* A new block is in nobody's hands.
LEMMA NewUnused ==
  ASSUME StubsOK, RingsOK, NEW t, t \notin DOMAIN tbs, t # NULL, NEW n,
         \A k \in DOMAIN stubs' : \/ k \in DOMAIN stubs /\ stubs'[k] = stubs[k]
                                  \/ stubs'[k].tb \in DOMAIN tbs,
         \A u \in DOMAIN tbs' : \A i \in 0 .. TB_FROM_MAX - 1 :
            \/ u \in DOMAIN tbs /\ tbs'[u].jmp_from[i] = tbs[u].jmp_from[i]
            \/ tbs'[u].jmp_from[i].tb \in DOMAIN tbs \cup {NULL}
  PROVE  Unused(t, n)'
<1>1. \A k \in DOMAIN stubs' : stubs'[k].tb # t
  BY DEF StubsOK, StubOK
<1>2. \A u \in DOMAIN tbs' : \A i \in 0 .. TB_FROM_MAX - 1 : tbs'[u].jmp_from[i].tb # t
  BY DEF RingsOK, RingOK
<1>3. \A u \in DOMAIN tbs' : \A i \in 0 .. TB_FROM_MAX - 1 : tbs'[u].jmp_from[i] # [tb |-> t, n |-> n]
  BY <1>2
<1> QED BY <1>1, <1>3 DEF Unused

\* A jump that has been resolved stays so.
LEMMA ResolvedKept ==
  ASSUME NEW a \in DOMAIN code, Resolved(a), code'[a].dest = code[a].dest, code'[a].to = code[a].to,
         KeepsCode, KeepsBlocks, KeepsTcPtr, KeepsStubs
  PROVE  Resolved(a)'
<1>1. CASE \E k \in DOMAIN stubs : code[a].dest = -k /\ stubs[k].to = code[a].to
  BY <1>1 DEF Resolved, KeepsStubs
<1>2. CASE \E t \in DOMAIN tbs : /\ Translated(t) /\ code[a].dest = tbs[t].tc_ptr
                                 /\ tbs[t].pc = code[a].to /\ tbs[t].tc_ptr \in DOMAIN code
  <2>1. PICK t \in DOMAIN tbs : /\ Translated(t) /\ code[a].dest = tbs[t].tc_ptr
                                /\ tbs[t].pc = code[a].to /\ tbs[t].tc_ptr \in DOMAIN code
    BY <1>2
  <2>2. t \in DOMAIN tbs' /\ tbs'[t].pc = tbs[t].pc /\ tbs'[t].tc_ptr = tbs[t].tc_ptr /\ tbs[t].tc_ptr \in DOMAIN code'
    BY <2>1 DEF KeepsBlocks, KeepsTcPtr, KeepsCode
  <2> QED BY <2>1, <2>2 DEF Resolved, Translated
<1> QED BY <1>1, <1>2 DEF Resolved

\* us is ts with exit n of block s recorded in the ring of block d.
RingSet(ts, us, s, d, n) ==
  /\ us \in Seq(TBs) /\ DOMAIN us = DOMAIN ts
  /\ \A u \in DOMAIN ts : SameBut(ts[u], us[u], {"jmp_from"})
  /\ \A u \in DOMAIN ts : \A i \in 0 .. TB_FROM_MAX - 1 :
        us[u].jmp_from[i] = ts[u].jmp_from[i] \/ (u = d /\ us[u].jmp_from[i] = [tb |-> s, n |-> n])

\* tb_add_jmp_from changes one entry of one ring.
LEMMA AddJmpFrom ==
  ASSUME NEW ts \in Seq(TBs), NEW s \in DOMAIN ts, NEW d \in DOMAIN ts, NEW n \in 0 .. PATCH_MAX - 1,
         NEW us, us = tb_add_jmp_from(ts, s, d, n)
  PROVE  RingSet(ts, us, s, d, n)
<1>1. ts[d] \in TBs /\ [tb |-> s, n |-> n] \in [tb : Nat, n : 0 .. PATCH_MAX - 1] /\ d \in DOMAIN ts
  <2>1. s \in Nat
    BY LenProperties
  <2> QED BY <2>1, LenProperties
<1> DEFINE e == [tb |-> s, n |-> n]
<1> DEFINE r == [ts[d] EXCEPT !.jmp_from[ts[d].jmp_from_index] = e, !.jmp_from_index = (@ + 1) % TB_FROM_MAX]
<1>2. /\ r \in TBs /\ SameBut(ts[d], r, {"jmp_from"})
      /\ \A i \in 0 .. TB_FROM_MAX - 1 : r.jmp_from[i] = e \/ r.jmp_from[i] = ts[d].jmp_from[i]
  <2> HIDE DEF e
  <2>1. e \in [tb : Nat, n : 0 .. PATCH_MAX - 1]
    BY <1>1 DEF e
  <2> QED BY <1>1, <2>1, SetRing
<1>3. us = [ts EXCEPT ![d] = r]
  BY <1>1 DEF tb_add_jmp_from
<1> HIDE DEF r, e
<1>4. us \in Seq(TBs) /\ DOMAIN us = DOMAIN ts /\ us[d] = r /\ \A u \in DOMAIN ts : u # d => us[u] = ts[u]
  BY <1>1, <1>2, <1>3, ReplaceBlock
<1>5. \A x : SameBut(x, x, {"jmp_from"})
  BY DEF SameBut
<1> QED BY <1>2, <1>4, <1>5 DEF e, RingSet

\* us is ts with the offset of exit n of block t set for a jump at address at.
OffsetSet(ts, us, t, n, at) ==
  /\ us \in Seq(TBs) /\ DOMAIN us = DOMAIN ts
  /\ \A u \in DOMAIN ts : SameBut(ts[u], us[u], {"tb_jmp_offset"})
  /\ \A u \in DOMAIN ts : \A k \in 0 .. PATCH_MAX - 1 :
        us[u].tb_jmp_offset[k] = ts[u].tb_jmp_offset[k] \/ (u = t /\ k = n)
  /\ at - ts[t].tc_ptr \in 0 .. OffsetRange - 1 => us[t].tb_jmp_offset[n] = at - ts[t].tc_ptr

\* SetJmpOffset changes one offset of one block.
LEMMA JmpOffset ==
  ASSUME NEW ts \in Seq(TBs), NEW t \in DOMAIN ts, NEW n \in 0 .. PATCH_MAX - 1, NEW at \in Nat,
         NEW us, us = SetJmpOffset(ts, t, n, at)
  PROVE  OffsetSet(ts, us, t, n, at)
<1>1. ts[t] \in TBs /\ ts[t].tc_ptr \in Nat /\ OffsetRange \in Nat \ {0}
  <2>1. ts[t] \in TBs
    BY LenProperties
  <2>2. ts[t].tc_ptr \in Nat
    BY <2>1 DEF TBs
  <2> QED BY <2>1, <2>2, SizeAssumption
<1> DEFINE x == at - ts[t].tc_ptr
<1> DEFINE v == x % OffsetRange
<1>2. x \in Int /\ v \in Nat
  BY <1>1
<1>3. x \in 0 .. OffsetRange - 1 => v = x
  <2> HIDE DEF x
  <2>1. \A r \in Nat \ {0} : \A y \in 0 .. r - 1 : y % r = y
    OBVIOUS
  <2> QED BY <1>1, <1>2, <2>1
<1> DEFINE r == [ts[t] EXCEPT !.tb_jmp_offset[n] = v]
<1>4. us = [ts EXCEPT ![t] = r]
  BY DEF SetJmpOffset
<1> HIDE DEF v
<1>5. /\ r \in TBs /\ SameBut(ts[t], r, {"tb_jmp_offset"}) /\ r.tb_jmp_offset[n] = v
      /\ \A k \in 0 .. PATCH_MAX - 1 : k # n => r.tb_jmp_offset[k] = ts[t].tb_jmp_offset[k]
  BY <1>1, <1>2, SetOffset
<1> HIDE DEF r
<1>6. us \in Seq(TBs) /\ DOMAIN us = DOMAIN ts /\ us[t] = r /\ \A u \in DOMAIN ts : u # t => us[u] = ts[u]
  BY <1>4, <1>5, ReplaceBlock
<1>7. \A b : SameBut(b, b, {"tb_jmp_offset"})
  BY DEF SameBut
<1> QED BY <1>3, <1>5, <1>6, <1>7 DEF OffsetSet

\* Exit n of block s, whose jump is at address at, is linked to block d.
Links(s, n, d, at) ==
  /\ s \in DOMAIN tbs /\ d \in DOMAIN tbs /\ DOMAIN tbs' = DOMAIN tbs
  /\ \A u \in DOMAIN tbs : SameBut(tbs[u], tbs'[u], {"patch_num", "tb_jmp_offset", "jmp_from"})
  /\ \A u \in DOMAIN tbs : \A i \in 0 .. TB_FROM_MAX - 1 :
        tbs'[u].jmp_from[i] = tbs[u].jmp_from[i] \/ (u = d /\ tbs'[u].jmp_from[i] = [tb |-> s, n |-> n])
  /\ tbs[s].tc_ptr \in DOMAIN code /\ tbs[d].tc_ptr \in DOMAIN code
  /\ tbs[s].tc_ptr + tbs'[s].tb_jmp_offset[n] = at
  /\ at \in DOMAIN code' /\ code'[at].op \in {"jcc", "jmp"}
  /\ code'[at].to = tbs[d].pc /\ code'[at].dest = tbs[d].tc_ptr
  /\ KeepsCode /\ KeepsOffsets /\ KeepsDests /\ stubs' = stubs

\* Linking keeps what is known of the links.
LEMMA LinksStep ==
  ASSUME CacheTypes, StubsOK, RingsOK, NEW s, NEW n, NEW d, NEW at, Links(s, n, d, at)
  PROVE  /\ KeepsBlocks /\ KeepsTcPtr /\ KeepsStubs /\ StubsOK' /\ RingsOK'
         /\ \A t \in DOMAIN tbs : \A k : (t # s \/ k # n) /\ Unused(t, k) => Unused(t, k)'
<1>1. \A u \in DOMAIN tbs : tbs'[u].pc = tbs[u].pc /\ tbs'[u].tc_ptr = tbs[u].tc_ptr
  BY DEF Links, SameBut
<1>2. KeepsBlocks /\ KeepsTcPtr /\ KeepsStubs /\ KeepsCode /\ KeepsOffsets /\ KeepsDests
  BY <1>1 DEF Links, KeepsBlocks, KeepsTcPtr, KeepsStubs
<1>3. StubsOK'
  <2> SUFFICES ASSUME NEW k \in DOMAIN stubs PROVE StubOK(stubs[k])'
    BY DEF StubsOK, Links
  <2>1. \A x : x = stubs[k] => StubOK(x)'
    BY <1>2, StubsKept
  <2>2. stubs' = stubs
    BY DEF Links
  <2> QED BY <2>1, <2>2 DEF StubOK, JumpAt, LinkAt, IsJump
<1>4. RingsOK'
  <2> SUFFICES ASSUME NEW u \in DOMAIN tbs, NEW i \in 0 .. TB_FROM_MAX - 1
               PROVE  RingOK(u, tbs[u].jmp_from[i])'
    BY DEF RingsOK, Links
  <2>1. CASE tbs'[u].jmp_from[i] = tbs[u].jmp_from[i]
    <3>1. \A from : from = tbs[u].jmp_from[i] => RingOK(u, from)'
      BY <1>2, RingsKept
    <3> QED BY <2>1, <3>1 DEF RingOK, JumpAt, LinkAt, IsJump
  <2>2. CASE u = d /\ tbs'[u].jmp_from[i] = [tb |-> s, n |-> n]
    <3>1. tbs'[u].jmp_from[i].tb = s /\ tbs'[u].jmp_from[i].n = n
      BY <2>2
    <3>2. /\ s \in DOMAIN tbs' /\ tbs'[s].tc_ptr = tbs[s].tc_ptr /\ tbs'[u].tc_ptr = tbs[d].tc_ptr /\ tbs'[u].pc = tbs[d].pc
          /\ tbs[s].tc_ptr \in DOMAIN code' /\ tbs[d].tc_ptr \in DOMAIN code'
      BY <1>1, <1>2, <2>2 DEF Links, KeepsCode
    <3>3. /\ tbs[s].tc_ptr + tbs'[s].tb_jmp_offset[n] = at
          /\ at \in DOMAIN code' /\ code'[at].op \in {"jcc", "jmp"}
          /\ code'[at].to = tbs[d].pc /\ code'[at].dest = tbs[d].tc_ptr
      BY DEF Links
    <3> QED BY <3>1, <3>2, <3>3 DEF RingOK, JumpAt, LinkAt, IsJump
  <2> QED BY <2>1, <2>2 DEF Links
<1>5. ASSUME NEW t \in DOMAIN tbs, NEW k, t # s \/ k # n, Unused(t, k) PROVE Unused(t, k)'
  <2>1. DOMAIN tbs' = DOMAIN tbs /\ stubs' = stubs
    BY DEF Links
  <2>2. [tb |-> s, n |-> n] # [tb |-> t, n |-> k]
    <3>1. [tb |-> s, n |-> n].tb = s /\ [tb |-> s, n |-> n].n = n /\ [tb |-> t, n |-> k].tb = t /\ [tb |-> t, n |-> k].n = k
      OBVIOUS
    <3> QED BY <1>5, <3>1
  <2>3. \A u \in DOMAIN tbs' : \A i \in 0 .. TB_FROM_MAX - 1 :
            \/ u \in DOMAIN tbs /\ tbs'[u].jmp_from[i] = tbs[u].jmp_from[i]
            \/ tbs'[u].jmp_from[i] # [tb |-> t, n |-> k]
    BY <2>1, <2>2 DEF Links
  <2> QED BY <1>2, <1>5, <2>1, <2>3, UnusedKept
<1> QED BY <1>2, <1>3, <1>4, <1>5

\* A step of the linker: blocks keep their code and their comparisons, new blocks
\* have neither.
Relinks ==
  /\ mode \in {"trans_next", "patch", "link"} /\ mode' \in {"patch", "exec"}
  /\ tbs' \in Seq(TBs) /\ DOMAIN tbs \subseteq DOMAIN tbs' /\ OneBlockPerPC'
  /\ \A u \in DOMAIN tbs : SameBut(tbs[u], tbs'[u], {"patch_num", "tb_jmp_offset", "jmp_from"})
  /\ \A u \in DOMAIN tbs' \ DOMAIN tbs : tbs'[u].tc_ptr = NOT_TRANS_YET /\ tbs'[u].jmp_ind_index = 0
  /\ KeepsCode /\ KeepsSlots /\ UNCHANGED sieve_hashtable
  /\ \A a \in DOMAIN code' \ DOMAIN code : code'[a].op # "ind"

\* Such a step keeps what is known of blocks and comparisons.
LEMMA RelinksStep ==
  ASSUME CacheInv, Relinks
  PROVE  /\ KeepsBlocks /\ KeepsTcPtr /\ BlocksOK' /\ OpenBlockOK' /\ IndsOK' /\ SieveOK'
         /\ Len(tbs) <= Len(tbs') /\ Len(tbs') \in Nat
<1>1. \A u \in DOMAIN tbs : /\ u \in DOMAIN tbs' /\ tbs'[u].pc = tbs[u].pc /\ tbs'[u].tc_ptr = tbs[u].tc_ptr
                            /\ tbs'[u].ind_addr = tbs[u].ind_addr /\ tbs'[u].jmp_ind_index = tbs[u].jmp_ind_index
  BY DEF Relinks, SameBut
<1>2. KeepsBlocks /\ KeepsTcPtr /\ KeepsCode /\ KeepsSlots
  BY <1>1 DEF KeepsBlocks, KeepsTcPtr, Relinks
<1>3. BlocksOK'
  <2> SUFFICES ASSUME NEW t \in DOMAIN tbs', tbs'[t].tc_ptr # NOT_TRANS_YET
               PROVE  At(tbs[t].tc_ptr, tbs[t].pc)'
    BY DEF BlocksOK
  <2>1. t \in DOMAIN tbs /\ tbs[t].tc_ptr # NOT_TRANS_YET
    BY <1>1 DEF Relinks
  <2>2. At(tbs[t].tc_ptr, tbs[t].pc)
    BY <2>1 DEF CacheInv, BlocksOK, Relinks
  <2>3. \A a, q : At(a, q) => At(a, q)'
    BY <1>2, Persists
  <2> QED BY <1>1, <2>1, <2>2, <2>3 DEF At
<1>4. IndsOK'
  <2>1. ASSUME NEW a \in DOMAIN code', code'[a].op = "ind" PROVE IndOK(a)'
    <3>1. a \in DOMAIN code /\ code[a].op = "ind"
      BY <1>2, <2>1 DEF Relinks, KeepsCode
    <3>2. code'[a] = code[a]
      BY <1>2, <3>1 DEF KeepsSlots
    <3>3. IndOK(a)
      BY <3>1 DEF CacheInv, IndsOK
    <3>4. /\ code[a].tb \in DOMAIN tbs' /\ tbs'[code[a].tb].ind_addr = a
          /\ tbs'[code[a].tb].jmp_ind_index = tbs[code[a].tb].jmp_ind_index
          /\ tbs'[code[a].tb].tc_ptr \in DOMAIN code'
      BY <1>1, <1>2, <3>3 DEF IndOK, KeepsCode
    <3> QED BY <3>2, <3>3, <3>4 DEF IndOK, Emitting, Relinks
  <2>2. \A t \in DOMAIN tbs' : tbs'[t].tc_ptr = NOT_TRANS_YET => tbs'[t].jmp_ind_index = 0
    BY <1>1 DEF CacheInv, IndsOK, Relinks
  <2> QED BY <2>1, <2>2 DEF IndsOK, Emitting, Relinks
<1>5. SieveOK'
  BY <1>2, OldNodes DEF CacheInv, Relinks
<1>6. OpenBlockOK'
  BY DEF OpenBlockOK, Emitting, Relinks
<1>7. Len(tbs) <= Len(tbs') /\ Len(tbs') \in Nat
  <2>1. tbs' \in Seq(TBs)
    BY DEF Relinks
  <2>2. DOMAIN tbs' = 1 .. Len(tbs') /\ Len(tbs') \in Nat
    BY <2>1, LenProperties
  <2>3. DOMAIN tbs = 1 .. Len(tbs) /\ Len(tbs) \in Nat
    BY Domains DEF CacheInv
  <2>4. CASE Len(tbs) = 0
    BY <2>2, <2>4
  <2>5. CASE Len(tbs) # 0
    BY <1>1, <2>2, <2>3, <2>5
  <2> QED BY <2>2, <2>3, <2>4, <2>5
<1> QED BY <1>2, <1>3, <1>4, <1>5, <1>6, <1>7

\* The jump at address at gets the destination v.
Redirects(at, v) ==
  /\ at \in DOMAIN code /\ code[at].op \in {"jcc", "jmp"}
  /\ code' \in Seq(HostOps) /\ DOMAIN code' = DOMAIN code /\ Len(code') = Len(code)
  /\ \A a \in DOMAIN code : a # at => code'[a] = code[a]
  /\ code'[at].op = code[at].op /\ code'[at].to = code[at].to /\ code'[at].dest = v
  /\ KeepsCode /\ KeepsSlots

\* Writing a jump's destination leaves the rest of the code alone.
LEMMA SetJump ==
  ASSUME CacheTypes, prog' = prog, NEW at \in DOMAIN code, IsJump(at), NEW v \in Int,
         code' = [code EXCEPT ![at].dest = v]
  PROVE  Redirects(at, v)
<1> DEFINE r == [code[at] EXCEPT !.dest = v]
<1>1. code \in Seq(HostOps) /\ code[at] \in HostOps /\ code[at].op \in {"jcc", "jmp"}
  BY Domains DEF CacheTypes, IsJump
<1>2. code[at] \in JumpOps
  BY <1>1, OpKinds
<1>3. r \in JumpOps /\ r.op = code[at].op /\ r.pc = code[at].pc /\ r.to = code[at].to /\ r.dest = v
  BY <1>2, SetDest
<1>4. r \in HostOps
  BY <1>3 DEF HostOps
<1>5. code' = [code EXCEPT ![at] = r]
  OBVIOUS
<1> HIDE DEF r
<1>6. /\ code' \in Seq(HostOps) /\ DOMAIN code' = DOMAIN code /\ Len(code') = Len(code)
      /\ code'[at] = r /\ \A a \in DOMAIN code : a # at => code'[a] = code[a]
  <2>1. code' \in Seq(HostOps) /\ Len(code') = Len(code)
    BY <1>1, <1>4, <1>5, ExceptSeq
  <2> QED BY <1>5, <2>1
<1>7. KeepsCode
  BY <1>1, <1>3, <1>6 DEF KeepsCode, IsJump
<1>8. KeepsSlots
  BY <1>1, <1>6 DEF KeepsSlots
<1> QED BY <1>1, <1>3, <1>6, <1>7, <1>8 DEF Redirects

(***************************************************************************)
(* Running the code                                                        *)
(***************************************************************************)

\* Running code changes neither blocks nor code.
LEMMA RunKeepsCache ==
  ASSUME CacheInv, mode = "exec", mode' \in {"exec", "dispatch", "halted"},
         UNCHANGED <<prog, tbs, code, code_gen_ptr, stubs, sieve_hashtable, transVars, execVars>>
  PROVE  CacheInv'
<1> USE DEF CacheInv, transVars, execVars
<1>1. CacheTypes'
  BY DEF CacheTypes
<1>2. OneBlockPerPC'
  BY DEF OneBlockPerPC
<1>3. OpsOK'
  <2> SUFFICES ASSUME NEW a \in DOMAIN code PROVE OpOK(a)'
    BY DEF OpsOK
  <2>1. OpOK(a)
    BY DEF OpsOK
  <2> QED BY <2>1 DEF OpOK, FallsTo, Unfinished, At, IsInsn, Leads, OpIs
<1>4. BlocksOK'
  BY DEF BlocksOK, At, code_ptr
<1>5. OpenBlockOK' /\ AskedOK'
  BY DEF OpenBlockOK, AskedOK, Emitting, code_ptr
<1>6. PatchesOK'
  BY DEF PatchesOK, PatchOK, IsJump, Emitting, Stable
<1>7. JumpsOK'
  BY DEF JumpsOK, IsJump, Resolved, Translated
<1>8. StubsOK' /\ RingsOK'
  <2>1. StubsOK'
    BY DEF StubsOK, StubOK, JumpAt, LinkAt, IsJump
  <2>2. RingsOK'
    BY ZenonT(30) DEF RingsOK, RingOK, JumpAt, LinkAt, IsJump
  <2> QED BY <2>1, <2>2
<1>9. ExitsOK'
  BY DEF ExitsOK, Unused, Emitting
<1>10. IndsOK' /\ SieveOK'
  BY DEF IndsOK, IndOK, SieveOK, Emitting, At, SIEVE_HASH
<1> QED BY <1>1, <1>2, <1>3, <1>4, <1>5, <1>6, <1>7, <1>8, <1>9, <1>10

\* Where a jump leads: to the code, or to a stub, of its guest target.
LeadsTo(d, q) ==
  \/ d > 0 /\ At(d, q)
  \/ d < 0 /\ -d \in DOMAIN stubs /\ stubs[-d].to = q

\* Once lazy_patch is done every jump leads to the code, or to a stub, of its target.
LEMMA JumpLeads ==
  ASSUME CacheInv, Stable, NEW a \in DOMAIN code, IsJump(a)
  PROVE  LeadsTo(code[a].dest, code[a].to)
<1>1. patch_array = <<>>
  BY DEF CacheInv, PatchesOK
<1>2. Resolved(a)
  BY <1>1 DEF CacheInv, JumpsOK
<1>3. CASE \E k \in DOMAIN stubs : code[a].dest = -k /\ stubs[k].to = code[a].to
  <2>1. PICK k \in DOMAIN stubs : code[a].dest = -k /\ stubs[k].to = code[a].to
    BY <1>3
  <2>2. k \in Nat \ {0}
    BY Domains DEF CacheInv
  <2> QED BY <2>1, <2>2 DEF LeadsTo
<1>4. CASE \E t \in DOMAIN tbs : /\ Translated(t) /\ code[a].dest = tbs[t].tc_ptr
                                 /\ tbs[t].pc = code[a].to /\ tbs[t].tc_ptr \in DOMAIN code
  <2>1. PICK t \in DOMAIN tbs : /\ Translated(t) /\ code[a].dest = tbs[t].tc_ptr
                                /\ tbs[t].pc = code[a].to /\ tbs[t].tc_ptr \in DOMAIN code
    BY <1>4
  <2>2. At(tbs[t].tc_ptr, tbs[t].pc)
    BY <2>1 DEF CacheInv, BlocksOK, Translated, Stable
  <2>3. tbs[t].tc_ptr > 0
    BY <2>1, Domains DEF CacheInv
  <2> QED BY <2>1, <2>2, <2>3 DEF LeadsTo
<1> QED BY <1>2, <1>3, <1>4 DEF Resolved

\* A step inside the code cache that ends at a place it may be at.
LEMMA ExecStep ==
  ASSUME IInv, mode = "exec", mode' = "exec",
         UNCHANGED <<prog, tbs, code, code_gen_ptr, stubs, sieve_hashtable, transVars, execVars>>,
         UNCHANGED <<eip, ret_tb, ind_type, patch_num>>, ind_dest' \in Nat,
         hp' \in - Len(stubs) .. Len(code), stack' \in Seq(Int), ecx' \in {GuestECX, Scratch},
         ret_hash_table' \in [0 .. RET_CACHE_SIZE - 1 -> Nat], ReturnCacheOK', MachineOK',
         hp' > 0 /\ code[hp'].op \in {"ind", "rc_cmp"} => stack' # <<>>
  PROVE  IInv'
<1>1. CacheInv'
  BY RunKeepsCache DEF IInv
<1>2. HostTypes'
  BY DEF IInv, HostInv, HostTypes
<1>3. HostPointerOK'
  BY DEF IInv, HostInv, HostPointerOK, InCodeCache
<1>4. RequestOK'
  BY DEF RequestOK, Dispatching
<1> QED BY <1>1, <1>2, <1>3, <1>4 DEF IInv, HostInv

\* A step that ends the process.
LEMMA DieStep ==
  ASSUME IInv, mode = "exec", Die, UNCHANGED execVars
  PROVE  IInv'
<1> USE DEF Die, cacheVars, hostVars, envVars, IInv, HostInv
<1>1. CacheInv'
  BY RunKeepsCache
<1>2. HostTypes'
  BY DEF HostTypes
<1>3. ReturnCacheOK' /\ MachineOK'
  BY DEF ReturnCacheOK, OpIs, MachineOK, InSieve, InCodeCache
<1>4. HostPointerOK'
  BY DEF HostPointerOK, InCodeCache
<1>5. RequestOK'
  BY DEF RequestOK, Dispatching
<1> QED BY <1>1, <1>2, <1>3, <1>4, <1>5

\* A sequence of words.
LEMMA SeqOfNat ==
  ASSUME NEW s \in Seq(Int), \A i \in DOMAIN s : s[i] \in Nat
  PROVE  s \in Seq(Nat)
<1>1. s \in [1 .. Len(s) -> Nat] /\ Len(s) \in Nat
  BY LenProperties
<1> QED BY <1>1, SeqDef

\* A stack of addresses is a stack of words.
LEMMA SeqIntOfNat ==
  ASSUME NEW s \in Seq(Nat)
  PROVE  s \in Seq(Int) /\ \A i \in DOMAIN s : s[i] \in Nat
BY SeqMonotonic, LenProperties

\* What is known when an operation of the code buffer is about to run.
LEMMA AtOp ==
  ASSUME IInv, NEW op, Running(op)
  PROVE  /\ mode = "exec" /\ hp \in DOMAIN code /\ hp > 0 /\ hp \in Int
         /\ code[hp] \in HostOps /\ code[hp].op = op /\ OpOK(hp)
         /\ ecx = GuestECX /\ stack \in Seq(Nat)
         /\ op \in {"ind", "rc_cmp"} => stack # <<>>
         /\ prog \in Programs
         /\ Len(code) \in Nat /\ Len(stubs) \in Nat
         /\ DOMAIN code = 1 .. Len(code) /\ DOMAIN stubs = 1 .. Len(stubs)
<1> USE DEF IInv, HostInv, CacheInv, Running, Op
<1>1. mode = "exec" /\ hp > 0 /\ code[hp].op = op
  OBVIOUS
<1>2. hp \in DOMAIN code
  BY <1>1, Domains DEF HostTypes
<1>3. ecx = GuestECX /\ \A i \in DOMAIN stack : stack[i] \in Nat
  BY <1>1 DEF MachineOK, InSieve, sieve_stub
<1>4. stack \in Seq(Nat)
  BY <1>3, SeqOfNat DEF HostTypes
<1>5. op \in {"ind", "rc_cmp"} => stack # <<>>
  BY <1>1 DEF HostPointerOK, InCodeCache
<1>6. OpOK(hp) /\ hp \in Int /\ prog \in Programs
  BY <1>2 DEF OpsOK, HostTypes, CacheTypes
<1> QED BY <1>1, <1>2, <1>3, <1>4, <1>5, <1>6, Domains

\* A step to guest code or to a stub, with the guest's %ecx.
LEMMA CodeStep ==
  ASSUME IInv, mode = "exec", mode' = "exec",
         UNCHANGED <<prog, tbs, code, code_gen_ptr, stubs, sieve_hashtable, transVars, execVars>>,
         UNCHANGED <<eip, ret_tb, ind_type, patch_num>>, ind_dest' \in Nat,
         ret_hash_table' \in [0 .. RET_CACHE_SIZE - 1 -> Nat], ReturnCacheOK',
         hp' \in - Len(stubs) .. Len(code), hp' # 0, ecx' = GuestECX, stack' \in Seq(Nat),
         hp' > 0 /\ code[hp'].op \in {"ind", "rc_cmp"} => stack' # <<>>
  PROVE  IInv'
<1>1. stack' \in Seq(Int) /\ \A i \in DOMAIN stack' : stack'[i] \in Nat
  BY SeqIntOfNat
<1>2. MachineOK'
  BY <1>1 DEF MachineOK, InSieve, sieve_stub
<1> QED BY <1>1, <1>2, ExecStep

\* A step to the sieve, with a target under the guest's %ecx.
LEMMA SieveStep ==
  ASSUME IInv, mode = "exec", UNCHANGED execVars, ecx = GuestECX,
         NEW s \in Seq(Nat), s # <<>>, EnterSieve(s)
  PROVE  IInv'
<1> USE DEF EnterSieve, Goto, cacheVars, envVars, sieve_stub
<1>1. /\ UNCHANGED <<prog, tbs, code, code_gen_ptr, stubs, sieve_hashtable, transVars, execVars>>
      /\ UNCHANGED <<eip, ret_tb, ind_type, patch_num, ind_dest, ret_hash_table>> /\ mode' = "exec"
      /\ hp' = 0 /\ stack' = <<GuestECX>> \o s /\ ecx' = Scratch
  OBVIOUS
<1>2. s \in Seq(Int) /\ <<GuestECX>> \in Seq(Int) /\ Len(s) \in Nat \ {0} /\ \A i \in 1 .. Len(s) : s[i] \in Nat
  BY SeqIntOfNat, EmptySeq DEF GuestECX
<1>3. /\ stack' \in Seq(Int) /\ Len(stack') = Len(s) + 1
      /\ \A i \in 1 .. Len(s) + 1 : stack'[i] = IF i <= 1 THEN GuestECX ELSE s[i - 1]
  BY <1>1, <1>2, ConcatProperties
<1>4. MachineOK'
  <2>1. Len(stack') >= 2 /\ stack'[1] = GuestECX
    BY <1>2, <1>3
  <2>2. \A i \in 2 .. Len(stack') : stack'[i] \in Nat
    BY <1>2, <1>3
  <2> QED BY <1>1, <2>1, <2>2 DEF MachineOK, InSieve, InCodeCache
<1>5. ReturnCacheOK' /\ ret_hash_table' \in [0 .. RET_CACHE_SIZE - 1 -> Nat]
  BY <1>1 DEF IInv, HostInv, ReturnCacheOK, OpIs, HostTypes
<1>6. ind_dest' \in Nat /\ hp' \in - Len(stubs) .. Len(code)
  BY <1>1, Domains DEF IInv, HostInv, HostTypes, CacheInv
<1> QED BY <1>1, <1>3, <1>4, <1>5, <1>6, ExecStep

\* A jump of the host to guest code, to a return site or to a stub.
LEMMA GotoStep ==
  ASSUME IInv, mode = "exec", UNCHANGED execVars, NEW d \in - Len(stubs) .. Len(code), d # 0,
         NEW s \in Seq(Nat), Goto(d, s), ecx' = GuestECX,
         d > 0 /\ code[d].op \in {"ind", "rc_cmp"} => s # <<>>
  PROVE  IInv'
<1> USE DEF Goto, cacheVars, envVars
<1>1. ReturnCacheOK' /\ ret_hash_table' \in [0 .. RET_CACHE_SIZE - 1 -> Nat] /\ ind_dest' \in Nat
  BY DEF IInv, HostInv, ReturnCacheOK, OpIs, HostTypes
<1> QED BY <1>1, CodeStep

\* The address behind an operation that falls through.
LEMMA FallStep ==
  ASSUME IInv, mode = "exec", NEW a \in DOMAIN code, NEW q, FallsTo(a, q)
  PROVE  /\ a + 1 \in DOMAIN code /\ At(a + 1, q)
         /\ a + 1 \in - Len(stubs) .. Len(code) /\ a + 1 # 0 /\ code[a + 1].op \notin {"ind", "rc_cmp"}
BY Domains DEF IInv, CacheInv, FallsTo, At, Unfinished

\* The address a jump leads to.
LEMMA DestStep ==
  ASSUME IInv, mode = "exec", NEW a \in DOMAIN code, IsJump(a)
  PROVE  /\ code[a].dest \in - Len(stubs) .. Len(code) /\ code[a].dest # 0
         /\ code[a].dest > 0 => code[code[a].dest].op \notin {"ind", "rc_cmp"}
         /\ LeadsTo(code[a].dest, code[a].to)
<1>1. LeadsTo(code[a].dest, code[a].to)
  BY JumpLeads DEF IInv, Stable
<1>2. code[a].dest \in Int
  BY Domains, OpKinds DEF IInv, CacheInv, IsJump, JumpOps
<1> QED BY <1>1, <1>2, Domains DEF IInv, CacheInv, LeadsTo, At

\* Comparisons stop at the first hit, which is the only one.
LEMMA FirstHit ==
  ASSUME NEW H, H \subseteq Int, H # {}, \A i, j \in H : i = j
  PROVE  (CHOOSE i \in H : \A j \in H : i <= j) \in H
<1> DEFINE First(i) == \A j \in H : i <= j
<1>1. \E i \in H : First(i)
  <2>1. PICK i \in H : TRUE
    OBVIOUS
  <2>2. i \in Int /\ \A j \in H : j = i
    BY <2>1
  <2>3. \A j \in H : i <= j
    BY <2>2
  <2> QED BY <2>1, <2>3
<1> HIDE DEF First
<1>2. (CHOOSE i \in H : First(i)) \in H
  BY <1>1
<1> QED BY <1>2 DEF First

\* An instruction without effect on control keeps the invariant.
LEMMA RunInsnStep == ASSUME IInv, RunInsn, UNCHANGED execVars PROVE IInv'
<1> DEFINE i == prog[Op.pc]
<1>1. Running("insn")
  BY DEF RunInsn
<1>2. FallsTo(hp, code[hp].pc + 1) /\ IsInsn(code[hp].pc, {"nop", "int", "push", "pop"})
  BY <1>1, AtOp DEF OpOK
<1>3. /\ hp + 1 \in - Len(stubs) .. Len(code) /\ hp + 1 # 0
      /\ code[hp + 1].op \notin {"ind", "rc_cmp"}
  BY <1>1, <1>2, AtOp, FallStep
<1>4. i.kind = "push" => i.v \in Nat
  BY <1>1, <1>2, AtOp, ProgramFacts DEF IsInsn, Op
<1> USE AtOp
<1>5. CASE i.kind \in {"nop", "int"} /\ Goto(hp + 1, stack) /\ UNCHANGED ecx
  BY <1>1, <1>3, <1>5, GotoStep
<1>6. CASE i.kind = "push" /\ Goto(hp + 1, <<i.v>> \o stack) /\ UNCHANGED ecx
  <2>1. <<i.v>> \o stack \in Seq(Nat)
    BY <1>1, <1>4, <1>6
  <2> QED BY <1>1, <1>3, <1>6, <2>1, GotoStep
<1>7. CASE i.kind = "pop" /\ stack # <<>> /\ Goto(hp + 1, Tail(stack)) /\ UNCHANGED ecx
  <2>1. Tail(stack) \in Seq(Nat)
    BY <1>1, <1>7
  <2> QED BY <1>1, <1>3, <1>7, <2>1, GotoStep
<1>8. CASE Die
  BY <1>1, <1>8, DieStep
<1> QED BY <1>5, <1>6, <1>7, <1>8 DEF RunInsn

\* A conditional branch keeps it.
LEMMA RunJccStep == ASSUME IInv, RunJcc, UNCHANGED execVars PROVE IInv'
<1>1. Running("jcc")
  BY DEF RunJcc
<1> USE AtOp
<1>2. FallsTo(hp, code[hp].pc + 1) /\ IsJump(hp)
  BY <1>1 DEF OpOK, IsJump
<1>3. CASE Goto(Op.dest, stack)
  BY <1>1, <1>2, <1>3, DestStep, GotoStep DEF Op, RunJcc
<1>4. CASE Goto(hp + 1, stack)
  BY <1>1, <1>2, <1>4, FallStep, GotoStep DEF RunJcc
<1> QED BY <1>3, <1>4 DEF RunJcc

\* jecxz and loop, which jump over a jump, keep it.
LEMMA RunLoopStep == ASSUME IInv, RunLoop, UNCHANGED execVars PROVE IInv'
<1>1. Running("loop")
  BY DEF RunLoop
<1> USE AtOp
<1>2. OpIs(hp + 1, "jmp") /\ FallsTo(hp + 1, code[hp].pc + 1)
  BY <1>1 DEF OpOK, Leads
<1>3. CASE Goto(hp + 1, stack)
  BY <1>1, <1>2, <1>3, GotoStep DEF OpIs, RunLoop
<1>4. CASE Goto(hp + 2, stack)
  <2>1. (hp + 1) + 1 = hp + 2
    BY <1>1
  <2>2. /\ hp + 2 \in - Len(stubs) .. Len(code) /\ hp + 2 # 0
        /\ code[hp + 2].op \notin {"ind", "rc_cmp"}
    BY <1>1, <1>2, <2>1, FallStep DEF OpIs
  <2> QED BY <1>1, <1>4, <2>2, GotoStep DEF RunLoop
<1> QED BY <1>3, <1>4 DEF RunLoop

\* A jump keeps it.
LEMMA RunJmpStep == ASSUME IInv, RunJmp, UNCHANGED execVars PROVE IInv'
<1>1. Running("jmp")
  BY DEF RunJmp
<1>2. IsJump(hp)
  BY <1>1, AtOp DEF IsJump
<1> QED BY <1>1, <1>2, AtOp, DestStep, GotoStep DEF RunJmp, Op

\* Setting a return-cache entry to a return site.
LEMMA ReturnCacheStep ==
  ASSUME IInv, NEW e \in 0 .. RET_CACHE_SIZE - 1, NEW site \in Nat, UNCHANGED code,
         site = 0 \/ OpIs(site, "rc_cmp"), SetReturnCache(e, site)
  PROVE  ReturnCacheOK' /\ ret_hash_table' \in [0 .. RET_CACHE_SIZE - 1 -> Nat]
BY DEF IInv, HostInv, HostTypes, ReturnCacheOK, SetReturnCache, OpIs

\* A call, which pushes its return address and sets a return-cache entry, keeps it.
LEMMA RunCallStep == ASSUME IInv, RunCall, UNCHANGED execVars PROVE IInv'
<1>1. Running("call")
  BY DEF RunCall
<1> USE AtOp
<1>2. /\ OpIs(hp + 1, "jmp") /\ OpIs(code[hp].site, "rc_cmp") /\ code[hp] \in CallOps
  BY <1>1, OpKinds DEF OpOK, Leads
<1>3. CASE Die
  BY <1>1, <1>3, DieStep
<1>4. CASE ~ Die
  <2>1. /\ stack' = <<Op.ret>> \o stack /\ SetReturnCache(Op.entry, Op.site) /\ hp' = hp + 1
        /\ UnchangedByCall /\ UNCHANGED ind_dest
    BY <1>4 DEF RunCall
  <2>2. stack' \in Seq(Nat)
    BY <1>1, <1>2, <2>1 DEF CallOps, Op
  <2>3. ReturnCacheOK' /\ ret_hash_table' \in [0 .. RET_CACHE_SIZE - 1 -> Nat]
    BY <1>2, <2>1, ReturnCacheStep DEF CallOps, Op, UnchangedByCall
  <2>4. ind_dest' \in Nat /\ hp' \in - Len(stubs) .. Len(code) /\ hp' # 0
    BY <1>1, <1>2, <2>1 DEF IInv, HostInv, HostTypes, OpIs
  <2> QED BY <1>1, <1>2, <2>1, <2>2, <2>3, <2>4, CodeStep DEF UnchangedByCall, OpIs
<1> QED BY <1>3, <1>4

\* An indirect call, which also pushes its target, keeps it.
LEMMA RunICallStep == ASSUME IInv, RunICall, UNCHANGED execVars PROVE IInv'
<1>1. Running("icall")
  BY DEF RunICall
<1> USE AtOp
<1>2. /\ OpIs(hp + 1, "ind") /\ OpIs(code[hp].site, "rc_cmp") /\ code[hp] \in ICallOps
      /\ IsInsn(code[hp].pc, {"icall"})
  BY <1>1, OpKinds DEF OpOK
<1>3. CASE Die
  BY <1>1, <1>3, DieStep
<1>4. CASE ~ Die
  <2>1. PICK t \in prog[Op.pc].tgts : /\ stack' = <<t, Op.ret>> \o stack
                                      /\ SetReturnCache(RET_HASH_FUNC(t), Op.site)
    BY <1>4 DEF RunICall
  <2>2. hp' = hp + 1 /\ UnchangedByCall /\ UNCHANGED ind_dest
    BY <1>4 DEF RunICall
  <2>3. t \in Nat
    BY <1>1, <1>2, <2>1, ProgramFacts DEF IsInsn, Op
  <2>4. stack' \in Seq(Nat) /\ stack' # <<>>
    BY <1>1, <1>2, <2>1, <2>3 DEF ICallOps, Op
  <2>5. ReturnCacheOK' /\ ret_hash_table' \in [0 .. RET_CACHE_SIZE - 1 -> Nat]
    BY <1>2, <2>1, <2>2, <2>3, RetHash, ReturnCacheStep DEF ICallOps, Op, UnchangedByCall
  <2>6. ind_dest' \in Nat /\ hp' \in - Len(stubs) .. Len(code) /\ hp' # 0
    BY <1>1, <1>2, <2>2 DEF IInv, HostInv, HostTypes, OpIs
  <2> QED BY <1>1, <2>2, <2>4, <2>5, <2>6, CodeStep DEF UnchangedByCall
<1> QED BY <1>3, <1>4

\* An indirect jump keeps it.
LEMMA RunIJmpStep == ASSUME IInv, RunIJmp, UNCHANGED execVars PROVE IInv'
<1>1. Running("ijmp")
  BY DEF RunIJmp
<1> USE AtOp
<1>2. OpIs(hp + 1, "ind") /\ code[hp] \in IJmpOps /\ IsInsn(code[hp].pc, {"ijmp"})
  BY <1>1, OpKinds DEF OpOK
<1>3. PICK t \in prog[Op.pc].tgts : stack' = <<t>> \o stack
  BY DEF RunIJmp
<1>4. t \in Nat
  BY <1>1, <1>2, <1>3, ProgramFacts DEF IsInsn, Op
<1>5. stack' \in Seq(Nat) /\ stack' # <<>>
  BY <1>1, <1>3, <1>4
<1>6. ReturnCacheOK' /\ ret_hash_table' \in [0 .. RET_CACHE_SIZE - 1 -> Nat]
  BY DEF RunIJmp, UnchangedByCall, IInv, HostInv, HostTypes, ReturnCacheOK, OpIs
<1>7. ind_dest' \in Nat /\ hp' \in - Len(stubs) .. Len(code) /\ hp' # 0
  BY <1>1, <1>2 DEF RunIJmp, IJmpOps, Op, OpIs
<1> QED BY <1>1, <1>5, <1>6, <1>7, CodeStep DEF RunIJmp, UnchangedByCall

\* Copying a return-cache entry keeps it.
LEMMA RunCopyRcStep == ASSUME IInv, RunCopyRc, UNCHANGED execVars PROVE IInv'
<1>1. Running("copy_rc")
  BY DEF RunCopyRc
<1> USE AtOp
<1>2. OpIs(hp + 1, "jmp") /\ code[hp] \in CopyRcOps
  BY <1>1, OpKinds DEF OpOK
<1> DEFINE site == ret_hash_table[Op.from]
<1>3. site \in Nat /\ (site = 0 \/ OpIs(site, "rc_cmp"))
  BY <1>2 DEF IInv, HostInv, HostTypes, ReturnCacheOK, CopyRcOps, Op
<1>4. ReturnCacheOK' /\ ret_hash_table' \in [0 .. RET_CACHE_SIZE - 1 -> Nat]
  BY <1>2, <1>3, ReturnCacheStep DEF CopyRcOps, Op, RunCopyRc, UnchangedByCall
<1>5. ind_dest' \in Nat /\ hp' \in - Len(stubs) .. Len(code) /\ hp' # 0
  BY <1>1, <1>2 DEF RunCopyRc, OpIs, IInv, HostInv, HostTypes
<1> QED BY <1>1, <1>2, <1>4, <1>5, CodeStep DEF RunCopyRc, UnchangedByCall, OpIs

\* Dropping words from the stack leaves a stack.
LEMMA DropNSeq ==
  ASSUME NEW S, NEW s \in Seq(S), NEW n \in Nat
  PROVE  DropN(s, n) \in Seq(S)
<1>1. \A i \in n + 1 .. Len(s) : s[i] \in S
  BY LenProperties
<1> QED BY <1>1, SubSeqProperties, LenProperties DEF DropN

\* Leaving the code cache through the epilogue of an indirect branch or the sieve.
LEMMA ExitStep ==
  ASSUME IInv, mode = "exec", UNCHANGED execVars,
         NEW t \in 0 .. Len(tbs), NEW type \in {IND_TYPE_CALL, IND_TYPE_JMP},
         NEW s, cemit_exit_tb(t, type, s), s[1] = GuestECX, s[2] \in Nat, DropN(s, 2) \in Seq(Nat),
         t # NULL => \E a \in DOMAIN code : /\ code[a].op = "ind" /\ code[a].tb = t
                                            /\ \A i \in DOMAIN code[a].slots : code[a].slots[i].src # s[2],
         t = NULL => \A i \in DOMAIN sieve_hashtable[SIEVE_HASH(s[2])] :
                        sieve_hashtable[SIEVE_HASH(s[2])][i].pc # s[2]
  PROVE  IInv'
<1> USE DEF cemit_exit_tb, cacheVars
<1>1. CacheInv'
  BY RunKeepsCache DEF IInv
<1>2. stack' \in Seq(Int) /\ \A i \in DOMAIN stack' : stack'[i] \in Nat
  BY SeqIntOfNat
<1>3. HostTypes'
  BY <1>2 DEF IInv, HostInv, HostTypes
<1>4. ReturnCacheOK' /\ MachineOK'
  BY <1>2 DEF IInv, HostInv, ReturnCacheOK, OpIs, MachineOK, InSieve, InCodeCache
<1>5. HostPointerOK'
  BY DEF HostPointerOK, InCodeCache
<1>6. RequestOK'
  BY DEF RequestOK, SIEVE_HASH, NOT_IND, IND_TYPE_CALL, IND_TYPE_JMP
<1> QED BY <1>1, <1>3, <1>4, <1>5, <1>6 DEF IInv, HostInv

\* The comparisons of an indirect branch keep it, hit or not.
LEMMA RunIndStep == ASSUME IInv, RunInd, UNCHANGED execVars PROVE IInv'
<1> DEFINE hits == SlotHits(Op.slots, Head(stack))
<1>1. Running("ind")
  BY DEF RunInd
<1> USE AtOp
<1>2. /\ code[hp] \in IndOps /\ \A i \in DOMAIN code[hp].slots : At(code[hp].slots[i].dest, code[hp].slots[i].src)
      /\ code[hp].tb \in DOMAIN tbs
  BY <1>1, OpKinds DEF OpOK, IInv, CacheInv, IndsOK, IndOK
<1>3. Head(stack) \in Nat /\ Tail(stack) \in Seq(Nat)
  BY <1>1
<1>4. ASSUME NEW i \in hits, Goto(Op.slots[i].dest, Tail(stack)), UNCHANGED ecx
      PROVE  IInv'
  <2>1. i \in DOMAIN code[hp].slots
    BY <1>4 DEF SlotHits, Op
  <2>2. At(Op.slots[i].dest, Op.slots[i].src)
    BY <1>2, <2>1 DEF Op
  <2>3. /\ Op.slots[i].dest \in - Len(stubs) .. Len(code) /\ Op.slots[i].dest # 0
        /\ code[Op.slots[i].dest].op \notin {"ind", "rc_cmp"}
    BY <1>1, <2>2 DEF At
  <2> QED BY <1>1, <1>3, <1>4, <2>3, GotoStep
<1>5. CASE EnterSieve(stack)
  BY <1>1, <1>5, SieveStep
<1>6. CASE hits = {} /\ cemit_exit_tb(Op.tb, Op.ind_type, <<ecx>> \o stack)
  <2> DEFINE s == <<ecx>> \o stack
  <2>1. Len(stack) \in Nat \ {0} /\ stack \in Seq(Int) /\ <<ecx>> \in Seq(Int)
    BY <1>1, EmptySeq, SeqIntOfNat DEF GuestECX
  <2>2. s \in Seq(Int) /\ Len(s) = Len(stack) + 1 /\ s[1] = GuestECX /\ s[2] = Head(stack)
    BY <1>1, <2>1, ConcatProperties
  <2>3. DropN(s, 2) \in Seq(Nat)
    <3>1. \A i \in 3 .. Len(s) : s[i] \in Nat
      BY <1>1, <2>1, <2>2, ConcatProperties
    <3> QED BY <3>1, <2>1, <2>2, SubSeqProperties DEF DropN
  <2>4. \A i \in DOMAIN code[hp].slots : code[hp].slots[i].src # s[2]
    BY <1>6, <2>2 DEF SlotHits, Op
  <2>5. Op.tb \in 1 .. Len(tbs) /\ Op.ind_type \in {IND_TYPE_CALL, IND_TYPE_JMP}
    BY <1>2, Domains DEF IndOps, Op, IInv, CacheInv
  <2>6. s[2] \in Nat
    BY <1>3, <2>2
  <2> HIDE DEF s
  <2>7. \E a \in DOMAIN code : /\ code[a].op = "ind" /\ code[a].tb = Op.tb
                               /\ \A i \in DOMAIN code[a].slots : code[a].slots[i].src # s[2]
    BY <1>1, <2>4 DEF Op
  <2>8. cemit_exit_tb(Op.tb, Op.ind_type, s)
    BY <1>6 DEF s
  <2>9. Op.tb \in 0 .. Len(tbs) /\ Op.tb # NULL
    BY <2>5 DEF NULL
  <2> QED BY <1>1, <2>2, <2>3, <2>5, <2>6, <2>7, <2>8, <2>9, ExitStep
<1>7. CASE hits # {} /\ (LET i == CHOOSE i \in hits : \A j \in hits : i <= j
                         IN  Goto(Op.slots[i].dest, Tail(stack))) /\ UNCHANGED ecx
  <2> DEFINE first == CHOOSE i \in hits : \A j \in hits : i <= j
  <2>1. first \in hits
    <3>1. hits \subseteq Int
      BY <1>2 DEF SlotHits, Op, IndOps
    <3>2. \A i, j \in hits : i = j
      BY <1>1 DEF IInv, CacheInv, IndsOK, IndOK, SlotHits, Op
    <3> QED BY <1>7, <3>1, <3>2, FirstHit
  <2> QED BY <1>4, <1>7, <2>1
<1> QED BY <1>5, <1>6, <1>7 DEF RunInd

\* The comparison at a return site keeps it.
LEMMA RunRcCmpStep == ASSUME IInv, RunRcCmp, UNCHANGED execVars PROVE IInv'
<1>1. Running("rc_cmp")
  BY DEF RunRcCmp
<1> USE AtOp
<1>2. FallsTo(hp, code[hp].ret) /\ Tail(stack) \in Seq(Nat)
  BY <1>1 DEF OpOK
<1>3. CASE Goto(hp + 1, Tail(stack)) /\ UNCHANGED ecx
  BY <1>1, <1>2, <1>3, FallStep, GotoStep
<1>4. CASE EnterSieve(stack)
  BY <1>1, <1>4, SieveStep
<1> QED BY <1>3, <1>4 DEF RunRcCmp

\* A return, through the return cache or the sieve, keeps it.
LEMMA RunRetStep == ASSUME IInv, RunRet, UNCHANGED execVars PROVE IInv'
<1> DEFINE site == ret_hash_table[Op.entry]
<1> DEFINE moved == <<Head(stack)>> \o DropN(stack, Op.n + 1)
<1>1. Running("ret")
  BY DEF RunRet
<1> USE AtOp
<1>2. code[hp] \in RetOps
  BY <1>1, OpKinds
<1>3. site \in Nat /\ (site # 0 => OpIs(site, "rc_cmp"))
  BY <1>2 DEF IInv, HostInv, HostTypes, ReturnCacheOK, RetOps, Op
<1>4. CASE Die
  BY <1>1, <1>4, DieStep
<1>5. CASE ~ Die
  <2>1. Len(stack) > Op.n
    BY <1>5 DEF RunRet
  <2>2. DropN(stack, Op.n + 1) \in Seq(Nat) /\ Head(stack) \in Nat
    <3>1. Op.n \in Nat
      BY <1>2 DEF RetOps, Op
    <3>2. stack \in Seq(Nat)
      BY <1>1
    <3>3. Op.n + 1 \in Nat /\ Op.n + 1 <= Len(stack) /\ stack # <<>>
      BY <2>1, <3>1, <3>2, EmptySeq
    <3>4. Head(stack) \in Nat
      BY <3>2, <3>3, HeadTailProperties
    <3> HIDE DEF Op
    <3> QED BY <3>1, <3>2, <3>3, <3>4, DropNSeq
  <2>3. moved \in Seq(Nat) /\ moved # <<>>
    BY <2>2
  <2>4. CASE site # 0 /\ Goto(site, moved) /\ UNCHANGED ecx
    <3>1. site \in DOMAIN code /\ code[site].op = "rc_cmp"
      BY <1>3, <2>4 DEF OpIs
    <3>2. site \in - Len(stubs) .. Len(code)
      BY <3>1, Domains DEF IInv, CacheInv
    <3> HIDE DEF site, moved
    <3> QED BY <1>1, <2>3, <2>4, <3>1, <3>2, GotoStep
  <2>5. CASE EnterSieve(moved)
    BY <1>1, <2>3, <2>5, SieveStep
  <2> QED BY <1>5, <2>4, <2>5 DEF RunRet
<1> QED BY <1>4, <1>5

\* The sieve, with a node for the target or without, keeps it.
LEMMA RunSieveStep == ASSUME IInv, RunSieve, UNCHANGED execVars PROVE IInv'
<1> DEFINE nodes == sieve_hashtable[SIEVE_HASH(stack[2])]
<1> DEFINE hits == {i \in DOMAIN nodes : nodes[i].pc = stack[2]}
<1>1. mode = "exec" /\ hp = sieve_stub /\ InSieve
  BY DEF RunSieve, InSieve, InCodeCache
<1>2. /\ Len(stack) >= 2 /\ stack[1] = GuestECX /\ \A i \in 2 .. Len(stack) : stack[i] \in Nat
      /\ stack \in Seq(Int) /\ Len(stack) \in Nat
  BY <1>1 DEF IInv, HostInv, MachineOK, HostTypes
<1>3. stack[2] \in Nat /\ DropN(stack, 2) \in Seq(Nat)
  BY <1>2, SubSeqProperties DEF DropN
<1>4. SIEVE_HASH(stack[2]) \in 0 .. SIEVE_SIZE - 1
  BY <1>3, SieveHash
<1>5. nodes \in Seq([pc : Nat, dest : Int])
  BY <1>4 DEF IInv, CacheInv, CacheTypes
<1>6. CASE hits # {} /\ (LET i == CHOOSE i \in hits : \A j \in hits : i <= j
                         IN  Goto(nodes[i].dest, DropN(stack, 2))) /\ ecx' = stack[1]
  <2> DEFINE first == CHOOSE i \in hits : \A j \in hits : i <= j
  <2>1. first \in hits
    <3>1. hits \subseteq Int
      BY <1>5
    <3>2. \A i, j \in hits : i = j
      BY <1>4 DEF IInv, CacheInv, CacheTypes, SieveOK
    <3> HIDE DEF hits
    <3> QED BY <1>6, <3>1, <3>2, FirstHit
  <2>2. At(nodes[first].dest, nodes[first].pc)
    BY <1>4, <2>1 DEF IInv, CacheInv, CacheTypes, SieveOK
  <2>3. /\ nodes[first].dest \in - Len(stubs) .. Len(code) /\ nodes[first].dest # 0
        /\ code[nodes[first].dest].op \notin {"ind", "rc_cmp"}
    <3>1. DOMAIN code = 1 .. Len(code) /\ Len(code) \in Nat /\ Len(stubs) \in Nat
      BY Domains DEF IInv, CacheInv
    <3> HIDE DEF first, nodes
    <3> QED BY <2>2, <3>1 DEF At
  <2>4. Goto(nodes[first].dest, DropN(stack, 2)) /\ ecx' = GuestECX
    BY <1>2, <1>6
  <2> HIDE DEF first, nodes
  <2> QED BY <1>1, <1>3, <2>3, <2>4, GotoStep
<1>7. CASE hits = {} /\ cemit_exit_tb(ret_tb, IND_TYPE_CALL, stack)
  <2>1. ret_tb = NULL /\ ret_tb \in 0 .. Len(tbs)
    BY <1>1 DEF IInv, HostInv, HostTypes, HostPointerOK, InSieve
  <2>2. \A i \in DOMAIN nodes : nodes[i].pc # stack[2]
    BY <1>7
  <2> QED BY <1>1, <1>2, <1>3, <1>7, <2>1, <2>2, ExitStep
<1> QED BY <1>6, <1>7 DEF RunSieve

\* An exit stub, which asks the dispatcher for its target, keeps it.
LEMMA RunStubStep == ASSUME IInv, RunStub, UNCHANGED execVars PROVE IInv'
<1> DEFINE s == stubs[-hp]
<1>1. mode = "exec" /\ hp < 0
  BY DEF RunStub
<1>2. -hp \in DOMAIN stubs /\ s \in Stubs
  <2>1. hp \in - Len(stubs) .. Len(code)
    BY DEF IInv, HostInv, HostTypes
  <2>2. DOMAIN stubs = 1 .. Len(stubs) /\ Len(stubs) \in Nat
    BY Domains DEF IInv, CacheInv
  <2>3. -hp \in DOMAIN stubs
    BY <1>1, <2>1, <2>2
  <2> QED BY <2>3, Domains DEF IInv, CacheInv
<1>3. s.tb \in DOMAIN tbs /\ \E u \in DOMAIN tbs : tbs[u].pc = s.to
  BY <1>2 DEF IInv, CacheInv, StubsOK, StubOK
<1>4. s.tb \in 0 .. Len(tbs)
  BY <1>3, Domains DEF IInv, CacheInv
<1> USE DEF RunStub, cacheVars, hostVars
<1>5. CacheInv'
  BY RunKeepsCache DEF IInv
<1>6. HostTypes'
  BY <1>2, <1>4 DEF IInv, HostInv, HostTypes, Stubs
<1>7. ReturnCacheOK' /\ MachineOK'
  BY <1>1 DEF IInv, HostInv, ReturnCacheOK, OpIs, MachineOK, InSieve, InCodeCache, sieve_stub
<1>8. HostPointerOK'
  BY DEF HostPointerOK, InCodeCache
<1>9. RequestOK'
  <2>1. ind_type' = NOT_IND
    BY <1>1 DEF IInv, HostInv, HostPointerOK, InCodeCache
  <2>2. s = [tb |-> ret_tb', patch_num |-> patch_num', to |-> eip']
    BY <1>2 DEF Stubs
  <2>3. \E k \in DOMAIN stubs' : stubs'[k] = [tb |-> ret_tb', patch_num |-> patch_num', to |-> eip']
    BY <1>2, <2>2
  <2>4. \E u \in DOMAIN tbs' : tbs'[u].pc = eip'
    BY <1>3
  <2> QED BY <2>1, <2>3, <2>4 DEF RequestOK
<1> QED BY <1>5, <1>6, <1>7, <1>8, <1>9 DEF IInv, HostInv

\* Nothing that the code cache does breaks the invariant.
LEMMA RunStep == ASSUME IInv, RunCodeCache, UNCHANGED execVars PROVE IInv'
<1>1. ASSUME RunExit PROVE IInv'
  BY <1>1, AtOp, DieStep DEF RunExit
<1> QED BY <1>1, RunInsnStep, RunJccStep, RunLoopStep, RunJmpStep, RunCallStep, RunICallStep,
           RunIJmpStep, RunCopyRcStep, RunIndStep, RunRcCmpStep, RunRetStep, RunSieveStep,
           RunStubStep DEF RunCodeCache
=============================================================================
