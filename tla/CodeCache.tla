----------------------------- MODULE CodeCache -----------------------------
(***************************************************************************)
(* Running the emitted host code: what the operations written by the       *)
(* emitters of Translate, the exit stubs, the sieve and the return cache   *)
(* do to the guest's stack and %ecx, and how control leaves for cpu_exec   *)
(* through the epilogue.  %ecx is the scratch register of every inlined    *)
(* lookup; its guest value waits on the guest stack meanwhile.             *)
(***************************************************************************)
EXTENDS Translate

VARIABLES
  hp,         \* host program counter
  stack,      \* the guest stack with the words pushed by the lookups, top first
  ecx,        \* GuestECX or Scratch
  eip,        \* env->eip
  ret_tb,     \* env->ret_tb, which the epilogue returns to cpu_exec as prev_tb
  ind_type,   \* env->ind_type
  patch_num,  \* env->patch_num
  ind_dest    \* env->ind_dest

hostVars == <<hp, stack, ecx>>
envVars == <<eip, ret_tb, ind_type, patch_num, ind_dest>>

GuestECX == -1
Scratch == -2
sieve_stub == 0

DropN(s, n) == SubSeq(s, n + 1, Len(s))

Op == code[hp]

Running(op) == mode = "exec" /\ hp > 0 /\ Op.op = op

\* Steps that change only the host registers and the guest stack.
Goto(addr, newStack) ==
  /\ hp' = addr
  /\ stack' = newStack
  /\ UNCHANGED <<prog, mode, cacheVars, transVars, envVars>>

\* Mutant: the two pops in the wrong order.
cemit_exit_tb_swapped(t, type, s) ==
  /\ ecx' = s[2]
  /\ eip' = s[1]
  /\ stack' = DropN(s, 2)
  /\ ret_tb' = t
  /\ ind_type' = type
  /\ mode' = "dispatch"
  /\ UNCHANGED <<prog, cacheVars, transVars, hp, patch_num, ind_dest>>

\* pop %ecx; pop (env->eip); set ret_tb and ind_type; jump to the epilogue
cemit_exit_tb(t, type, s) ==
  /\ ecx' = s[1]
  /\ eip' = s[2]
  /\ stack' = DropN(s, 2)
  /\ ret_tb' = t
  /\ ind_type' = type
  /\ mode' = "dispatch"
  /\ UNCHANGED <<prog, cacheVars, transVars, hp, patch_num, ind_dest>>

\* A fatal signal or exit_group ends the process.
Die ==
  /\ mode' = "halted"
  /\ UNCHANGED <<prog, cacheVars, transVars, hostVars, envVars>>

StackFull == Len(stack) >= MaxStack

RunInsn ==
  LET i == prog[Op.pc]
  IN  /\ Running("insn")
      /\ \/ i.kind \in {"nop", "int"} /\ Goto(hp + 1, stack) /\ UNCHANGED ecx
         \/ i.kind = "push" /\ ~ StackFull /\ Goto(hp + 1, <<i.v>> \o stack) /\ UNCHANGED ecx
         \/ i.kind = "push" /\ StackFull /\ Die
         \/ i.kind = "pop" /\ stack # <<>> /\ Goto(hp + 1, Tail(stack)) /\ UNCHANGED ecx
         \/ i.kind = "pop" /\ stack = <<>> /\ Die

\* exit_stub, then the exit_group system call
RunExit == Running("exit") /\ Die

RunJcc ==
  /\ Running("jcc")
  /\ Goto(Op.dest, stack) \/ Goto(hp + 1, stack)
  /\ UNCHANGED ecx

\* jecxz or loop over a short jump that skips the patched jump
RunLoop ==
  /\ Running("loop")
  /\ Goto(hp + 1, stack) \/ Goto(hp + 2, stack)
  /\ UNCHANGED ecx

RunJmp ==
  /\ Running("jmp")
  /\ Goto(Op.dest, stack)
  /\ UNCHANGED ecx

SetReturnCache(entry, site) == ret_hash_table' = [ret_hash_table EXCEPT ![entry] = site]

UnchangedByCall ==
  UNCHANGED <<prog, mode, tbs, code, code_gen_ptr, stubs, sieve_hashtable, transVars,
              ecx, eip, ret_tb, ind_type, patch_num>>

RunCall ==
  /\ Running("call")
  /\ \/ /\ ~ StackFull
        /\ stack' = <<Op.ret>> \o stack
        /\ SetReturnCache(Op.entry, Op.site)
        /\ hp' = hp + 1
        /\ UnchangedByCall /\ UNCHANGED ind_dest
     \/ StackFull /\ Die

\* push the return address and the operand, cache the return site under it
RunICall ==
  /\ Running("icall")
  /\ \/ /\ ~ StackFull
        /\ \E t \in prog[Op.pc].tgts :
              /\ stack' = <<t, Op.ret>> \o stack
              /\ SetReturnCache(RET_HASH_FUNC(t), Op.site)
        /\ hp' = hp + 1
        /\ UnchangedByCall /\ UNCHANGED ind_dest
     \/ StackFull /\ Die

RunIJmp ==
  /\ Running("ijmp")
  /\ \E t \in prog[Op.pc].tgts : stack' = <<t>> \o stack
  /\ ind_dest' = Op.func_addr
  /\ hp' = hp + 1
  /\ UnchangedByCall /\ UNCHANGED ret_hash_table

RunCopyRc ==
  /\ Running("copy_rc")
  /\ SetReturnCache(Op.to, ret_hash_table[Op.from])
  /\ hp' = hp + 1
  /\ UnchangedByCall /\ UNCHANGED <<stack, ind_dest>>

\* Enter the sieve with the target and %ecx on the stack.
EnterSieve(s) ==
  /\ Goto(sieve_stub, <<ecx>> \o s)
  /\ ecx' = Scratch

\* Mutant: the source is stored without its sign, so no comparison succeeds.
SlotHits_unsigned(slots, target) == {}

\* The slots of an indirect branch that compare equal to the target.
SlotHits(slots, target) == {i \in DOMAIN slots : slots[i].src = target}

\* cemit_ind_opt: the first slot whose source is the target wins
RunInd ==
  LET hits == SlotHits(Op.slots, Head(stack))
  IN  /\ Running("ind")
      /\ \/ /\ hits # {}
            /\ LET i == CHOOSE i \in hits : \A j \in hits : i <= j
               IN  Goto(Op.slots[i].dest, Tail(stack))
            /\ UNCHANGED ecx
         \/ /\ hits = {} /\ Op.to_sieve
            /\ EnterSieve(stack)
         \/ /\ hits = {} /\ ~ Op.to_sieve
            /\ cemit_exit_tb(Op.tb, Op.ind_type, <<ecx>> \o stack)

\* Mutant: the return cache is trusted.
ReturnsHere_trusted == TRUE

\* The comparison at a return site.
ReturnsHere == Head(stack) = Op.ret

\* cemit_rc_cmp: fall through if the guest returns here, else ask the sieve
RunRcCmp ==
  /\ Running("rc_cmp")
  /\ \/ /\ ReturnsHere
        /\ Goto(hp + 1, Tail(stack))
        /\ UNCHANGED ecx
     \/ /\ ~ ReturnsHere
        /\ EnterSieve(stack)

\* ret imm16 first moves the return address over its n words; then both kinds
\* jump through the return cache, whose initial entries lead to the sieve.
RunRet ==
  LET site == ret_hash_table[Op.entry]
      moved == <<Head(stack)>> \o DropN(stack, Op.n + 1)
  IN  /\ Running("ret")
      /\ \/ /\ Len(stack) > Op.n /\ site # 0
            /\ Goto(site, moved)
            /\ UNCHANGED ecx
         \/ /\ Len(stack) > Op.n /\ site = 0
            /\ EnterSieve(moved)
         \/ /\ Len(stack) <= Op.n
            /\ Die

\* Walk the chain of the target's bucket; its end is the common exit sv_out.
RunSieve ==
  LET nodes == sieve_hashtable[SIEVE_HASH(stack[2])]
      hits == {i \in DOMAIN nodes : nodes[i].pc = stack[2]}
  IN  /\ mode = "exec" /\ hp = sieve_stub
      /\ \/ /\ hits # {}
            /\ LET i == CHOOSE i \in hits : \A j \in hits : i <= j
               IN  Goto(nodes[i].dest, DropN(stack, 2))
            /\ ecx' = stack[1]
         \/ /\ hits = {}
            /\ cemit_exit_tb(ret_tb, IND_TYPE_CALL, stack)

\* An exit stub written by lazy_patch.
RunStub ==
  LET s == stubs[-hp]
  IN  /\ mode = "exec" /\ hp < 0
      /\ ret_tb' = s.tb
      /\ patch_num' = s.patch_num
      /\ eip' = s.to
      /\ mode' = "dispatch"
      /\ UNCHANGED <<prog, cacheVars, transVars, hostVars, ind_type, ind_dest>>

RunCodeCache ==
  \/ RunInsn \/ RunExit \/ RunJcc \/ RunLoop \/ RunJmp \/ RunCall \/ RunICall \/ RunIJmp
  \/ RunCopyRc \/ RunInd \/ RunRcCmp \/ RunRet \/ RunSieve \/ RunStub
=============================================================================
