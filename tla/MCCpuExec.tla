----------------------------- MODULE MCCpuExec -----------------------------
(***************************************************************************)
(* Guest programs and sizes for model checking CpuExec.                    *)
(***************************************************************************)
EXTENDS CpuExecInv

\* The hypothesis of the theorems about CpuExec holds of every instance.
ASSUME ShortBlocksHold == ShortBlocks

nop == [kind |-> "nop"]
int == [kind |-> "int"]
exit == [kind |-> "exit"]
pop == [kind |-> "pop"]
push(v) == [kind |-> "push", v |-> v]
jcond(to) == [kind |-> "jcond", to |-> to]
loop(to) == [kind |-> "loop", to |-> to]
jmp(to) == [kind |-> "jmp", to |-> to]
call(to) == [kind |-> "call", to |-> to]
ijmp(tgts) == [kind |-> "ijmp", tgts |-> tgts]
icall(tgts) == [kind |-> "icall", tgts |-> tgts]
ret(n) == [kind |-> "ret", n |-> n]

\* An interpreter loop: one indirect jump with more targets than slots.
Interpreter == <<ijmp({2, 3, 5, 6, 7}), nop, jcond(1), nop, loop(2), jmp(3), jmp(1)>>

\* Indirect calls from two sites to four functions: one of them jumps into
\* another, one calls another, one drops an argument.
Callbacks == <<push(1), icall({6, 8, 10, 12}), push(0), icall({6, 8, 10}), jmp(2),
               push(0), pop, ret(0), call(6), jmp(7), nop, ret(1)>>

\* Direct calls, recursion under a conditional, a return to a pushed address.
Recursion == <<call(4), push(1), ret(0), jcond(7), call(4), nop, ret(0)>>

\* Arguments dropped by the callee, a shared function tail, system calls.
Arguments == <<push(1), push(1), call(6), int, exit, jcond(8), jmp(9), nop, ret(2)>>

\* A backward tail jump out of a function, and a return to no code at all.
TailJump == <<call(4), push(0), ret(0), jcond(7), nop, jmp(2), push(0), pop, jmp(5)>>

MCPrograms == {Interpreter, Callbacks, Recursion, Arguments, TailJump}

\* Programs that run out of one table each: the sieve buffer, the blocks at a
\* backward jump, after a branch, at an exit, in the dispatcher, code space.
ManyReturns == <<push(5), push(3), ret(0), nop, push(6), ret(0)>>
NewFunction == <<jmp(4), nop, jmp(2), push(2), ret(0)>>
Branches == <<jcond(5), jcond(6), jcond(7), ret(0), jmp(1), jmp(2), jmp(3)>>
Exits == <<jcond(3), jmp(1), jmp(4), jmp(5), jmp(2)>>
Jumps == <<ijmp({1, 2, 3, 4, 5}), ijmp({1}), ijmp({2}), ijmp({3}), ijmp({4})>>
Straight == <<nop, nop, nop, nop, nop, nop, jcond(8), ijmp({9}), nop, nop, jmp(1)>>
FullPrograms == {ManyReturns, NewFunction, Branches, Exits, Jumps, Straight} \cup MCPrograms
                  \cup {<<pop, jmp(1)>>, <<exit, jmp(1)>>, <<icall({1}), jmp(1)>>, <<call(1), jmp(1)>>}

\* For superblocks of at most two instructions and one jump.
LimitPrograms == {<<ijmp({2, 4, 5}), jcond(1), nop, loop(2), jmp(1)>>,
                  Recursion, Arguments, TailJump}

\* A block whose only direct jump comes after more code than a 16-bit offset
\* reaches (scaled down with OffsetRange).
LongBlock == {<<nop, nop, nop, nop, jmp(6), jmp(1)>>}

\* One superblock of indirect calls; one of conditional branches.
ManyCalls == {<<icall({5}), icall({5}), icall({5}), jmp(1), ret(0)>>}
ManyBranches == {<<jcond(5), jcond(6), jcond(7), jmp(1), nop, nop, jmp(1)>>}

\* Every program of two instructions, and every program of three over a smaller
\* alphabet.
Insns(n) ==
  {nop, push(0), icall(1 .. n), ijmp(1 .. n), ret(0)}
     \cup UNION {{jcond(t), call(t), jmp(t)} : t \in 1 .. n}
Insns2 == Insns(2) \cup {pop, push(2), loop(1), exit, ret(1)}
Insns3 == Insns(3) \ {nop, push(0), jcond(1), call(1), call(2), jmp(2)}
AllPrograms(n, I) == {p \in [1 .. n -> I] : p[n].kind \in {"jmp", "ijmp", "ret"}}
ManyPrograms == MCPrograms \cup AllPrograms(2, Insns2) \cup AllPrograms(3, Insns3)
=============================================================================
