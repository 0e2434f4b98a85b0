------------------------------- MODULE Guest -------------------------------
(***************************************************************************)
(* The guest program as the i386 processor would run it: the specification *)
(* that the translator, its code cache and the dispatch loop implement.    *)
(*                                                                         *)
(* A program maps each pc to an instruction record.  Data is abstracted to *)
(* the stack words control flow depends on; the outcome of a conditional   *)
(* branch and the operand of an indirect one are nondeterministic.         *)
(*   nop                     any instruction without effect on control     *)
(*   push v / pop            push or discard a word (push 0 is push %ebp)  *)
(*   int                     a system call other than exit_group           *)
(*   exit                    the exit_group system call                    *)
(*   jcond to / loop to      Jcc; jecxz, loop, loope, loopne               *)
(*   jmp to / call to        direct jump and call                          *)
(*   ijmp tgts / icall tgts  indirect jump and call through memory         *)
(*   ret n                   ret (n = 0) or ret imm16 dropping n words     *)
(***************************************************************************)
EXTENDS Naturals, Sequences

CONSTANTS
  Programs,     \* the guest programs to run
  MaxStack      \* words the guest stack holds

VARIABLES
  prog,         \* the program being run
  pc,           \* address of the next instruction
  stack,        \* the guest stack, top first
  alive         \* FALSE once the guest has exited or died

vars == <<prog, pc, stack, alive>>

Insn == prog[pc]

PopN(s, n) == SubSeq(s, n + 1, Len(s))

Goto(target, newStack) ==
  /\ pc' = target
  /\ stack' = newStack
  /\ UNCHANGED <<prog, alive>>

Init ==
  /\ prog \in Programs
  /\ pc = 1
  /\ stack = <<>>
  /\ alive = TRUE

Plain ==
  /\ Insn.kind \in {"nop", "int"}
  /\ Goto(pc + 1, stack)

Push ==
  /\ Insn.kind = "push"
  /\ Len(stack) < MaxStack
  /\ Goto(pc + 1, <<Insn.v>> \o stack)

Pop ==
  /\ Insn.kind = "pop"
  /\ stack # <<>>
  /\ Goto(pc + 1, Tail(stack))

Branch ==
  /\ Insn.kind \in {"jcond", "loop"}
  /\ Goto(Insn.to, stack) \/ Goto(pc + 1, stack)

Jump ==
  /\ Insn.kind = "jmp"
  /\ Goto(Insn.to, stack)

Call ==
  /\ Insn.kind = "call"
  /\ Len(stack) < MaxStack
  /\ Goto(Insn.to, <<pc + 1>> \o stack)

IndirectJump ==
  /\ Insn.kind = "ijmp"
  /\ \E t \in Insn.tgts : Goto(t, stack)

IndirectCall ==
  /\ Insn.kind = "icall"
  /\ Len(stack) < MaxStack
  /\ \E t \in Insn.tgts : Goto(t, <<pc + 1>> \o stack)

Return ==
  /\ Insn.kind = "ret"
  /\ Len(stack) > Insn.n
  /\ Goto(Head(stack), PopN(stack, Insn.n + 1))

\* A word that is not a code address may be returned to: fetching there is fatal.
Mapped == pc \in DOMAIN prog

\* The instruction touches the stack outside its mapping.
StackFault ==
  \/ Insn.kind \in {"push", "call", "icall"} /\ Len(stack) >= MaxStack
  \/ Insn.kind = "pop" /\ stack = <<>>
  \/ Insn.kind = "ret" /\ Len(stack) <= Insn.n

\* exit_group, or a fatal signal
Stop ==
  /\ alive' = FALSE
  /\ UNCHANGED <<prog, pc, stack>>

Step ==
  /\ alive
  /\ \/ ~ Mapped /\ Stop
     \/ Mapped /\ (Insn.kind = "exit" \/ StackFault) /\ Stop
     \/ Mapped /\ (\/ Plain \/ Push \/ Pop \/ Branch \/ Jump \/ Call
                   \/ IndirectJump \/ IndirectCall \/ Return)

Spec == Init /\ [][Step]_vars

\* The processor does not stop in the middle of a program.
LiveSpec == Spec /\ WF_vars(Step)
=============================================================================
