------------------------------ MODULE SigFrame ------------------------------
(***************************************************************************)
(* Signal frames (linux-user/signal.c): how the guest's context is saved on  *)
(* its stack when a handler is entered and restored when the handler returns *)
(* through sigreturn, for the guest processors the file supports; the        *)
(* alternate signal stack; the conversion of signal masks.                   *)
(*                                                                         *)
(* Registers are grouped: a group is a set of registers that the code treats *)
(* alike.  A register's value names the context that wrote it last, so a     *)
(* register that a frame does not bring back is seen.  Addresses count       *)
(* machine words and frame sizes are reduced.  A frame in memory is a record,*)
(* lost when a later frame overlaps it or when its handler has returned.     *)
(*                                                                         *)
(* cpu_x86_load_seg, cpu_x86_fsave and cpu_x86_frstor are taken as they are  *)
(* used (in this build they abort; Signals checks that).  The i386 switch to *)
(* a stack in sa_restorer needs an SS only cpu_x86_load_seg could set and is *)
(* left out.                                                                *)
(***************************************************************************)
EXTENDS Integers, Sequences, FiniteSets, TLC, Functions

CONSTANTS
  Targets,          \* guest processors, chosen at the start
  Handlers,         \* processor -> handlers the guest installs: SA_SIGINFO, SA_ONSTACK and
                    \* SA_RESTORER (sa_restorer is set with it)
  StartAlt,         \* processor -> the alternate stack set at the start
  AltCalls,         \* processor -> structures the guest passes to sigaltstack
  Masks,            \* signal masks the guest sets
  Low, High,        \* the normal stack: words Low .. High - 1
  AltLow, AltHigh,  \* memory for alternate stacks
  FrameSize, RtFrameSize,
  MinSigStkSz,      \* MINSIGSTKSZ
  Nsig, Bpw,        \* TARGET_NSIG, TARGET_NSIG_BPW
  HostToTarget,     \* host_to_target_signal_table
  MaxDepth          \* bound: handlers active at once

\* What the constants must be.
SigFrameAssumption ==
  /\ \A t \in Targets :
        Handlers[t] \subseteq [siginfo : BOOLEAN, onstack : BOOLEAN, restorer : BOOLEAN]
  /\ {Nsig, Bpw, FrameSize, RtFrameSize, MinSigStkSz, MaxDepth} \subseteq Nat \ {0}
  /\ AltHigh < Low /\ 0 < AltLow /\ Low < High
  /\ HostToTarget \in Permutations(1 .. Nsig)

VARIABLES
  target,           \* the processor of the guest
  env,              \* register group -> value
  mask,             \* the host's signal mask, in host numbers
  alt,              \* target_sigaltstack_used: [sp, size]
  mem,              \* frames in memory: address -> frame
  life,             \* "run", "sigreturn" (in the trampoline), "segv" (force_sig) or "lost"
  saved             \* history: one record per active handler

vars == <<target, env, mask, alt, mem, life, saved>>

-----------------------------------------------------------------------------
(* Masks.                                                                  *)

host_to_target_signal(s) == HostToTarget[s]

\* signal_init fills the inverse table.
target_to_host_signal(s) == CHOOSE h \in 1 .. Nsig : HostToTarget[h] = s

Words == 0 .. ((Nsig - 1) \div Bpw)
target_sigemptyset == [w \in Words |-> {}]

target_sigaddset(set, s) == [set EXCEPT ![(s - 1) \div Bpw] = @ \cup {(s - 1) % Bpw}]

target_sigismember(set, s) == (s - 1) % Bpw \in set[(s - 1) \div Bpw]

\* Words of the guest's set for a set of the host; the byte order is that of __put_user.
host_to_target_sigset(s) ==
  LET Add[S \in SUBSET (1 .. Nsig)] ==
        IF S = {} THEN target_sigemptyset
        ELSE LET i == CHOOSE x \in S : TRUE
             IN target_sigaddset(Add[S \ {i}], host_to_target_signal(i))
  IN Add[s]

target_to_host_sigset(set) == {target_to_host_signal(i) : i \in {s \in 1 .. Nsig : target_sigismember(set, s)}}

\* Only the first word goes through sigset_t of the old system calls.
target_to_host_old_sigset(old) == target_to_host_sigset([target_sigemptyset EXCEPT ![0] = old])

-----------------------------------------------------------------------------
(* The alternate stack.                                                    *)

\* The comparison is unsigned: the first word above the stack is not on it.
on_sig_stack(sp) == sp \in alt.sp .. (alt.sp + alt.size - 1)

sas_ss_flags(sp) == IF alt.size = 0 THEN "disable" ELSE IF on_sig_stack(sp) THEN "onstack" ELSE "none"

\* What a frame or a sigaltstack call records.
CurrentStack(sp) == [sp |-> alt.sp, size |-> alt.size, flags |-> sas_ss_flags(sp)]

\* The structure could be read; the answer through uoss is CurrentStack.
do_sigaltstack(ss, sp) ==
  CASE on_sig_stack(sp) -> [ret |-> "EPERM", alt |-> alt]
    [] ~on_sig_stack(sp) /\ ss.flags \notin {"disable", "onstack", "none"} -> [ret |-> "EINVAL", alt |-> alt]
    [] ~on_sig_stack(sp) /\ ss.flags = "disable" -> [ret |-> "0", alt |-> [sp |-> 0, size |-> 0]]
    [] OTHER -> IF ss.size < MinSigStkSz THEN [ret |-> "ENOMEM", alt |-> alt]
                ELSE [ret |-> "0", alt |-> [sp |-> ss.sp, size |-> ss.size]]

-----------------------------------------------------------------------------
(* What every processor's code is made of.                                 *)

AlignDown(a, n) == a - (a % n)

\* lock_user_struct: the whole frame lies in memory the guest may write.
Accessible(a, n) ==
  \/ Low <= a /\ a + n <= High
  \/ AltLow <= a /\ a + n <= AltHigh

Handler == <<"handler", 0>>
Arg == <<"arg", 0>>
TheRestorer == <<"restorer", 0>>
Tramp(a) == <<"tramp", a>>

Size(rt) == IF rt THEN RtFrameSize ELSE FrameSize
SigreturnOf(rt) == IF rt THEN "rt_sigreturn" ELSE "sigreturn"

\* The frame at address a: saved registers, mask, alternate stack, trampoline code
\* (the system call in it) and, where the return address is on the stack, pretcode.
Frame(rt, sc, set, tramp, pretcode, sp) ==
  [size |-> Size(rt), rt |-> rt, sc |-> sc, mask |-> set,
   stack |-> IF rt THEN CurrentStack(sp) ELSE [sp |-> 0, size |-> 0, flags |-> "absent"],
   tramp |-> tramp, pretcode |-> pretcode]

\* Outcomes of setup_frame and of do_sigreturn.
Entered(a, f, e) == [out |-> "ok", addr |-> a, frame |-> f, env |-> e]
ForceSegv == [out |-> "segv"]
NotEntered == [out |-> "dropped"]
Restored(e, set, a) == [out |-> "ok", env |-> e, mask |-> set, alt |-> a]

\* Trampoline code is written unless the guest brings its own.
TrampCode(ka, rt) == IF ka.restorer THEN "none" ELSE SigreturnOf(rt)

ReturnAddress(ka, a) == IF ka.restorer THEN TheRestorer ELSE Tramp(a)

AltTop == alt.sp + alt.size

HasFrame(a) == a \in DOMAIN mem

\* The mask a frame brings back, and the alternate stack rt_sigreturn sets.
FrameMask(a) == target_to_host_sigset(mem[a].mask)
FrameStack(a, sp) == do_sigaltstack(mem[a].stack, sp).alt

-----------------------------------------------------------------------------
(* i386: the return address is on the stack.                               *)

i386_setup_sigcontext == Restrict(env, {"sp", "pc", "ax", "gpr", "seg", "flags", "fpu"})

\* Mutant: the handler's stack is entered again from the top.
i386_get_sigframe_top(ka, n) ==
  LET sp == IF ka.onstack /\ alt.size # 0 THEN AltTop ELSE env["sp"]
  IN AlignDown(sp - n, 2)

i386_get_sigframe(ka, n) ==
  LET sp == IF ka.onstack /\ sas_ss_flags(env["sp"]) = "none" THEN AltTop ELSE env["sp"]
  IN AlignDown(sp - n, 2)

\* setup_frame and setup_rt_frame differ in the frame; TF is cleared for the handler.
i386_setup_frame(ka, rt, set) ==
  LET a == i386_get_sigframe(ka, Size(rt))
  IN IF ~Accessible(a, Size(rt)) THEN ForceSegv
     ELSE Entered(a, Frame(rt, i386_setup_sigcontext, set, TrampCode(ka, rt), ReturnAddress(ka, a), env["sp"]),
                  [env EXCEPT !["sp"] = a, !["pc"] = Handler, !["seg"] = <<"seg", 0>>, !["flags"] = Arg])

\* eax comes back as the system call's result.
i386_restore_sigcontext(sc) == sc @@ env

\* ret has popped pretcode, and the trampoline of sigreturn the signal number.
i386_do_sigreturn(rt) ==
  LET a == env["sp"] - IF rt THEN 1 ELSE 2
  IN IF ~HasFrame(a) THEN ForceSegv
     ELSE LET e == i386_restore_sigcontext(mem[a].sc)
          IN Restored(e, FrameMask(a), IF rt THEN FrameStack(a, e["sp"]) ELSE alt)

-----------------------------------------------------------------------------
(* ARM: old and new frame layout; a frame that cannot be written is ignored.  *)

arm_setup_sigcontext == Restrict(env, {"sp", "pc", "r0", "args", "gpr", "lr", "cpsr"})

arm_get_sigframe(ka, n) ==
  LET sp == IF ka.onstack /\ sas_ss_flags(env["sp"]) = "none" THEN AltTop ELSE env["sp"]
  IN AlignDown(sp - n, 2)

\* The thumb bit of the handler goes into the state the handler starts in.
arm_setup_return(ka, a, rt) ==
  [env EXCEPT !["r0"] = Arg, !["sp"] = a, !["lr"] = ReturnAddress(ka, a), !["pc"] = Handler, !["cpsr"] = Arg,
              !["args"] = IF rt THEN Arg ELSE @]

\* From 2.6.18 on a plain frame holds a whole ucontext too.
arm_setup_sigframe_v2(ka, rt, set) ==
  [Frame(TRUE, arm_setup_sigcontext, set, TrampCode(ka, rt), Arg, env["sp"]) EXCEPT !.size = Size(rt), !.rt = rt]

arm_setup_frame_v1(ka, set) ==
  LET a == arm_get_sigframe(ka, FrameSize)
  IN IF ~Accessible(a, FrameSize) THEN NotEntered
     ELSE Entered(a, Frame(FALSE, arm_setup_sigcontext, set, TrampCode(ka, FALSE), Arg, env["sp"]),
                  arm_setup_return(ka, a, FALSE))

arm_setup_rt_frame_v1(ka, set) ==
  LET a == arm_get_sigframe(ka, RtFrameSize)
  IN IF ~Accessible(a, RtFrameSize) THEN NotEntered
     ELSE Entered(a, Frame(TRUE, arm_setup_sigcontext, set, TrampCode(ka, TRUE), Arg, env["sp"]),
                  arm_setup_return(ka, a, TRUE))

arm_setup_frame_v2(ka, rt, set) ==
  LET a == arm_get_sigframe(ka, Size(rt))
  IN IF ~Accessible(a, Size(rt)) THEN NotEntered
     ELSE Entered(a, arm_setup_sigframe_v2(ka, rt, set), arm_setup_return(ka, a, rt))

\* get_osversion is fixed by the -r option, so the layouts are two targets.
arm_setup_frame(ka, rt, set) ==
  IF target = "arm_v2" THEN arm_setup_frame_v2(ka, rt, set)
  ELSE IF rt THEN arm_setup_rt_frame_v1(ka, set) ELSE arm_setup_frame_v1(ka, set)

arm_restore_sigcontext(sc) == sc @@ env

\* Mutant: the first word of the mask only.
arm_do_sigreturn_v1_word(rt) ==
  LET a == env["sp"]
  IN IF a % 2 # 0 \/ ~HasFrame(a) THEN ForceSegv
     ELSE Restored(arm_restore_sigcontext(mem[a].sc), target_to_host_old_sigset(mem[a].mask[0]), alt)

arm_do_sigreturn_v1(rt) ==
  LET a == env["sp"]
  IN IF a % 2 # 0 \/ ~HasFrame(a) THEN ForceSegv
     ELSE LET e == arm_restore_sigcontext(mem[a].sc)
          IN Restored(e, FrameMask(a), IF rt THEN FrameStack(a, e["sp"]) ELSE alt)

\* In an rt frame the stack is read at the place it has in a plain frame, which lies
\* inside the siginfo: sigaltstack is called with what is there.
arm_do_sigreturn_v2(rt) ==
  LET a == env["sp"]
  IN IF a % 2 # 0 \/ ~HasFrame(a) THEN {ForceSegv}
     ELSE LET e == arm_restore_sigcontext(mem[a].sc)
          IN IF rt THEN {Restored(e, FrameMask(a), do_sigaltstack(ss, e["sp"]).alt) : ss \in AltCalls[target]}
             ELSE {Restored(e, FrameMask(a), FrameStack(a, e["sp"]))}

-----------------------------------------------------------------------------
(* SPARC: locals and ins stay in their register window; no rt frames.       *)

\* The switch does not ask whether an alternate stack is set.
sparc_get_sigframe(ka, n) ==
  LET sp == IF ka.onstack /\ ~on_sig_stack(env["sp"]) /\ AltTop % 2 = 0 THEN AltTop ELSE env["sp"]
  IN sp - n

sparc_setup___siginfo == Restrict(env, {"sp", "pc", "icc", "y", "gpr", "o0", "args", "o7"})

sparc_setup_frame(ka, rt, set) ==
  LET a == sparc_get_sigframe(ka, FrameSize)
  IN IF rt THEN NotEntered
     ELSE IF ~Accessible(a, FrameSize) THEN ForceSegv
     ELSE Entered(a, Frame(FALSE, sparc_setup___siginfo, set, TrampCode(ka, FALSE), Arg, env["sp"]),
                  [env EXCEPT !["sp"] = a, !["o0"] = Arg, !["args"] = Arg, !["pc"] = Handler,
                              !["o7"] = ReturnAddress(ka, a)])

\* pc and npc are aligned by construction; only the condition codes of psr return.
sparc_do_sigreturn(rt) ==
  LET a == env["sp"]
  IN IF ~HasFrame(a) THEN ForceSegv
     ELSE Restored(mem[a].sc @@ env, FrameMask(a), alt)

-----------------------------------------------------------------------------
(* MIPS o32.                                                               *)

mips_setup_sigcontext == Restrict(env, {"sp", "pc", "gpr", "a0", "args", "t9", "ra", "hilo"})

\* The FPU emulator's place below the stack pointer is spared first.
mips_get_sigframe(ka, n) ==
  LET sp == env["sp"] - 2
      top == IF ka.onstack /\ sas_ss_flags(sp) = "none" THEN AltTop ELSE sp
  IN AlignDown(top - n, 2)

\* install_sigtramp always writes the trampoline; SA_RESTORER is not looked at.
mips_setup_frame(ka, rt, set) ==
  LET a == mips_get_sigframe(ka, Size(rt))
  IN IF ~Accessible(a, Size(rt)) THEN ForceSegv
     ELSE Entered(a, Frame(rt, mips_setup_sigcontext, set, SigreturnOf(rt), Arg, env["sp"]),
                  [env EXCEPT !["a0"] = Arg, !["args"] = Arg, !["sp"] = a, !["ra"] = Tramp(a),
                              !["pc"] = Handler, !["t9"] = Handler])

\* The program counter takes the way over CP0_EPC.
mips_restore_sigcontext(sc) == [r \in DOMAIN sc \ {"pc"} |-> sc[r]] @@ env

mips_do_sigreturn(rt) ==
  LET a == env["sp"]
  IN IF ~HasFrame(a) THEN ForceSegv
     ELSE LET e == mips_restore_sigcontext(mem[a].sc)
              epc == mem[a].sc["pc"]
          IN Restored([e EXCEPT !["pc"] = epc], FrameMask(a), IF rt THEN FrameStack(a, e["sp"]) ELSE alt)

-----------------------------------------------------------------------------
(* SuperH.                                                                 *)

sh4_get_sigframe(ka, n) ==
  LET sp == IF ka.onstack /\ sas_ss_flags(env["sp"]) = "none" THEN AltTop ELSE env["sp"]
  IN AlignDown(sp - n, 2)

sh4_setup_sigcontext == Restrict(env, {"sp", "pc", "r0", "args", "gpr", "pr", "sys", "fpu"})

\* r0 comes back as the result.
sh4_restore_sigcontext(sc) == sc @@ env

sh4_setup_frame(ka, rt, set) ==
  LET a == sh4_get_sigframe(ka, Size(rt))
  IN IF ~Accessible(a, Size(rt)) THEN ForceSegv
     ELSE Entered(a, Frame(rt, sh4_setup_sigcontext, set, TrampCode(ka, rt), Arg, env["sp"]),
                  [env EXCEPT !["pr"] = ReturnAddress(ka, a), !["sp"] = a, !["args"] = Arg, !["pc"] = Handler])

sh4_do_sigreturn(rt) ==
  LET a == env["sp"]
  IN IF ~HasFrame(a) THEN ForceSegv
     ELSE LET e == sh4_restore_sigcontext(mem[a].sc)
          IN Restored(e, FrameMask(a), IF rt THEN FrameStack(a, e["sp"]) ELSE alt)

-----------------------------------------------------------------------------
(* MicroBlaze and CRIS: no rt frames.                                      *)

microblaze_setup_sigcontext == Restrict(env, {"sp", "pc", "args", "gpr", "r14", "r15"})
microblaze_restore_sigcontext(sc) == sc @@ env

microblaze_get_sigframe(ka, n) ==
  LET sp == IF ka.onstack /\ ~on_sig_stack(env["sp"]) THEN AltTop ELSE env["sp"]
  IN AlignDown(sp - n, 2)

microblaze_setup_frame(ka, rt, set) ==
  LET a == microblaze_get_sigframe(ka, FrameSize)
  IN IF rt THEN NotEntered
     ELSE IF ~Accessible(a, FrameSize) THEN ForceSegv
     ELSE Entered(a, Frame(FALSE, microblaze_setup_sigcontext, set, TrampCode(ka, FALSE), Arg, env["sp"]),
                  [env EXCEPT !["r15"] = ReturnAddress(ka, a), !["sp"] = a, !["args"] = Arg, !["pc"] = Handler])

\* rtbd r14 ends the system call: the link register gets the interrupted address.
microblaze_do_sigreturn(rt) ==
  LET a == env["sp"]
  IN IF ~HasFrame(a) THEN ForceSegv
     ELSE LET e == microblaze_restore_sigcontext(mem[a].sc)
          IN Restored([e EXCEPT !["r14"] = e["pc"]], FrameMask(a), alt)

cris_setup_sigcontext == Restrict(env, {"sp", "pc", "r10", "gpr", "srp"})
cris_restore_sigcontext(sc) == sc @@ env

\* No alternate stack.
cris_get_sigframe(n) == env["sp"] - n

cris_setup_frame(ka, rt, set) ==
  LET a == cris_get_sigframe(FrameSize)
  IN IF rt THEN NotEntered
     ELSE IF ~Accessible(a, FrameSize) THEN ForceSegv
     ELSE Entered(a, Frame(FALSE, cris_setup_sigcontext, set, "sigreturn", Arg, env["sp"]),
                  [env EXCEPT !["sp"] = a, !["r10"] = Arg, !["pc"] = Handler, !["srp"] = Tramp(a)])

cris_do_sigreturn(rt) ==
  LET a == env["sp"]
  IN IF ~HasFrame(a) THEN ForceSegv
     ELSE Restored(cris_restore_sigcontext(mem[a].sc), FrameMask(a), alt)

-----------------------------------------------------------------------------
(* PowerPC: a stack frame lies between the signal frame and the handler.    *)

SIGNAL_FRAMESIZE == 2

\* The test of sas_ss_flags is the other way round than everywhere else.
ppc_get_sigframe(ka, n) ==
  LET oldsp == IF ka.onstack /\ sas_ss_flags(env["sp"]) # "none" THEN AltTop ELSE env["sp"]
  IN AlignDown(oldsp - n, 4)

ppc_save_user_regs == Restrict(env, {"sp", "pc", "args", "gpr", "lr", "ctr", "le", "fpu", "fpscr", "vec"})

\* Of the machine state register only the byte order returns, and only to a handler's caller.
ppc_restore_user_regs(sc) == sc @@ env

Gap(rt) == IF rt THEN SIGNAL_FRAMESIZE + 1 ELSE SIGNAL_FRAMESIZE

ppc_setup_frame(ka, rt, set) ==
  LET a == ppc_get_sigframe(ka, Size(rt))
  IN IF ~Accessible(a, Size(rt)) THEN ForceSegv
     ELSE Entered(a, Frame(rt, ppc_save_user_regs, set, SigreturnOf(rt), Arg, env["sp"]),
                  [env EXCEPT !["lr"] = Tramp(a), !["fpscr"] = Arg, !["sp"] = a - Gap(rt), !["args"] = Arg,
                              !["pc"] = Handler, !["le"] = Arg])

\* do_setcontext sets the mask before the registers.
ppc_do_sigreturn(rt) ==
  LET a == env["sp"] + Gap(rt)
  IN IF ~HasFrame(a) THEN ForceSegv
     ELSE LET e == ppc_restore_user_regs(mem[a].sc)
          IN Restored(e, FrameMask(a), IF rt THEN FrameStack(a, e["sp"]) ELSE alt)

-----------------------------------------------------------------------------
(* m68k: a plain frame keeps the scratch registers only.                   *)

m68k_setup_sigcontext == Restrict(env, {"sp", "pc", "d0", "scratch", "ccr"})
m68k_restore_sigcontext(sc) == sc @@ env
m68k_target_rt_setup_ucontext == Restrict(env, {"sp", "pc", "d0", "scratch", "callee", "ccr"})
m68k_target_rt_restore_ucontext(sc) == sc @@ env

m68k_get_sigframe(ka, n) ==
  LET sp == IF ka.onstack /\ sas_ss_flags(env["sp"]) = "none" THEN AltTop ELSE env["sp"]
  IN AlignDown(sp - n, 2)

\* The offset of the trampoline is that of the plain frame; both have it at the same place.
m68k_setup_frame(ka, rt, set) ==
  LET a == m68k_get_sigframe(ka, Size(rt))
      sc == IF rt THEN m68k_target_rt_setup_ucontext ELSE m68k_setup_sigcontext
  IN IF ~Accessible(a, Size(rt)) THEN ForceSegv
     ELSE Entered(a, Frame(rt, sc, set, SigreturnOf(rt), Tramp(a), env["sp"]),
                  [env EXCEPT !["sp"] = a, !["pc"] = Handler])

m68k_do_sigreturn(a) ==
  IF ~HasFrame(a) THEN {ForceSegv} ELSE {Restored(m68k_restore_sigcontext(mem[a].sc), FrameMask(a), alt)}

\* The mask is set from a variable that was never assigned.
m68k_do_rt_sigreturn(a) ==
  IF ~HasFrame(a) THEN {ForceSegv}
  ELSE LET e == m68k_target_rt_restore_ucontext(mem[a].sc)
       IN {Restored(e, garbage, FrameStack(a, e["sp"])) : garbage \in Masks}

-----------------------------------------------------------------------------
(* Alpha.                                                                  *)

alpha_setup_sigcontext == Restrict(env, {"sp", "pc", "v0", "args", "ra", "pv", "gpr", "fpu"})
alpha_restore_sigcontext(sc) == sc @@ env

alpha_get_sigframe(ka, n) ==
  LET sp == IF ka.onstack /\ sas_ss_flags(env["sp"]) = "none" THEN AltTop ELSE env["sp"]
  IN AlignDown(sp - n, 4)

\* Without a restorer the handler is to return to the frame, not to the code in it.
alpha_setup_frame(ka, rt, set) ==
  LET a == alpha_get_sigframe(ka, Size(rt))
  IN IF ~Accessible(a, Size(rt)) THEN ForceSegv
     ELSE Entered(a, Frame(rt, alpha_setup_sigcontext, set, TrampCode(ka, rt), Arg, env["sp"]),
                  [env EXCEPT !["ra"] = IF ka.restorer THEN TheRestorer ELSE <<"frame", a>>,
                              !["pv"] = Handler, !["pc"] = Handler, !["args"] = Arg, !["sp"] = a])

\* The stub moves the stack pointer into a0.
alpha_do_sigreturn(rt) ==
  LET a == env["sp"]
  IN IF ~HasFrame(a) THEN ForceSegv
     ELSE LET e == alpha_restore_sigcontext(mem[a].sc)
          IN Restored(e, FrameMask(a), IF rt THEN FrameStack(a, e["sp"]) ELSE alt)

-----------------------------------------------------------------------------
(* Any processor.                                                          *)

Regs(t) ==
  CASE t = "i386" -> {"sp", "pc", "ax", "gpr", "seg", "flags", "fpu"}
    [] t \in {"arm_v1", "arm_v2"} -> {"sp", "pc", "r0", "args", "gpr", "lr", "cpsr", "fpu"}
    [] t = "sparc" -> {"sp", "pc", "icc", "y", "gpr", "o0", "args", "o7", "fpu"}
    [] t = "mips" -> {"sp", "pc", "gpr", "a0", "args", "t9", "ra", "hilo", "fpu"}
    [] t = "sh4" -> {"sp", "pc", "r0", "args", "gpr", "pr", "sys", "fpu"}
    [] t = "microblaze" -> {"sp", "pc", "args", "gpr", "r14", "r15", "msr"}
    [] t = "cris" -> {"sp", "pc", "r10", "gpr", "srp", "ccs"}
    [] t = "ppc" -> {"sp", "pc", "args", "gpr", "lr", "ctr", "le", "fpu", "fpscr", "vec"}
    [] t = "m68k" -> {"sp", "pc", "d0", "scratch", "callee", "ccr", "fpu"}
    [] t = "alpha" -> {"sp", "pc", "v0", "args", "ra", "pv", "gpr", "fpu"}

\* Registers the frames of a target have no code for (or, r14, that a system call may
\* change): a handler that touches them changes the interrupted program.
NotKept(t) ==
  CASE t \in {"arm_v1", "arm_v2", "sparc", "mips", "m68k"} -> {"fpu"}
    [] t = "microblaze" -> {"r14", "msr"}
    [] t = "cris" -> {"ccs"}
    [] OTHER -> {}

\* The register with the return address; on i386 and m68k it is in the frame.
LinkRegister(t) ==
  CASE t \in {"arm_v1", "arm_v2", "ppc"} -> "lr" [] t = "sparc" -> "o7" [] t \in {"mips", "alpha"} -> "ra"
    [] t = "sh4" -> "pr" [] t = "microblaze" -> "r15" [] t = "cris" -> "srp"

setup_frame(ka, rt, set) ==
  CASE target = "i386" -> i386_setup_frame(ka, rt, set)
    [] target \in {"arm_v1", "arm_v2"} -> arm_setup_frame(ka, rt, set)
    [] target = "sparc" -> sparc_setup_frame(ka, rt, set)
    [] target = "mips" -> mips_setup_frame(ka, rt, set)
    [] target = "sh4" -> sh4_setup_frame(ka, rt, set)
    [] target = "microblaze" -> microblaze_setup_frame(ka, rt, set)
    [] target = "cris" -> cris_setup_frame(ka, rt, set)
    [] target = "ppc" -> ppc_setup_frame(ka, rt, set)
    [] target = "m68k" -> m68k_setup_frame(ka, rt, set)
    [] target = "alpha" -> alpha_setup_frame(ka, rt, set)

\* The results the system call in the trampoline may have.
do_sigreturn(rt) ==
  CASE target = "i386" -> {i386_do_sigreturn(rt)}
    [] target = "arm_v1" -> {arm_do_sigreturn_v1(rt)}
    [] target = "arm_v2" -> arm_do_sigreturn_v2(rt)
    [] target = "sparc" -> {sparc_do_sigreturn(rt)}
    [] target = "mips" -> {mips_do_sigreturn(rt)}
    [] target = "sh4" -> {sh4_do_sigreturn(rt)}
    [] target = "microblaze" -> {microblaze_do_sigreturn(rt)}
    [] target = "cris" -> {cris_do_sigreturn(rt)}
    [] target = "ppc" -> {ppc_do_sigreturn(rt)}
    [] target = "m68k" -> (IF rt THEN m68k_do_rt_sigreturn(env["sp"] - 1) ELSE m68k_do_sigreturn(env["sp"] - 1))
    [] target = "alpha" -> {alpha_do_sigreturn(rt)}

-----------------------------------------------------------------------------
Init ==
  /\ target \in Targets
  /\ env = [r \in Regs(target) |-> IF r = "sp" THEN High ELSE <<r, 0>>]
  /\ mask \in Masks
  /\ alt = StartAlt[target]
  /\ mem = <<>>
  /\ life = "run"
  /\ saved = <<>>

Actions == Handlers[target]
Depth == Len(saved)
Top == saved[Depth]

\* Frames that do not overlap the words a .. a + n - 1.
Apart(a, n) == {b \in DOMAIN mem : b + mem[b].size <= a \/ a + n <= b}
Store(a, f) == (a :> f) @@ Restrict(mem, Apart(a, f.size))

\* process_pending_signals: the old mask goes into the frame, the handler blocks more.
DeliverSignal(ka) ==
  /\ life = "run" /\ Depth < MaxDepth
  /\ LET r == setup_frame(ka, ka.siginfo, host_to_target_sigset(mask))
     IN /\ mask' = mask \cup {1}
        /\ CASE r.out = "segv" -> life' = "segv" /\ UNCHANGED <<env, mem, saved>>
             [] r.out = "dropped" -> UNCHANGED <<env, mem, saved, life>>
             [] r.out = "ok" ->
                  /\ env' = r.env
                  /\ mem' = Store(r.addr, r.frame)
                  /\ saved' = Append(saved, [env |-> env, mask |-> mask, alt |-> alt, ka |-> ka,
                                             addr |-> r.addr, frame |-> r.frame, entry |-> r.env])
                  /\ UNCHANGED life
  /\ UNCHANGED <<target, alt>>

\* The guest computes: every register is its own, a word may be pushed, and the mask set.
GuestWork(push, m) ==
  /\ life = "run"
  /\ env' = [r \in DOMAIN env |-> IF r = "sp" THEN env["sp"] - push
                                  ELSE IF r = "pc" \/ r = "seg" THEN env[r] ELSE <<r, Depth>>]
  /\ env' # env
  /\ env["sp"] = IF Depth = 0 THEN High ELSE Top.entry["sp"]
  /\ mask' = m
  /\ UNCHANGED <<target, alt, mem, life, saved>>

\* The guest calls sigaltstack.
GuestSigaltstack(ss) ==
  /\ life = "run"
  /\ alt' = do_sigaltstack(ss, env["sp"]).alt
  /\ alt' # alt
  /\ UNCHANGED <<target, env, mask, mem, life, saved>>

\* The handler has put back what the calling convention asks for, and returns.
ReturnsTo == IF target \in {"i386", "m68k"} THEN mem[Top.addr].pretcode ELSE Top.entry[LinkRegister(target)]

\* The stack pointer when the trampoline makes its system call.
SpAtSyscall(rt) ==
  Top.entry["sp"] + CASE target = "i386" -> (IF rt THEN 1 ELSE 2) [] target = "m68k" -> 1 [] OTHER -> 0

\* The handler is done: back through the trampoline or the restorer into sigreturn.
HandlerReturn ==
  /\ life = "run" /\ Depth > 0
  /\ env' = [r \in DOMAIN env |-> CASE r = "sp" -> SpAtSyscall(Top.ka.siginfo)
                                    [] r = "callee" -> Top.entry[r]
                                    [] r = "pc" -> <<"syscall", 0>>
                                    [] OTHER -> env[r]]
  /\ env["pc"] # <<"syscall", 0>>
  /\ life' = IF /\ Top.addr \in DOMAIN mem
                /\ \/ ReturnsTo = TheRestorer
                   \/ ReturnsTo = Tramp(Top.addr) /\ mem[Top.addr].tramp = SigreturnOf(Top.ka.siginfo)
             THEN "sigreturn" ELSE "lost"
  /\ UNCHANGED <<target, mask, alt, mem, saved>>

Sigreturn ==
  /\ life = "sigreturn"
  /\ \E r \in do_sigreturn(Top.ka.siginfo) :
       IF r.out = "segv" THEN life' = "segv" /\ UNCHANGED <<env, mask, alt, mem, saved>>
       ELSE /\ env' = r.env /\ mask' = r.mask /\ alt' = r.alt
            /\ saved' = SubSeq(saved, 1, Depth - 1)
            /\ life' = "run"
            /\ mem' = Restrict(mem, DOMAIN mem \ {Top.addr})
  /\ UNCHANGED target

Next ==
  \/ \E ka \in Actions : DeliverSignal(ka)
  \/ \E push \in 0 .. 1, m \in Masks : GuestWork(push, m)
  \/ \E ss \in AltCalls[target] : GuestSigaltstack(ss)
  \/ HandlerReturn
  \/ Sigreturn

Spec == Init /\ [][Next]_vars

-----------------------------------------------------------------------------
(* Properties.                                                             *)

TypeOK ==
  /\ target \in Targets /\ DOMAIN env = Regs(target)
  /\ mask \subseteq 1 .. Nsig
  /\ life \in {"run", "sigreturn", "segv", "lost"}
  /\ Depth <= MaxDepth

Returned == Depth' < Depth

(* do_sigreturn: the interrupted program goes on where it was, whatever       *)
(* handlers did, also nested ones on the alternate stack: with every register *)
(* the frame has room for; with the mask that process_pending_signals put     *)
(* into the frame, through both words and both numberings of the signals;     *)
(* with the alternate stack of before the handler when the frame records it   *)
(* and the resumed program is not on it.                                      *)
ContextRestored ==
  [][Returned =>
       /\ \A r \in DOMAIN env \ NotKept(target) : env'[r] = Top.env[r]
       /\ mask' = Top.mask
       /\ alt' = IF Top.frame.stack.flags # "absent" /\ ~on_sig_stack(Top.env["sp"])
                 THEN Top.alt ELSE alt]_vars

(* get_sigframe: the frame of a handler that has not returned is never       *)
(* overwritten by a later frame, and the handler returns to code that makes  *)
(* the system call that fits its frame.                                     *)
FramesIntact ==
  /\ \A i \in 1 .. Depth : saved[i].addr \in DOMAIN mem /\ mem[saved[i].addr] = saved[i].frame
  /\ life # "lost"

=============================================================================
