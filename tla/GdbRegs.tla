---------------------------- MODULE GdbRegs ----------------------------
(***************************************************************************)
(* The register file as the debugger sees it (gdbstub.c): per target, how  *)
(* cpu_gdb_read_register and cpu_gdb_write_register number the fields of   *)
(* CPUState, and the packets 'g' (all registers), 'G' (set them all), 'p'  *)
(* and 'P' (one register) that are built from them.                        *)
(*                                                                         *)
(* A register number stands for a Reg: its size in bytes and the fields    *)
(* of env it shows (none: it reads as zero, a write is ignored).  A byte   *)
(* of a packet is <<register it was read from, its place in the register>>,*)
(* so a 'G' that cuts the packet in other places than 'g' did is seen.     *)
(* A field holds 0..3; its low bit stands for the bits a write masks off   *)
(* (the ARM program counter, FCR31) or a mode bit of the field.            *)
(*                                                                         *)
(* Of the targets only i386 is in this repository: cpsr_write, cpu_put_psr *)
(* and ppc_store_msr are modelled by the bank or window of registers they  *)
(* switch to.  env shows a banked register once per bank, so a write of a  *)
(* mode changes which field a number stands for.                           *)
(***************************************************************************)
EXTENDS Integers, Sequences, FiniteSets

CONSTANTS
    Targets,     \* the configurations checked: records [arch, long, xml, opt, user]
    Garbage      \* what is read past the bytes of the packet, or across them

\* What the constants must be.
TargetsAssumption ==
    \A t \in Targets : /\ t.long \in {4, 8}
                       /\ t.xml \in BOOLEAN
                       /\ {t.opt, t.user} \subseteq BOOLEAN

VARIABLES
    target,      \* the configuration this binary was built for
    env,         \* env[f]: the field f of CPUState
    saved,       \* what the debugger keeps of its last 'g': bytes and values
    last         \* the last packet handled: [op, n, v]

vars == <<target, env, saved, last>>

Values == 0..3
Even(v) == v - (v % 2)

-----------------------------------------------------------------------------
(* Registers *)

Reg(sz, fs) == [size |-> sz, parts |-> fs, even |-> FALSE]
RegEven(sz, f) == [size |-> sz, parts |-> <<f>>, even |-> TRUE]
NoReg == Reg(0, <<>>)
Zero(sz) == Reg(sz, <<>>)

F(name, i) == <<name, i>>
One(sz, name, i) == Reg(sz, <<F(name, i)>>)

\* Init of a table: register n is row n - first of a list of fields
Row(sz, names, n, first) == One(sz, names[n - first + 1], 0)

\* i386 and x86_64: opt is HF_CS64_MASK, CPU_NB_REGS 8 or 16
CPU_NB_REGS(t) == IF t.long = 8 THEN 16 ELSE 8
CPU_NB_REGS32 == 8
IDX_IP_REG(t) == CPU_NB_REGS(t)
IDX_SEG_REGS(t) == IDX_IP_REG(t) + 2
IDX_FP_REGS(t) == IDX_SEG_REGS(t) + 6
IDX_XMM_REGS(t) == IDX_FP_REGS(t) + 16
IDX_MXCSR_REG(t) == IDX_XMM_REGS(t) + CPU_NB_REGS(t)

I386_CS64(t) == t.long = 8 /\ t.opt

i386_read(t, e, n) ==
    LET fp == n - IDX_FP_REGS(t)
        xmm == n - IDX_XMM_REGS(t)
    IN  CASE n < CPU_NB_REGS(t) /\ I386_CS64(t) -> One(8, "regs", n)
          [] n < CPU_NB_REGS32 /\ ~I386_CS64(t) -> One(4, "regs", n)
          [] n >= CPU_NB_REGS32 /\ n < CPU_NB_REGS(t) /\ ~I386_CS64(t) -> NoReg
          [] fp \in 0..7 -> One(10, "fpregs", fp)
          [] xmm \in 0..(CPU_NB_REGS(t) - 1) ->
                IF xmm < CPU_NB_REGS32 \/ I386_CS64(t)
                THEN Reg(16, <<F("xmm_q0", xmm), F("xmm_q1", xmm)>>)
                ELSE NoReg
          [] n = IDX_IP_REG(t) -> One(IF I386_CS64(t) THEN 8 ELSE 4, "eip", 0)
          [] n = IDX_IP_REG(t) + 1 -> One(4, "eflags", 0)
          [] n - IDX_SEG_REGS(t) \in 0..5 -> One(4, "segs", n - IDX_SEG_REGS(t))
          [] fp = 8 -> One(4, "fpuc", 0)
          [] fp = 9 -> Reg(4, <<F("fpus", 0), F("fpstt", 0)>>)
          [] fp \in 10..15 -> Zero(4)
          [] n = IDX_MXCSR_REG(t) -> One(4, "mxcsr", 0)
          [] OTHER -> NoReg

\* Every case assigns what i386_read shows and returns the same sizes.  In
\* system emulation cpu_x86_gdb_load_seg returns 4 without storing a selector
\* whose descriptor is not found (an odd nodescr).
IsSeg(t, n) == n - IDX_SEG_REGS(t) \in 0..5

i386_write(t, e, n) ==
    IF IsSeg(t, n) /\ ~t.user /\ e[F("nodescr", 0)] % 2 = 1 THEN Zero(4)
    ELSE i386_read(t, e, n)

\* PowerPC: floating point is only in the core set for an old debugger; in
\* system emulation an odd msr stands for TGPR, other registers 0-3.
PpcTgpr(t, e) == ~t.user /\ e[F("msr", 0)] % 2 = 1

ppc_read(t, e, n) ==
    CASE n < 32 -> One(t.long, "gpr", IF n < 4 /\ PpcTgpr(t, e) THEN n + 32 ELSE n)
      [] n \in 32..63 -> IF t.xml THEN NoReg ELSE One(8, "fpr", n - 32)
      [] n \in {64, 65} -> Row(t.long, <<"nip", "msr">>, n, 64)
      [] n = 66 -> Reg(4, [i \in 1..8 |-> F("crf", i - 1)])
      [] n \in 67..69 -> Row(t.long, <<"lr", "ctr", "xer">>, n, 67)
      [] n = 70 -> IF t.xml THEN NoReg ELSE Zero(4)
      [] OTHER -> NoReg

ppc_write(t, e, n) ==
    ppc_read(t, e, n)

\* SPARC: opt is a SPARC64 binary with a 64-bit ABI.  Registers 8-31 are those
\* of the current window, of two; the ins of one are the outs of the other.
SparcCwpField(t) == IF t.opt THEN F("cwp", 0) ELSE F("psr", 0)
SparcWindow(t, e, i) == (((e[SparcCwpField(t)] % 2) * 16) + i) % 32
SparcRegs == <<"y", "psr", "wim", "tbr", "pc", "npc", "fsr">>
Sparc64Tstate == <<F("ccr", 0), F("asi", 0), F("pstate", 0), F("cwp", 0)>>

sparc_read(t, e, n) ==
    CASE n < 8 -> One(t.long, "gregs", n)
      [] n \in 8..31 -> One(t.long, "regbase", SparcWindow(t, e, n - 8))
      [] n \in 32..63 -> One(4, "fpr", n - 32)
      [] n \in 64..70 /\ ~t.opt -> Row(t.long, SparcRegs, n, 64)
      [] n >= 71 /\ ~t.opt -> Zero(t.long)
      [] n \in 64..79 /\ t.opt ->
            Reg(8, <<F("fpr", ((n - 64) * 2) + 32), F("fpr", ((n - 64) * 2) + 33)>>)
      [] n \in {80, 81} /\ t.opt -> Row(8, <<"pc", "npc">>, n, 80)
      [] n = 82 /\ t.opt -> Reg(8, Sparc64Tstate)
      [] n \in 83..85 /\ t.opt -> Row(8, <<"fsr", "fprs", "y">>, n, 83)
      [] OTHER -> NoReg

\* The 64-bit write of f0-f31 assigns fpr[n], not fpr[n - 32]; the CSR of
\* the 32-bit set is not written and consumes nothing.
sparc_write(t, e, n) ==
    CASE ~t.opt /\ n >= 71 -> NoReg
      [] t.opt /\ n \in 32..63 -> One(4, "fpr", n)
      [] OTHER -> sparc_read(t, e, n)

\* ARM: FPA registers (16..24) are only there for an old debugger.  An odd
\* cpsr stands for FIQ mode, which has registers 8-14 of its own.
ArmFiq(t, e) == ~t.user /\ e[F("cpsr", 0)] % 2 = 1

arm_read(t, e, n) ==
    CASE n < 16 -> One(4, "regs", IF n \in 8..14 /\ ArmFiq(t, e) THEN n + 16 ELSE n)
      [] n \in 16..23 -> IF t.xml THEN NoReg ELSE Zero(12)
      [] n = 24 -> IF t.xml THEN NoReg ELSE Zero(4)
      [] n = 25 -> One(4, "cpsr", 0)
      [] OTHER -> NoReg

arm_write(t, e, n) ==
    IF n = 15 THEN RegEven(4, F("regs", 15)) ELSE arm_read(t, e, n)

m68k_read(t, e, n) ==
    CASE n < 8 -> One(4, "dregs", n)
      [] n \in 8..15 -> One(4, "aregs", n - 8)
      [] n \in {16, 17} -> Row(4, <<"sr", "pc">>, n, 16)
      [] OTHER -> NoReg

m68k_write(t, e, n) ==
    m68k_read(t, e, n)

\* MIPS: opt says the CPU has an FPU (Config1.FP); the low bit of CP0_Status
\* stands for FR, which chooses between 64-bit and 32-bit FP registers.
MipsFR(e) == e[F("CP0_Status", 0)] % 2 = 1
MipsFpr(t, e, i) ==
    IF MipsFR(e) THEN Reg(t.long, <<F("fpr_w", i), F("fpr_hi", i)>>)
                 ELSE One(t.long, "fpr_w", i)
MipsRegs == <<"CP0_Status", "LO", "HI", "CP0_BadVAddr", "CP0_Cause">>

mips_read(t, e, n) ==
    CASE n < 32 -> One(t.long, "gpr", n)
      [] n \in 32..36 -> Row(t.long, MipsRegs, n, 32)
      [] n = 37 -> Reg(t.long, <<F("PC", 0), F("hflags_M16", 0)>>)
      [] n \in 38..69 /\ t.opt -> MipsFpr(t, e, n - 38)
      [] n = 70 /\ t.opt -> One(t.long, "fcr31", 0)
      [] n = 71 /\ t.opt -> One(t.long, "fcr0", 0)
      [] n = 72 \/ n \in 73..88 -> Zero(t.long)
      [] n = 89 -> One(t.long, "CP0_PRid", 0)
      [] OTHER -> NoReg

\* A register that is not there is ignored but consumes its bytes.
mips_write(t, e, n) ==
    CASE n = 70 /\ t.opt -> RegEven(t.long, F("fcr31", 0))
      [] n \in 38..71 /\ ~t.opt -> Zero(t.long)
      [] n = 89 -> Zero(t.long)
      [] OTHER -> mips_read(t, e, n)

\* SH4: sr = 3 stands for MD and RB both set (registers 0-7 are bank 1), an
\* odd fpscr for FR (the other half of fregs).
Sh4Banked(e) == e[F("sr", 0)] = 3
Sh4Row16 == <<"pc", "pr", "gbr", "vbr", "mach", "macl", "sr", "fpul", "fpscr">>

sh4_read(t, e, n) ==
    CASE n < 8 -> One(4, "gregs", IF Sh4Banked(e) THEN n + 16 ELSE n)
      [] n \in 8..15 -> One(4, "gregs", n)
      [] n \in 16..24 -> Row(4, Sh4Row16, n, 16)
      [] n \in 25..40 ->
            One(4, "fregs", (n - 25) + (IF e[F("fpscr", 0)] % 2 = 1 THEN 16 ELSE 0))
      [] n \in {41, 42} -> Row(4, <<"ssr", "spc">>, n, 41)
      [] n \in 43..50 -> One(4, "gregs", n - 43)
      [] n \in 51..58 -> One(4, "gregs", n - (51 - 16))
      [] OTHER -> NoReg

\* Mutant: the banks (43..58) are taken for read-only copies of 0..7.
sh4_write_onebank(t, e, n) ==
    IF n \in 43..58 THEN Zero(4) ELSE sh4_read(t, e, n)

sh4_write(t, e, n) ==
    sh4_read(t, e, n)

microblaze_read(t, e, n) ==
    IF n < 32 THEN One(4, "regs", n) ELSE One(4, "sregs", n - 32)

\* n > NUM_CORE_REGS is refused; the caller never passes it.
microblaze_write(t, e, n) ==
    IF n > 32 + 5 THEN NoReg ELSE microblaze_read(t, e, n)

\* CRIS: opt says pregs[PR_VR] < 32, a CRISv10; srs (pregs[3]) selects the
\* bank of support registers shown as 33..48.
crisv10_read(t, e, n) ==
    CASE n < 15 -> One(4, "regs", n)
      [] n = 15 -> One(4, "pc", 0)
      [] n \in {16, 17} -> One(1, "pregs", n - 16)
      [] n \in {20, 21} -> One(2, "pregs", n - 16)
      [] n \in 23..31 -> One(4, "pregs", n - 16)
      [] OTHER -> NoReg

cris_read(t, e, n) ==
    CASE t.opt -> crisv10_read(t, e, n)
      [] ~t.opt /\ n < 16 -> One(4, "regs", n)
      [] ~t.opt /\ n \in {16, 17, 19} -> One(1, "pregs", n - 16)
      [] ~t.opt /\ n = 20 -> One(2, "pregs", 4)
      [] ~t.opt /\ (n = 18 \/ n \in 21..31) -> One(4, "pregs", n - 16)
      [] ~t.opt /\ n = 32 -> One(4, "pc", 0)
      [] ~t.opt /\ n \in 33..48 -> One(4, "sregs", (e[F("pregs", 3)] * 16) + (n - 33))
      [] OTHER -> NoReg

\* One write function for both versions of the CPU.
cris_write(t, e, n) ==
    CASE n > 49 -> NoReg
      [] n < 16 -> One(4, "regs", n)
      [] n \in {16, 17, 19} -> Zero(1)
      [] n = 20 -> Zero(2)
      [] n = 18 \/ n \in 21..31 -> One(4, "pregs", n - 16)
      [] n = 32 -> One(4, "pc", 0)
      [] OTHER -> Zero(4)

alpha_read(t, e, n) ==
    CASE n \in 0..30 -> One(8, "ir", n)
      [] n \in 32..62 -> One(8, "fir", n - 32)
      [] n = 63 -> One(8, "fpcr", 0)
      [] n = 64 -> One(8, "pc", 0)
      [] n = 66 -> One(8, "unique", 0)
      [] n \in {31, 65} -> Zero(8)
      [] OTHER -> NoReg

alpha_write(t, e, n) ==
    alpha_read(t, e, n)

\* S390 (the numbers are those of the target's cpu.h): PSWM, PSWA, R0..R15,
\* A0..A15, FPC, F0..F15, PC, CC in this order
s390x_read(t, e, n) ==
    CASE n = 0 -> One(8, "psw_mask", 0)
      [] n = 1 \/ n = 51 -> One(8, "psw_addr", 0)
      [] n \in 2..17 -> One(8, "regs", n - 2)
      [] n \in 18..33 -> One(4, "aregs", n - 18)
      [] n = 34 -> One(4, "fpc", 0)
      [] n = 52 -> One(4, "cc", 0)
      [] OTHER -> NoReg

\* F0..F15 are not read (size 0) but a write of them consumes eight bytes.
s390x_write(t, e, n) ==
    IF n \in 35..50 THEN Zero(8) ELSE s390x_read(t, e, n)

-----------------------------------------------------------------------------
(* The stub's view of the CPU it was built for *)

NUM_CORE_REGS(t) ==
    CASE t.arch = "i386" -> (CPU_NB_REGS(t) * 2) + 25
      [] t.arch = "ppc" -> 71
      [] t.arch = "sparc" -> IF t.opt THEN 86 ELSE 72
      [] t.arch = "arm" -> 26
      [] t.arch = "m68k" -> 18
      [] t.arch = "mips" -> 73
      [] t.arch = "sh4" -> 59
      [] t.arch = "microblaze" -> 32 + 5
      [] t.arch = "cris" -> 49
      [] t.arch = "alpha" -> 67
      [] t.arch = "s390x" -> 53

cpu_gdb_read_register(t, e, n) ==
    CASE t.arch = "i386" -> i386_read(t, e, n)
      [] t.arch = "ppc" -> ppc_read(t, e, n)
      [] t.arch = "sparc" -> sparc_read(t, e, n)
      [] t.arch = "arm" -> arm_read(t, e, n)
      [] t.arch = "m68k" -> m68k_read(t, e, n)
      [] t.arch = "mips" -> mips_read(t, e, n)
      [] t.arch = "sh4" -> sh4_read(t, e, n)
      [] t.arch = "microblaze" -> microblaze_read(t, e, n)
      [] t.arch = "cris" -> cris_read(t, e, n)
      [] t.arch = "alpha" -> alpha_read(t, e, n)
      [] t.arch = "s390x" -> s390x_read(t, e, n)

cpu_gdb_write_register(t, e, n) ==
    CASE t.arch = "i386" -> i386_write(t, e, n)
      [] t.arch = "ppc" -> ppc_write(t, e, n)
      [] t.arch = "sparc" -> sparc_write(t, e, n)
      [] t.arch = "arm" -> arm_write(t, e, n)
      [] t.arch = "m68k" -> m68k_write(t, e, n)
      [] t.arch = "mips" -> mips_write(t, e, n)
      [] t.arch = "sh4" -> sh4_write(t, e, n)
      [] t.arch = "microblaze" -> microblaze_write(t, e, n)
      [] t.arch = "cris" -> cris_write(t, e, n)
      [] t.arch = "alpha" -> alpha_write(t, e, n)
      [] t.arch = "s390x" -> s390x_write(t, e, n)

\* The fields of CPUState that choose what a register number means
Control(t) ==
    CASE t.arch = "mips" -> {F("CP0_Status", 0)}
      [] t.arch = "sh4" -> {F("sr", 0), F("fpscr", 0)}
      [] t.arch = "cris" -> {F("pregs", 3)}
      [] t.arch = "sparc" -> {SparcCwpField(t)}
      [] t.arch = "arm" /\ ~t.user -> {F("cpsr", 0)}
      [] t.arch = "ppc" /\ ~t.user -> {F("msr", 0)}
      [] t.arch = "i386" /\ ~t.user -> {F("nodescr", 0)}
      [] t.arch = "i386" /\ t.user -> {F("segs", 3)}
      [] OTHER -> {}

\* Fields the guest leaves alone: the selectors of a user program, but for %es
Steady(t) ==
    IF t.arch = "i386" /\ t.user THEN {F("segs", i) : i \in 0..5 \ {3}} ELSE {}

\* The process aborts: user emulation loads a selector that differs with
\* cpu_x86_load_seg, and switches an ARM to no mode but user mode.
WriteAborts(t, e, n, vals) ==
    /\ t.user
    /\ \/ /\ t.arch = "i386" /\ IsSeg(t, n)
          /\ vals[1] # e[F("segs", n - IDX_SEG_REGS(t))]
       \/ t.arch = "arm" /\ n = 25 /\ vals[1] % 2 = 1

\* Fields whose low bit is clear in every state of the CPU
AlwaysEven(t) ==
    CASE t.arch = "arm" -> {F("regs", 15)} \cup (IF t.user THEN {F("cpsr", 0)} ELSE {})
      [] t.arch = "mips" -> {F("fcr31", 0)}
      [] OTHER -> {}

Parts(t, e) ==
    UNION {{cpu_gdb_read_register(t, e, n).parts[i] :
               i \in DOMAIN cpu_gdb_read_register(t, e, n).parts} :
           n \in 0..(NUM_CORE_REGS(t) - 1)}

\* Every field some setting of the control fields lets a number reach
Fields(t) ==
    Control(t) \cup
    UNION {Parts(t, c) : c \in [Control(t) -> Values]}

\* The bytes GET_REG stores for a register, as one value per field
Value(e, r) ==
    [i \in DOMAIN r.parts |-> e[r.parts[i]]]

\* case 'g': register n after register n - 1, for all num_g_regs of them
GPacket(t, e) ==
    LET bytes[n \in 0..NUM_CORE_REGS(t)] ==
          IF n = 0 THEN <<>>
          ELSE bytes[n - 1] \o
               [k \in 1..cpu_gdb_read_register(t, e, n - 1).size |-> <<n - 1, k>>]
    IN  bytes[NUM_CORE_REGS(t)]

\* The fields a write of register n leaves in env, vals one value per field
Store(e, r, vals) ==
    [f \in DOMAIN e |->
        IF \E i \in DOMAIN r.parts : r.parts[i] = f
        THEN LET v == vals[CHOOSE i \in DOMAIN r.parts : r.parts[i] = f]
             IN  IF r.even /\ v # Garbage THEN Even(v) ELSE v
        ELSE e[f]]

\* What register n finds at offset off of a 'G' packet that repeats what 'g'
\* returned: the values read from it, if its bytes begin there.
Found(pkt, vals, n, r, off) ==
    [i \in DOMAIN r.parts |->
        IF /\ off + r.size <= Len(pkt)
           /\ \A k \in 1..r.size : pkt[off + k] = <<n, k>>
           /\ i \in DOMAIN vals[n]
        THEN vals[n][i] ELSE Garbage]

\* case 'G': the loop ends when len is 0; len is unsigned, so a register
\* larger than what is left does not end it.
GSet(t, e, pkt, vals) ==
    LET step[n \in 0..NUM_CORE_REGS(t)] ==
          IF n = 0 THEN [env |-> e, off |-> 0, died |-> FALSE]
          ELSE LET s == step[n - 1]
                   r == cpu_gdb_write_register(t, s.env, n - 1)
                   found == Found(pkt, vals, n - 1, r, s.off)
               IN  CASE s.off = Len(pkt) \/ s.died -> s
                     [] s.off # Len(pkt) /\ ~s.died /\ WriteAborts(t, s.env, n - 1, found) ->
                            [s EXCEPT !.died = TRUE]
                     [] OTHER -> [s EXCEPT !.env = Store(s.env, r, found),
                                           !.off = @ + r.size]
    IN  step[NUM_CORE_REGS(t)]

-----------------------------------------------------------------------------
(* The system *)

CoreRegs == 0..(NUM_CORE_REGS(target) - 1)
Reads(n) == Value(env, cpu_gdb_read_register(target, env, n))

\* A state of the CPU: any control fields, the other fields all v
CpuStates(t, v) ==
    {[f \in Fields(t) |-> CASE f \in Control(t) -> c[f]
                            [] f \in AlwaysEven(t) -> Even(v)
                            [] f \in Steady(t) -> 2
                            [] OTHER -> v] :
        c \in [Control(t) -> Values]}

\* The bank or window that is current, where the register that chooses it
\* has a higher number than the registers BankedBefore it
Bank(t, e) ==
    CASE t.arch = "arm" -> IF ArmFiq(t, e) THEN 1 ELSE 0
      [] t.arch = "ppc" -> IF PpcTgpr(t, e) THEN 1 ELSE 0
      [] t.arch = "sparc" -> e[SparcCwpField(t)] % 2
      [] OTHER -> 0
BankedBefore(t) ==
    CASE t.arch = "arm" -> 8..14
      [] t.arch = "ppc" -> 0..3
      [] t.arch = "sparc" -> 8..31
      [] OTHER -> {}

Init ==
    /\ target \in Targets
    /\ env \in CpuStates(target, 2)
    /\ saved = [bytes |-> <<>>, vals |-> <<>>]
    /\ last = [op |-> "none", n |-> 0, v |-> 0]

\* 'g': the debugger reads all registers and keeps the packet
ReadAll ==
    /\ last.op = "none"
    /\ saved' = [bytes |-> GPacket(target, env), vals |-> [n \in CoreRegs |-> Reads(n)]]
    /\ last' = [op |-> "g", n |-> 0, v |-> 0]
    /\ UNCHANGED <<target, env>>

\* The guest runs (a function the debugger calls, for instance)
Run ==
    /\ last.op = "g"
    /\ env' \in CpuStates(target, 1)
    /\ last' = [op |-> "run", n |-> 0, v |-> 0]
    /\ UNCHANGED <<target, saved>>

\* 'G': the debugger restores what it has read (v: the bank it finds)
WriteAll ==
    LET set == GSet(target, env, saved.bytes, saved.vals)
    IN  /\ last.op = "run"
        /\ env' = set.env
        /\ last' = [op |-> IF set.died THEN "abort" ELSE "G", n |-> 0, v |-> Bank(target, env)]
        /\ UNCHANGED <<target, saved>>

\* 'P n=v': the debugger sets one register (only with gdb_has_xml)
WriteOne(n, v) ==
    LET r == cpu_gdb_write_register(target, env, n)
        vals == [i \in DOMAIN r.parts |-> v]
        dies == WriteAborts(target, env, n, vals)
    IN  /\ target.xml
        /\ last.op = "none"
        /\ env' = IF dies THEN env ELSE Store(env, r, vals)
        /\ last' = [op |-> IF dies THEN "abort" ELSE "P", n |-> n, v |-> v]
        /\ UNCHANGED <<target, saved>>

Next ==
    \/ ReadAll
    \/ Run
    \/ WriteAll
    \/ \E n \in CoreRegs, v \in {0, 3} : WriteOne(n, v)

Spec == Init /\ [][Next]_vars

-----------------------------------------------------------------------------
(* Properties *)

\* The types of the variables.
TypeOK ==
    /\ target \in Targets
    /\ DOMAIN env = Fields(target)
    /\ \A f \in DOMAIN env : env[f] \in Values \cup {Garbage}
    /\ last.op \in {"none", "g", "run", "G", "P", "abort"}

Writable(n) == cpu_gdb_write_register(target, env, n).parts # <<>>

\* A debugger that reads all registers, lets the guest run (to call a
\* function in it) and writes them back finds every register it can write as
\* it was: the offsets 'G' computes from the sizes of the write functions are
\* those 'g' produced, and a bank or a width of floating point that changed is
\* restored before what depends on it.  On ARM, PowerPC and SPARC it is
\* restored after it: there the registers of the bank are as they were only
\* when the guest is back in it.
GRestores ==
    last.op = "G" =>
        \A n \in CoreRegs :
            Writable(n) /\ (n \in BankedBefore(target) => last.v = Bank(target, env))
                => Reads(n) = saved.vals[n]

\* 'G' never takes bytes for a register that were read from another one, or
\* that lie behind the end of the packet (what is left of an earlier one).
GStaysInThePacket ==
    \A f \in DOMAIN env : env[f] # Garbage

\* A register set with 'P' is read back with 'p' with that value, but for
\* the bit a write masks off.
PReadsBack ==
    last.op = "P" /\ Writable(last.n) =>
        \A i \in DOMAIN Reads(last.n) : Reads(last.n)[i] \in {last.v, Even(last.v)}
=============================================================================
