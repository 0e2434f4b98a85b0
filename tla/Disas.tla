------------------------------- MODULE Disas -------------------------------
(***************************************************************************)
(* print_insn of i386-dis.c in 32 bit mode, as far as it decides how many  *)
(* bytes an instruction has: the tables say which operand routines run and *)
(* each routine moves codep over the bytes it reads.  Text, 64 bit mode    *)
(* and the line a prefix gets when no routine has used it are left out, as *)
(* is FWAIT, which the disassembler reads as a prefix of an x87 opcode.    *)
(*                                                                         *)
(* The state of the operand loop is                                        *)
(*   p      codep, the number of bytes read so far                         *)
(*   bad    BadOp has run                                                  *)
(*   seen   how often a routine stepped over the modrm byte                *)
(*   stale  a routine looked at the modrm fields though need_modrm was     *)
(*          not set: MODRM_CHECK aborts, or an old value is used           *)
(***************************************************************************)
EXTENDS Naturals, Sequences, FiniteSets, SequencesExt

(***************************************************************************)
(* The opcode tables of i386-dis.c, in 32 bit mode.  An entry keeps its    *)
(* operand routines, in order, as far as they read bytes or look at the    *)
(* modrm byte:                                                             *)
(*   "g"        the reg field only (OP_G, OP_C, OP_MMX, OP_XMM ...)        *)
(*   "E"        the modrm operand (OP_E, OP_EM, OP_EX, OP_indirE ...)      *)
(*   "m", "r"   memory only (OP_M) and register only (OP_R, OP_MS, OP_XS)  *)
(*   "b", "w", "v"      immediates (OP_I, OP_sI, OP_I64, OP_J)             *)
(*   "dir", "off"       far addresses (OP_DIR) and offsets (OP_OFF)        *)
(*   the others  one routine each, the fixups of i386-dis.c               *)
(* Operands that read nothing (fixed registers, string operands, the       *)
(* constant 1) and the mnemonics are left out.  xfer tells which kind of   *)
(* near control transfer the mnemonic names.                               *)
(***************************************************************************)

Insn(ops, xfer) == [kind |-> "insn", ops |-> ops, xfer |-> xfer, to |-> 0]
Plain(ops) == Insn(ops, "none")
Ref(kind, to) == [kind |-> kind, ops |-> <<>>, xfer |-> "none", to |-> to]

xx    == Ref("bad", 0)
No    == Plain(<<>>)
GE    == Plain(<<"g", "E">>)
EG    == Plain(<<"E", "g">>)
EE    == Plain(<<"E">>)
GEIb  == Plain(<<"g", "E", "b">>)
EGIb  == Plain(<<"E", "g", "b">>)
GEIv  == Plain(<<"g", "E", "v">>)
EIb   == Plain(<<"E", "b">>)
EIv   == Plain(<<"E", "v">>)
GR    == Plain(<<"g", "r">>)
RG    == Plain(<<"r", "g">>)
GRIb  == Plain(<<"g", "r", "b">>)
RIb   == Plain(<<"r", "b">>)
RIb2  == Plain(<<"r", "b", "b">>)
GRIb2 == Plain(<<"g", "r", "b", "b">>)
GM    == Plain(<<"g", "m">>)
MM    == Plain(<<"m">>)
Ib    == Plain(<<"b">>)
Iv    == Plain(<<"v">>)
Iw    == Plain(<<"w">>)
IwIb  == Plain(<<"w", "b">>)
Dir   == Plain(<<"dir">>)
Ofs   == Plain(<<"off">>)
FaI   == Plain(<<"E">>)
GE3   == Plain(<<"g", "E", "3dnow">>)
GEs   == Plain(<<"g", "E", "simd">>)
Fae   == Plain(<<"0fae">>)
F07   == Plain(<<"0f07">>)
Vmx   == Plain(<<"vmx">>)
Pni   == Plain(<<"pni">>)
Svm   == Plain(<<"svme">>)
Inv   == Plain(<<"invlpg">>)

\* Near transfers: the flag operands, or the mnemonic, tell them apart.
JcB  == Insn(<<"b">>, "jcond")
JcV  == Insn(<<"v">>, "jcond")
Loop == Insn(<<"b">>, "loop")
JmB  == Insn(<<"b">>, "jmp")
JmV  == Insn(<<"v">>, "jmp")
Cal  == Insn(<<"v">>, "call")
CaI  == Insn(<<"E">>, "call_ind")
JmI  == Insn(<<"E">>, "jmp_ind")
Ret  == Insn(<<>>, "ret")
RtW  == Insn(<<"w">>, "ret_Iw")

\* References: FLOAT, GRPn, PREGRPn, X86_64_n and THREE_BYTE_n.
FL    == Ref("float", 0)
Gr(n) == Ref("grp", n)
Pr(n) == Ref("prefix", n)
X6(n) == Ref("x86_64", n)
Th(n) == Ref("three", n)

Bad(n)   == [i \in 1..n |-> xx]
Row(e)   == [i \in 1..16 |-> e]
Eight(e) == [i \in 1..8 |-> e]
All(e)   == <<e, e, e, e>>
P66(e)   == <<xx, xx, e, xx>>

\* One byte opcodes.
dis386_00 ==
  << EG, EG, GE, GE, Ib, Iv, No, No, EG, EG, GE, GE, Ib, Iv, No, xx >>
  \o << EG, EG, GE, GE, Ib, Iv, No, No, EG, EG, GE, GE, Ib, Iv, No, No >>
  \o << EG, EG, GE, GE, Ib, Iv, xx, No, EG, EG, GE, GE, Ib, Iv, xx, No >>
  \o << EG, EG, GE, GE, Ib, Iv, xx, No, EG, EG, GE, GE, Ib, Iv, xx, No >>
  \o Row(No)
  \o Row(No)
  \o << X6(0), X6(1), X6(2), X6(3), xx, xx, xx, xx, Iv, GEIv, Ib, GEIb, No,
        No, No, No >>
  \o Row(JcB)

dis386_80 ==
  << Gr(1), Gr(2), xx, Gr(3), EG, EG, EG, EG, EG, EG, GE, GE, EG, GM, GE,
     Gr(0) >>
  \o << Pr(38), No, No, No, No, No, No, No, No, No, Dir, xx, No, No, No, No >>
  \o << Ofs, Ofs, Ofs, Ofs, No, No, No, No, Ib, Iv, No, No, No, No, No, No >>
  \o << Ib, Ib, Ib, Ib, Ib, Ib, Ib, Ib, Iv, Iv, Iv, Iv, Iv, Iv, Iv, Iv >>
  \o << Gr(4), Gr(5), RtW, Ret, GM, GM, Gr(18), Gr(19), IwIb, No, Iw, No, No,
        Ib, No, No >>
  \o << Gr(6), Gr(7), Gr(8), Gr(9), Ib, Ib, xx, No, FL, FL, FL, FL, FL, FL,
        FL, FL >>
  \o << Loop, Loop, Loop, Loop, Ib, Ib, Ib, Ib, Cal, JmV, Dir, JmB, No, No,
        No, No >>
  \o << xx, No, xx, xx, No, No, Gr(10), Gr(11), No, No, No, No, No, No,
        Gr(12), Gr(13) >>

\* Opcodes 0f xx.
dis386_twobyte_00 ==
  << Gr(14), Gr(15), GE, GE, xx, No, No, No, No, No, xx, No, xx, Gr(25), No,
     GE3 >>
  \o << Pr(8), Pr(9), Pr(30), EG, GE, GE, Pr(31), EG, Gr(24), xx, xx, xx, xx,
        xx, xx, EE >>
  \o << RG, RG, GR, GR, RG, xx, GR, xx, GE, EG, Pr(2), Pr(33), Pr(4), Pr(3),
        Pr(93), Pr(94) >>
  \o << No, No, No, No, No, No, xx, xx, Th(0), xx, Th(1), xx, xx, xx, xx, xx >>
  \o Row(GE)
  \o << GR, Pr(13), Pr(12), Pr(11), GE, GE, GE, GE, Pr(0), Pr(10), Pr(17),
        Pr(16), Pr(14), Pr(7), Pr(5), Pr(6) >>
  \o << Pr(95), Pr(96), Pr(97), GE, GE, GE, GE, GE, GE, GE, GE, GE, Pr(26),
        Pr(24), GE, Pr(19) >>
  \o << Pr(22), Gr(20), Gr(21), Gr(22), GE, GE, GE, No, Pr(34), Pr(35), xx,
        xx, Pr(28), Pr(29), Pr(23), Pr(20) >>

dis386_twobyte_80 ==
  Row(JcV)
  \o Row(EE)
  \o << No, No, No, EG, EGIb, EG, Gr(27), Gr(26), No, No, No, EG, EGIb, EG,
        Gr(23), GE >>
  \o << EG, EG, GM, EG, GM, GM, GE, GE, Pr(37), No, Gr(16), EG, GE, Pr(36),
        GE, GE >>
  \o << EG, EG, Pr(1), EG, GEIb, GRIb, GEIb, Gr(17), No, No, No, No, No, No,
        No, No >>
  \o << Pr(27), GE, GE, GE, GE, GE, Pr(21), GR, GE, GE, GE, GE, GE, GE, GE, GE >>
  \o << GE, GE, GE, GE, GE, GE, Pr(15), Pr(25), GE, GE, GE, GE, GE, GE, GE, GE >>
  \o << Pr(32), GE, GE, GE, GE, GE, GE, Pr(18), GE, GE, GE, GE, GE, GE, GE, xx >>

\* The groups, by the reg field.
grps_0 ==
  << <<EE, xx, xx, xx, xx, xx, xx, xx>>, Eight(EIb), Eight(EIv), Eight(EIb),
     <<EIb, EIb, EIb, EIb, EIb, EIb, xx, EIb>>,
     <<EIb, EIb, EIb, EIb, EIb, EIb, xx, EIb>>,
     <<EE, EE, EE, EE, EE, EE, xx, EE>>, <<EE, EE, EE, EE, EE, EE, xx, EE>>,
     <<EE, EE, EE, EE, EE, EE, xx, EE>>, <<EE, EE, EE, EE, EE, EE, xx, EE>> >>

grps_10 ==
  << <<EIb, xx, EE, EE, EE, EE, EE, EE>>, <<EIv, xx, EE, EE, EE, EE, EE, EE>>,
     <<EE, EE, xx, xx, xx, xx, xx, xx>>,
     <<EE, EE, CaI, FaI, JmI, FaI, EE, xx>>,
     <<EE, EE, EE, EE, EE, EE, xx, xx>>,
     <<Vmx, Pni, MM, Svm, EE, xx, EE, Inv>>,
     <<xx, xx, xx, xx, EIb, EIb, EIb, EIb>>,
     <<xx, MM, xx, xx, xx, xx, EE, MM>>, <<EIb, xx, xx, xx, xx, xx, xx, xx>>,
     <<EIv, xx, xx, xx, xx, xx, xx, xx>> >>

grps_20 ==
  << <<xx, xx, RIb, xx, RIb, xx, RIb, xx>>,
     <<xx, xx, RIb, xx, RIb, xx, RIb, xx>>,
     <<xx, xx, RIb, RIb, xx, xx, RIb, RIb>>,
     <<EE, EE, EE, EE, xx, Fae, Fae, Fae>>, <<EE, EE, EE, EE, xx, xx, xx, xx>>,
     <<EE, EE, xx, xx, xx, xx, xx, xx>>,
     <<F07, F07, F07, F07, F07, F07, xx, xx>>,
     <<F07, F07, F07, xx, xx, xx, xx, xx>> >>

\* Entries selected by a prefix: none, f3, 66, f2.
prefix_user_table_0 ==
  << All(GE), All(GEs), All(GE), All(GE), All(GE), All(GE), All(GE), All(GE),
     All(GE), All(EG), All(GE), <<GE, GE, xx, xx>>, <<GE, GE, xx, xx>>,
     All(GE), All(GE), <<xx, GE, GE, GE>>, <<GE, GE, GE, xx>>, All(GE) >>

prefix_user_table_18 ==
  << <<GR, xx, GR, xx>>, <<GE, GE, GE, xx>>, <<EG, EG, EG, xx>>,
     <<xx, GR, EG, GR>>, All(GEIb), <<EG, GE, EG, xx>>, P66(GE),
     <<EG, xx, EG, xx>>, P66(GE), <<xx, xx, GE, GE>>, <<xx, xx, GE, GE>>,
     <<xx, xx, GE, GE>>, All(GE), <<GE, GE, GE, xx>>, <<xx, xx, xx, GM>>,
     All(EG), <<EG, xx, RIb2, GRIb2>>, <<GE, xx, GR, GR>> >>

prefix_user_table_36 ==
  << <<GE, GE, GE, xx>>, <<xx, GE, xx, xx>>, <<No, No, No, xx>>, P66(GE),
     P66(GE), P66(GE), P66(GE), P66(GE), P66(GE), P66(GE), P66(GE), P66(GE),
     P66(GE), P66(GE), P66(GE), P66(GE), P66(GE), P66(GE) >>

prefix_user_table_54 ==
  << P66(GE), P66(GE), P66(GE), P66(GE), P66(GE), P66(GE), P66(GE), P66(GE),
     P66(GE), P66(GE), P66(GE), P66(GE), P66(GE), P66(GE), P66(GE), P66(GEIb),
     P66(GEIb), P66(GEIb) >>

prefix_user_table_72 ==
  << P66(GEIb), P66(GEIb), P66(GEIb), P66(GEIb), P66(EGIb), P66(EGIb),
     P66(EGIb), P66(EGIb), P66(GEIb), P66(GEIb), P66(GEIb), P66(GEIb),
     P66(GEIb), P66(GEIb), P66(GE), <<xx, xx, xx, GE>>, <<xx, xx, xx, GE>>,
     P66(GEIb) >>

prefix_user_table_90 ==
  << P66(GEIb), P66(GEIb), P66(GEIb), <<GE, xx, GE, xx>>, <<GE, xx, GE, xx>>,
     <<GE, xx, GE, xx>>, <<GE, xx, GE, xx>>, <<GE, xx, GE, xx>> >>

\* 32 bit and 64 bit mode.
x86_64_table ==
  << <<No, xx>>, <<No, xx>>, <<GM, xx>>, <<EG, GE>> >>

\* Opcodes 0f 38 xx and 0f 3a xx.
three_byte_table_0f38_00 ==
  << GE, GE, GE, GE, GE, GE, GE, GE, GE, GE, GE, GE, xx, xx, xx, xx >>
  \o << Pr(39), xx, xx, xx, Pr(40), Pr(41), xx, Pr(42), xx, xx, xx, xx, GE,
        GE, GE, xx >>
  \o << Pr(43), Pr(44), Pr(45), Pr(46), Pr(47), Pr(48), xx, xx, Pr(49),
        Pr(50), Pr(51), Pr(52), xx, xx, xx, xx >>
  \o << Pr(53), Pr(54), Pr(55), Pr(56), Pr(57), Pr(58), xx, Pr(86), Pr(59),
        Pr(60), Pr(61), Pr(62), Pr(63), Pr(64), Pr(65), Pr(66) >>
  \o << Pr(67), Pr(68), xx, xx, xx, xx, xx, xx, xx, xx, xx, xx, xx, xx, xx, xx >>
  \o Bad(48)

three_byte_table_0f38_80 ==
  Bad(112)
  \o << Pr(87), Pr(88), xx, xx, xx, xx, xx, xx, xx, xx, xx, xx, xx, xx, xx, xx >>

three_byte_table_0f3a_00 ==
  << xx, xx, xx, xx, xx, xx, xx, xx, Pr(69), Pr(70), Pr(71), Pr(72), Pr(73),
     Pr(74), Pr(75), GEIb >>
  \o << xx, xx, xx, xx, Pr(76), Pr(77), Pr(78), Pr(79), xx, xx, xx, xx, xx,
        xx, xx, xx >>
  \o << Pr(80), Pr(81), Pr(82), xx, xx, xx, xx, xx, xx, xx, xx, xx, xx, xx,
        xx, xx >>
  \o Row(xx)
  \o << Pr(83), Pr(84), Pr(85), xx, xx, xx, xx, xx, xx, xx, xx, xx, xx, xx,
        xx, xx >>
  \o Row(xx)
  \o << Pr(89), Pr(90), Pr(91), Pr(92), xx, xx, xx, xx, xx, xx, xx, xx, xx,
        xx, xx, xx >>
  \o Row(xx)

three_byte_table_0f3a_80 ==
  Bad(128)

\* The 0/1 tables, as the sets of the bytes marked 1.
onebyte_has_modrm ==
  (\h00..\h03) \cup (\h08..\h0B) \cup (\h10..\h13) \cup (\h18..\h1B) \cup
  (\h20..\h23) \cup (\h28..\h2B) \cup (\h30..\h33) \cup (\h38..\h3B) \cup
  (\h80..\h8F) \cup (\hC4..\hC7) \cup (\hD0..\hD3) \cup (\hD8..\hDF) \cup
  {\h62, \h63, \h69, \h6B, \hC0, \hC1, \hF6, \hF7, \hFE, \hFF}

twobyte_has_modrm ==
  (\h00..\h03) \cup (\h0F..\h18) \cup (\h1F..\h24) \cup (\h28..\h2F) \cup
  (\h40..\h76) \cup (\h7C..\h7F) \cup (\h90..\h9F) \cup (\hA3..\hA7) \cup
  (\hAB..\hB8) \cup (\hBA..\hC7) \cup (\hD0..\hFE) \cup {\h0D, \h26, \h38,
  \h3A, \h78, \h79}

twobyte_uses_DATA_prefix ==
  (\h10..\h12) \cup (\h2A..\h2D) \cup (\h51..\h53) \cup (\h58..\h5F) \cup
  (\h7C..\h7F) \cup {\h16, \h38, \h3A, \h6D, \h6F, \h70, \h78, \h79, \hC2,
  \hD0, \hD6, \hE6, \hF0, \hF7}

threebyte_0x38_uses_DATA_prefix ==
  (\h00..\h0B) \cup (\h1C..\h1E) \cup (\h20..\h25) \cup (\h28..\h2B) \cup
  (\h30..\h35) \cup (\h37..\h41) \cup {\h10, \h14, \h15, \h17}

threebyte_0x3a_uses_DATA_prefix ==
  (\h08..\h0F) \cup (\h14..\h17) \cup (\h20..\h22) \cup (\h40..\h42) \cup
  (\h60..\h63)

dis386 == dis386_00 \o dis386_80
dis386_twobyte == dis386_twobyte_00 \o dis386_twobyte_80
grps == grps_0 \o grps_10 \o grps_20
prefix_user_table ==
  prefix_user_table_0 \o prefix_user_table_18 \o prefix_user_table_36
  \o prefix_user_table_54 \o prefix_user_table_72 \o prefix_user_table_90
three_byte_table ==
  << three_byte_table_0f38_00 \o three_byte_table_0f38_80,
     three_byte_table_0f3a_00 \o three_byte_table_0f3a_80 >>

\* The x87 memory forms that do not exist, as <<opcode, reg>>.
float_mem_bad == {<<\hD9, 1>>, <<\hDB, 4>>, <<\hDB, 6>>, <<\hDD, 5>>}

\* The x87 register forms: an operand st or st(i), bad, or a row of fgrps.
St == Plain(<<>>)
Fg(n) == Ref("fgrp", n)
float_reg ==
  << Eight(St),
     <<St, St, Fg(0), xx, Fg(1), Fg(2), Fg(3), Fg(4)>>,
     <<St, St, St, St, xx, Fg(5), xx, xx>>,
     <<St, St, St, St, Fg(6), St, St, xx>>,
     <<St, St, xx, xx, St, St, St, St>>,
     <<St, xx, St, St, St, St, xx, xx>>,
     <<St, St, xx, Fg(7), St, St, St, St>>,
     <<St, xx, xx, xx, Fg(8), St, St, xx>> >>

\* The rm values each row of fgrps has a mnemonic for.
fgrps == << {0}, {0, 1, 4, 5}, 0..6, 0..7, 0..7, {1}, 0..4, {1}, {0} >>

\* The 3DNow! suffixes that name an instruction.
Suffix3DNow ==
  {\h0C, \h0D, \h1C, \h1D, \h8A, \h8E, \h90, \h94, \h96, \h97, \h9A, \h9E,
   \hA0, \hA4, \hA6, \hA7, \hAA, \hAE, \hB0, \hB4, \hB6, \hB7, \hBB, \hBF}

-----------------------------------------------------------------------------

PrefixBytes == {\hF3, \hF2, \hF0, \h2E, \h36, \h3E, \h26, \h64, \h65, \h66, \h67}

\* ckprefix: the number of bytes it steps over.
ckprefix(code) == Min({i \in 1..Len(code) : code[i] \notin PrefixBytes}) - 1

HasPrefix(code, n, byte) == \E i \in 1..n : code[i] = byte

\* Whether an operand size prefix selects the opcode rather than a size.
UsesData(code, at) ==
  /\ code[at] = \h0F
  /\ CASE code[at + 1] = \h38 -> code[at + 2] \in threebyte_0x38_uses_DATA_prefix
       [] code[at + 1] = \h3A -> code[at + 2] \in threebyte_0x3a_uses_DATA_prefix
       [] OTHER -> code[at + 1] \in twobyte_uses_DATA_prefix

\* The entry of an opcode before groups and prefixes are looked up, and the
\* number of bytes up to it.
FirstEntry(code, at) ==
  LET two == dis386_twobyte[code[at + 1] + 1]
  IN  CASE code[at] # \h0F -> [dp |-> dis386[code[at] + 1], p |-> at,
                               need |-> code[at] \in onebyte_has_modrm]
        [] code[at] = \h0F /\ two.kind # "three" ->
             [dp |-> two, p |-> at + 1, need |-> code[at + 1] \in twobyte_has_modrm]
        [] OTHER -> [dp |-> three_byte_table[two.to + 1][code[at + 2] + 1],
                     p |-> at + 2, need |-> code[at + 1] \in twobyte_has_modrm]

\* The column of prefix_user_table.
PrefixColumn(code, n) ==
  CASE HasPrefix(code, n, \hF3) -> 2
    [] HasPrefix(code, n, \hF2) -> 4
    [] HasPrefix(code, n, \h66) -> 3
    [] OTHER -> 1

\* The entry whose operand routines run.
Resolve(dp, code, n, modrm) ==
  CASE dp.kind = "grp"    -> grps[dp.to + 1][((modrm \div 8) % 8) + 1]
    [] dp.kind = "prefix" -> prefix_user_table[dp.to + 1][PrefixColumn(code, n)]
    [] dp.kind = "x86_64" -> x86_64_table[dp.to + 1][1]
    [] OTHER -> dp

\* The bytes of displacement OP_E reads behind the modrm and sib bytes.
Displacement(modrm, sib, aflag) ==
  LET mod  == modrm \div 64
      rm   == modrm % 8
      base == IF aflag /\ rm = 4 THEN sib % 8 ELSE rm
  IN  CASE mod = 0 -> IF aflag THEN (IF base = 5 THEN 4 ELSE 0)
                      ELSE (IF rm = 6 THEN 2 ELSE 0)
        [] mod = 1 -> 1
        [] mod = 2 -> IF aflag THEN 4 ELSE 2
        [] OTHER -> 0

\* OP_E, and the routines that end in it.  m has the modrm byte, need_modrm
\* and the size flags; the sib byte is the one behind codep.
OP_E(s, code, m) ==
  LET mod == m.modrm \div 64
      sib == mod # 3 /\ m.aflag /\ m.modrm % 8 = 4
  IN  IF ~m.need THEN [s EXCEPT !.stale = TRUE]
      ELSE [s EXCEPT !.seen = @ + 1,
                     !.p = @ + 1 + (IF sib THEN 1 ELSE 0)
                           + Displacement(m.modrm, code[s.p + 2], m.aflag)]

\* BadOp: one byte is thrown away.
BadOp(s, m) == [s EXCEPT !.bad = TRUE, !.p = m.insn + 1]

Skip(s, n) == [s EXCEPT !.p = @ + n]

\* A fixup that steps over the modrm byte by itself.
SkipModrm(s) == [s EXCEPT !.p = @ + 1, !.seen = @ + 1]

OP_M(s, code, m) ==
  IF m.modrm \div 64 = 3 THEN BadOp(s, m) ELSE OP_E(s, code, m)

OP_R(s, code, m) ==
  IF m.modrm \div 64 = 3 THEN OP_E(s, code, m) ELSE BadOp(s, m)

OP_0f07(s, code, m) ==
  IF m.modrm \div 64 # 3 \/ m.modrm % 8 # 0 THEN BadOp(s, m) ELSE OP_E(s, code, m)

\* lfence, mfence and sfence, or clflush.
OP_0fae(s, code, m) ==
  LET mod == m.modrm \div 64
      reg == (m.modrm \div 8) % 8
  IN  IF IF mod = 3 THEN reg < 5 \/ m.modrm % 8 # 0 ELSE reg # 7
      THEN BadOp(s, m) ELSE OP_E(s, code, m)

OP_3DNowSuffix(s, code, m) ==
  IF code[s.p + 1] \in Suffix3DNow THEN Skip(s, 1) ELSE BadOp(s, m)

OP_SIMD_Suffix(s, code, m) ==
  IF code[s.p + 1] < 8 THEN Skip(s, 1) ELSE BadOp(s, m)

\* monitor and mwait, else sidt.
PNI_Fixup(s, code, m) ==
  IF m.modrm \in {\hC8, \hC9} THEN SkipModrm(s) ELSE OP_M(s, code, m)

\* vmrun .. invlpga, else lidt.
SVME_Fixup(s, code, m) ==
  IF code[s.p + 1] \in \hD8..\hDF THEN SkipModrm(s) ELSE OP_M(s, code, m)

\* swapgs and rdtscp, else invlpg.
INVLPG_Fixup(s, code, m) ==
  IF code[s.p + 1] \in {\hF8, \hF9} THEN SkipModrm(s) ELSE OP_M(s, code, m)

\* vmcall .. vmxoff, else sgdt.
VMX_Fixup(s, code, m) ==
  IF m.modrm \in \hC1..\hC4 THEN SkipModrm(s) ELSE OP_E(s, code, m)

\* OP_I, OP_sI, OP_I64 and OP_J.
OP_I(s, size, m) ==
  Skip(s, CASE size = "b" -> 1 [] size = "w" -> 2
            [] OTHER -> IF m.dflag THEN 4 ELSE 2)

OP_DIR(s, m) == Skip(s, IF m.dflag THEN 6 ELSE 4)

OP_OFF(s, m) == Skip(s, IF m.aflag THEN 4 ELSE 2)

\* One operand routine.
Operand(s, op, code, m) ==
  CASE op = "g" -> IF m.need THEN s ELSE [s EXCEPT !.stale = TRUE]
    [] op = "E" -> OP_E(s, code, m)
    [] op = "m" -> OP_M(s, code, m)
    [] op = "r" -> OP_R(s, code, m)
    [] op \in {"b", "w", "v"} -> OP_I(s, op, m)
    [] op = "dir" -> OP_DIR(s, m)
    [] op = "off" -> OP_OFF(s, m)
    [] op = "3dnow" -> OP_3DNowSuffix(s, code, m)
    [] op = "simd" -> OP_SIMD_Suffix(s, code, m)
    [] op = "0f07" -> OP_0f07(s, code, m)
    [] op = "0fae" -> OP_0fae(s, code, m)
    [] op = "pni" -> PNI_Fixup(s, code, m)
    [] op = "svme" -> SVME_Fixup(s, code, m)
    [] op = "invlpg" -> INVLPG_Fixup(s, code, m)
    [] op = "vmx" -> VMX_Fixup(s, code, m)

\* x87: the memory forms read their operand, the register forms one byte.
dofloat(s, code, m) ==
  LET opcode == code[s.p]
      reg == (m.modrm \div 8) % 8
      dp  == float_reg[opcode - \hD8 + 1][reg + 1]
  IN  IF m.modrm \div 64 # 3
      THEN [OP_E(s, code, m) EXCEPT !.bad = <<opcode, reg>> \in float_mem_bad]
      ELSE IF ~m.need THEN [s EXCEPT !.stale = TRUE]
      ELSE [SkipModrm(s) EXCEPT !.bad =
              CASE dp.kind = "bad"  -> TRUE
                [] dp.kind = "fgrp" -> m.modrm % 8 \notin fgrps[dp.to + 1]
                [] OTHER -> FALSE]

\* What print_insn makes of the bytes: total tells that the tables led to an
\* instruction rather than to another table.
print_insn(code) ==
  LET n     == ckprefix(code)
      first == FirstEntry(code, n + 1)
      modrm == code[first.p + 1]
      entry == Resolve(first.dp, code, n, modrm)
      m == [modrm |-> modrm, need |-> first.need, insn |-> n,
            aflag |-> ~HasPrefix(code, n, \h67),
            dflag |-> ~HasPrefix(code, n, \h66) \/ UsesData(code, n + 1)]
      start == [p |-> first.p, bad |-> entry.kind = "bad", seen |-> 0,
                stale |-> first.dp.kind = "grp" /\ ~first.need]
      end == IF entry.kind = "float" THEN dofloat(start, code, m)
             ELSE FoldLeft(LAMBDA s, op : Operand(s, op, code, m), start, entry.ops)
  IN  [ok |-> ~end.bad, len |-> end.p, need |-> first.need, seen |-> end.seen,
       stale |-> end.stale, xfer |-> entry.xfer,
       total |-> entry.kind \in {"insn", "bad", "float"}]
=============================================================================
