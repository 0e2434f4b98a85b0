------------------------------ MODULE Decoder ------------------------------
(***************************************************************************)
(* simple_disas_insn of decode.c: from the bytes at a guest address to the *)
(* length of the instruction, its prefixes, its operand sizes and the      *)
(* routine that will emit its translation.  The translator copies or       *)
(* replaces exactly the bytes the decoder counts, so a wrong length puts   *)
(* every later instruction of the block out of step.                       *)
(*                                                                         *)
(* code is the sequence of bytes at the guest address.  The result is the  *)
(* decode_t the routine fills in:                                          *)
(*   ok        what it returns                                             *)
(*   len       decode_eip - pc                                             *)
(*   emitfn    the last entry's pointer, "0" where it is null              *)
(*   data32, addr32    the bits OPSTATE_DATA32 and OPSTATE_ADDR32          *)
(*   prefix    the last prefix of each of the four groups, 0 for none      *)
(*   dispBytes, displacement (kept for one byte displacements only)        *)
(* IS_IFAULT is constant 0 outside SUPERVISOR_MODE, so the fetch fault     *)
(* exit is never taken.                                                    *)
(***************************************************************************)
EXTENDS Naturals, Sequences, FiniteSets, FiniteSetsExt

(***************************************************************************)
(* The opcode tables of decode-table.c.  An entry keeps the attribute bits *)
(* that simple_disas_insn tests and the pointer it follows or returns: the *)
(* next table of an escape byte, a group or an x87 opcode, or the routine  *)
(* that emits the translation.  Mnemonics, operand descriptions and the    *)
(* attribute bits nothing reads (DF_BINARY, DF_ADDRSZ_PREFIX ...) are left *)
(* out.  DF_Ib and DF_Jb are one bit in decode.h, and so are one name.     *)
(***************************************************************************)

\* The entries, named after the operands they announce.
Entry(attr, ptr) == [attr |-> attr, ptr |-> ptr]
Normal(attr) == Entry(attr, "emit_normal")
Nrm  == Normal({})
Ib   == Normal({"Ib"})
Iv   == Normal({"Iv"})
Iw   == Normal({"Iw"})
IwIb == Normal({"Iw", "Ib"})
Ap   == Normal({"Ap"})
Ofs  == Normal({"Ov"})
Mrm  == Normal({"MODRM"})
MIb  == Normal({"MODRM", "Ib"})
MIv  == Normal({"MODRM", "Iv"})

\* Entries that have an emitter of their own.
JcB  == Entry({"Ib"}, "emit_jcond")
JcV  == Entry({"Jv"}, "emit_jcond")
JmB  == Entry({"Ib"}, "emit_jmp")
JmV  == Entry({"Jv"}, "emit_jmp")
Loop == Entry({"Ib"}, "emit_other_jcond")
Cal  == Entry({"Jv"}, "emit_call_disp")
Ret  == Entry({}, "emit_ret")
RtW  == Entry({"Iw"}, "emit_ret_Iw")
CaI  == Entry({"MODRM"}, "emit_call_near_mem")
JmI  == Entry({"MODRM"}, "emit_jmp_near_mem")
IntN == Entry({"Ib"}, "emit_int")
Sys  == Entry({}, "emit_sysenter")

\* Entries that emit nothing: prefixes, undefined opcodes (ud2 is marked
\* undefined and yet has an emitter), and references to a further table.
pfx == Entry({"PREFIX"}, "0")
und == Entry({"UNDEFINED"}, "0")
ud2 == Entry({"UNDEFINED"}, "emit_normal")
Two == Entry({"TABLE"}, "twoByteOpcodes")
Grp(table) == Entry({"GROUP"}, table)
Flt(table) == Entry({"FLOAT"}, table)
Lev(table) == Entry({"ONE_MORE_LEVEL"}, table)

Row(e)   == [i \in 1..16 |-> e]
Eight(e) == [i \in 1..8 |-> e]

\* One byte opcodes 00 to 7f.
nopbyte0_00 ==
  << Mrm, Mrm, Mrm, Mrm, Ib, Iv, Nrm, Nrm,
     Mrm, Mrm, Mrm, Mrm, Ib, Iv, Nrm, Two >>
  \o << Mrm, Mrm, Mrm, Mrm, Ib, Iv, Nrm, Nrm,
        Mrm, Mrm, Mrm, Mrm, Ib, Iv, Nrm, Nrm >>
  \o << Mrm, Mrm, Mrm, Mrm, Ib, Iv, pfx, Nrm,
        Mrm, Mrm, Mrm, Mrm, Ib, Iv, pfx, Nrm >>
  \o << Mrm, Mrm, Mrm, Mrm, Ib, Iv, pfx, Nrm,
        Mrm, Mrm, Mrm, Mrm, Ib, Iv, pfx, Nrm >>
  \o Row(Nrm)
  \o Row(Nrm)
  \o << Nrm, Nrm, Mrm, Mrm, pfx, pfx, pfx, pfx,
        Iv, MIv, Ib, MIb, Nrm, Nrm, Nrm, Nrm >>
  \o Row(JcB)

\* One byte opcodes 80 to ff.
nopbyte0_80 ==
  << Grp("group1_Eb_Ib"), Grp("group1_Ev_Iv"), Grp("group1_Eb_Ib"),
     Grp("group1_Ev_Ib"), Mrm, Mrm, Mrm, Mrm, Mrm, Mrm, Mrm, Mrm, Mrm, Mrm,
     Mrm, Mrm >>
  \o << Nrm, Nrm, Nrm, Nrm, Nrm, Nrm, Nrm, Nrm,
        Nrm, Nrm, Ap, Nrm, Nrm, Nrm, Nrm, Nrm >>
  \o << Ofs, Ofs, Ofs, Ofs, Nrm, Nrm, Nrm, Nrm,
        Ib, Iv, Nrm, Nrm, Nrm, Nrm, Nrm, Nrm >>
  \o << Ib, Ib, Ib, Ib, Ib, Ib, Ib, Ib,
        Iv, Iv, Iv, Iv, Iv, Iv, Iv, Iv >>
  \o << Grp("group2a_Eb_Ib"), Grp("group2a_Ev_Ib"), RtW, Ret, Mrm, Mrm, MIb,
        MIv, IwIb, Nrm, Iw, Nrm, Nrm, IntN, Nrm, Nrm >>
  \o << Grp("group2_Eb_1"), Grp("group2_Ev_1"), Grp("group2_Eb_CL"),
        Grp("group2_Ev_CL"), Ib, Ib, und, Nrm, Flt("float_d8"),
        Flt("float_d9"), Flt("float_da"), Flt("float_db"), Flt("float_dc"),
        Flt("float_dd"), Flt("float_de"), Flt("float_df") >>
  \o << Loop, Loop, Loop, Loop, Ib, Ib, Ib, Ib,
        Cal, JmV, Ap, JmB, Nrm, Nrm, Nrm, Nrm >>
  \o << pfx, und, pfx, pfx, Nrm, Nrm, Grp("group3b"), Grp("group3v"), Nrm,
        Nrm, Nrm, Nrm, Nrm, Nrm, Grp("ngroup4"), Grp("ngroup5") >>

\* Opcodes 0f 00 to 0f 7f.
twoByteOpcodes_00 ==
  << Grp("ngroup6"), Grp("ngroup7"), Mrm, Mrm, und, und, Nrm, und, Nrm, Nrm,
     und, ud2, und, und, und, und >>
  \o << Mrm, Mrm, Mrm, Mrm, Mrm, Mrm, Mrm, Mrm,
        Mrm, und, und, und, und, und, und, und >>
  \o << Mrm, Mrm, Mrm, Mrm, Mrm, und, Mrm, und,
        Mrm, Mrm, Mrm, Mrm, Mrm, Mrm, Mrm, Mrm >>
  \o << Nrm, Nrm, Nrm, Nrm, Sys, Nrm, und, und,
        und, und, und, und, Mrm, und, und, und >>
  \o Row(Mrm)
  \o Row(Mrm)
  \o Row(Mrm)
  \o << MIb, MIb, MIb, MIb, Mrm, Mrm, Mrm, Nrm,
        und, und, und, und, und, und, Mrm, Mrm >>

\* Opcodes 0f 80 to 0f ff.
twoByteOpcodes_80 ==
  Row(JcV)
  \o Row(Mrm)
  \o << Nrm, Nrm, Nrm, Mrm, MIb, Mrm, und, und,
        Nrm, Nrm, Nrm, Mrm, MIb, Mrm, Mrm, Mrm >>
  \o << Mrm, Mrm, Mrm, Mrm, Mrm, Mrm, Mrm, Mrm, und, und, Grp("group8_Ev_Ib"),
        Mrm, Mrm, Mrm, Mrm, Mrm >>
  \o << Mrm, Mrm, MIb, Mrm, MIb, MIb, MIb, Grp("ngroup9"), Nrm, Nrm, Nrm, Nrm,
        Nrm, Nrm, Nrm, Nrm >>
  \o << und, Mrm, Mrm, Mrm, Mrm, Mrm, Mrm, Mrm,
        Mrm, Mrm, Mrm, Mrm, Mrm, Mrm, Mrm, Mrm >>
  \o Row(Mrm)
  \o << und, Mrm, Mrm, Mrm, Mrm, Mrm, Mrm, Mrm,
        Mrm, Mrm, Mrm, Mrm, Mrm, Mrm, Mrm, und >>

group1_Eb_Ib == Eight(MIb)

group1_Ev_Iv == Eight(MIv)

group1_Ev_Ib == Eight(MIb)

group2a_Eb_Ib == << MIb, MIb, MIb, MIb, MIb, MIb, und, MIb >>

group2a_Ev_Ib == << MIb, MIb, MIb, MIb, MIb, MIb, und, MIb >>

group2_Eb_1 == << Mrm, Mrm, Mrm, Mrm, Mrm, Mrm, und, Mrm >>

group2_Ev_1 == << Mrm, Mrm, Mrm, Mrm, Mrm, Mrm, und, Mrm >>

group2_Eb_CL == << Mrm, Mrm, Mrm, Mrm, Mrm, Mrm, und, Mrm >>

group2_Ev_CL == << Mrm, Mrm, Mrm, Mrm, Mrm, Mrm, und, Mrm >>

group3b == << MIb, und, Mrm, Mrm, Mrm, Mrm, Mrm, Mrm >>

group3v == << MIv, und, Mrm, Mrm, Mrm, Mrm, Mrm, Mrm >>

ngroup4 == << Mrm, Mrm, und, und, und, und, und, und >>

\* Mutant: the indirect near jump is an ordinary instruction.
ngroup5_copied == << Mrm, Mrm, CaI, Mrm, Mrm, Mrm, Mrm, und >>

ngroup5 == << Mrm, Mrm, CaI, Mrm, JmI, Mrm, Mrm, und >>

ngroup6 == << Mrm, Mrm, Mrm, Mrm, Mrm, Mrm, und, und >>

ngroup7 == << Mrm, Mrm, Mrm, Mrm, Mrm, und, Mrm, Mrm >>

group8_Ev_Ib == << und, und, und, und, MIb, MIb, MIb, MIb >>

ngroup9 == << und, Mrm, und, und, und, und, und, und >>

float_d8 ==
  Eight(Mrm)
  \o Eight(Nrm)

float_d9 ==
  << Mrm, und, Mrm, Mrm, Mrm, Mrm, Mrm, Mrm >>
  \o << Nrm, Nrm, Lev("float_d9_2"), und,
        Lev("float_d9_4"), Lev("float_d9_5"), Lev("float_d9_6"), Lev("float_d9_7") >>

float_d9_2 == << Nrm, und, und, und, und, und, und, und >>

float_d9_4 == << Nrm, Nrm, und, und, Nrm, Nrm, und, und >>

float_d9_5 == << Nrm, Nrm, Nrm, Nrm, Nrm, Nrm, Nrm, und >>

float_d9_6 == Eight(Nrm)

float_d9_7 == Eight(Nrm)

float_da ==
  Eight(Mrm)
  \o << Nrm, Nrm, Nrm, Nrm, und, Lev("float_da_5"), und, und >>

float_da_5 == << und, Nrm, und, und, und, und, und, und >>

float_db ==
  << Mrm, und, Mrm, Mrm, und, Mrm, und, Mrm >>
  \o << Nrm, Nrm, Nrm, Nrm, Lev("float_db_4"), Nrm, Nrm, und >>

float_db_4 == << und, und, Nrm, Nrm, und, und, und, und >>

float_dc ==
  Eight(Mrm)
  \o << Nrm, Nrm, und, und, Nrm, Nrm, Nrm, Nrm >>

float_dd ==
  << Mrm, und, Mrm, Mrm, Mrm, und, Mrm, Mrm >>
  \o << Nrm, und, Nrm, Nrm, Nrm, Nrm, und, und >>

float_de ==
  Eight(Mrm)
  \o << Nrm, Nrm, und, Lev("float_de_3"), Nrm, Nrm, Nrm, Nrm >>

float_de_3 == << und, Nrm, und, und, und, und, und, und >>

float_df ==
  << Mrm, und, Mrm, Mrm, Mrm, Mrm, Mrm, Mrm >>
  \o << und, und, und, und, Lev("float_df_4"), Nrm, Nrm, und >>

float_df_4 == << Nrm, und, und, und, und, und, und, und >>

\* The table an entry's pointer leads to.
Table(name) ==
  CASE name = "group1_Eb_Ib"  -> group1_Eb_Ib
    [] name = "group1_Ev_Iv"  -> group1_Ev_Iv
    [] name = "group1_Ev_Ib"  -> group1_Ev_Ib
    [] name = "group2a_Eb_Ib" -> group2a_Eb_Ib
    [] name = "group2a_Ev_Ib" -> group2a_Ev_Ib
    [] name = "group2_Eb_1"   -> group2_Eb_1
    [] name = "group2_Ev_1"   -> group2_Ev_1
    [] name = "group2_Eb_CL"  -> group2_Eb_CL
    [] name = "group2_Ev_CL"  -> group2_Ev_CL
    [] name = "group3b"       -> group3b
    [] name = "group3v"       -> group3v
    [] name = "ngroup4"       -> ngroup4
    [] name = "ngroup5"       -> ngroup5
    [] name = "ngroup6"       -> ngroup6
    [] name = "ngroup7"       -> ngroup7
    [] name = "group8_Ev_Ib"  -> group8_Ev_Ib
    [] name = "ngroup9"       -> ngroup9
    [] name = "float_d8"      -> float_d8
    [] name = "float_d9"      -> float_d9
    [] name = "float_d9_2"    -> float_d9_2
    [] name = "float_d9_4"    -> float_d9_4
    [] name = "float_d9_5"    -> float_d9_5
    [] name = "float_d9_6"    -> float_d9_6
    [] name = "float_d9_7"    -> float_d9_7
    [] name = "float_da"      -> float_da
    [] name = "float_da_5"    -> float_da_5
    [] name = "float_db"      -> float_db
    [] name = "float_db_4"    -> float_db_4
    [] name = "float_dc"      -> float_dc
    [] name = "float_dd"      -> float_dd
    [] name = "float_de"      -> float_de
    [] name = "float_de_3"    -> float_de_3
    [] name = "float_df"      -> float_df
    [] name = "float_df_4"    -> float_df_4

nopbyte0 == nopbyte0_00 \o nopbyte0_80
twoByteOpcodes == twoByteOpcodes_00 \o twoByteOpcodes_80

-----------------------------------------------------------------------------

Lock == {\hF0, \hF2, \hF3}
Segs == {\h26, \h2E, \h36, \h3E, \h64, \h65}
OPSZ == \h66
ADDRSZ == \h67

\* A modrm byte's fields.
Mod(byte) == byte \div 64
Reg(byte) == (byte \div 8) % 8
Rm(byte)  == byte % 8

\* The number of bytes the prefix loop consumes.
Prefixes(code) ==
  Min({i \in 1..Len(code) : "PREFIX" \notin nopbyte0[code[i] + 1].attr}) - 1

\* The last of the n prefix bytes that is in group, 0 for none.
LastOf(code, n, group) ==
  LET at == {i \in 1..n : code[i] \in group}
  IN  IF at = {} THEN 0 ELSE code[Max(at)]

\* Whether a mode bit differs from its default: every occurrence toggles it.
Toggled(code, n, byte) == Cardinality({i \in 1..n : code[i] = byte}) % 2 = 1

\* The entry of an x87 opcode: the memory forms are the first eight entries,
\* the register forms the last eight, some of which select by rm as well.
FloatEntry(table, modrm) ==
  LET reg == Table(table)[Reg(modrm) + 9]
  IN  IF Mod(modrm) # 3 THEN Table(table)[Reg(modrm) + 1]
      ELSE IF "ONE_MORE_LEVEL" \in reg.attr THEN Table(reg.ptr)[Rm(modrm) + 1]
      ELSE reg

\* The last entry located, with the attributes accumulated on the way to it.
Located(first, modrm) ==
  CASE "FLOAT" \in first.attr -> FloatEntry(first.ptr, modrm)
    [] "GROUP" \in first.attr ->
         LET entry == Table(first.ptr)[Reg(modrm) + 1]
         IN  [entry EXCEPT !.attr = @ \cup {"GROUP"}]
    [] OTHER -> first

NeedSib(addr32, modrm) == addr32 /\ Mod(modrm) # 3 /\ Rm(modrm) = 4

\* The displacement that follows a modrm byte and its sib byte.
DispBytes(addr32, modrm, sib) ==
  LET wide == IF addr32 THEN 4 ELSE 2
      absolute == IF addr32
                  THEN Rm(modrm) = 5 \/ (NeedSib(addr32, modrm) /\ sib % 8 = 5)
                  ELSE Rm(modrm) = 6
  IN  CASE Mod(modrm) = 0 -> IF absolute THEN wide ELSE 0
        [] Mod(modrm) = 1 -> 1
        [] Mod(modrm) = 2 -> wide
        [] OTHER -> 0

\* The immediates and offsets, each with its own size rule.
ImmBytes(attr, data32, addr32) ==
  LET operand == IF data32 THEN 4 ELSE 2
      address == IF addr32 THEN 4 ELSE 2
  IN  (IF "Iw" \in attr THEN 2 ELSE 0)
      + (IF "Ib" \in attr THEN 1 ELSE 0)
      + (IF "Iv" \in attr THEN operand ELSE 0)
      + (IF "Ov" \in attr THEN address ELSE 0)
      + (IF attr \cap {"Jv", "Ap"} # {} THEN operand ELSE 0)
      + (IF "Ap" \in attr THEN 2 ELSE 0)

simple_disas_insn(code) ==
  LET n      == Prefixes(code)
      data32 == ~Toggled(code, n, OPSZ)
      addr32 == ~Toggled(code, n, ADDRSZ)
      byte0  == nopbyte0[code[n + 1] + 1]
      two    == "TABLE" \in byte0.attr
      opc    == IF two THEN n + 2 ELSE n + 1
      first  == IF two THEN twoByteOpcodes[code[opc] + 1] ELSE byte0
      modrm  == code[opc + 1]
      entry  == Located(first, modrm)
      \* DF_MODRM or DF_GROUP, or the escape that has eaten the byte already.
      operand == entry.attr \cap {"MODRM", "GROUP"} # {}
      fetched == operand \/ "FLOAT" \in first.attr
      sib    == operand /\ NeedSib(addr32, modrm)
      disp   == IF operand THEN DispBytes(addr32, modrm, code[opc + 2]) ELSE 0
      atDisp == opc + (IF fetched THEN 1 ELSE 0) + (IF sib THEN 1 ELSE 0)
  IN  [ok |-> "UNDEFINED" \notin entry.attr /\ entry.ptr # "0",
       len |-> atDisp + disp + ImmBytes(entry.attr, data32, addr32),
       emitfn |-> entry.ptr, data32 |-> data32, addr32 |-> addr32,
       prefix |-> [lock |-> LastOf(code, n, Lock), seg |-> LastOf(code, n, Segs),
                   opsz |-> LastOf(code, n, {OPSZ}),
                   addrsz |-> LastOf(code, n, {ADDRSZ})],
       dispBytes |-> disp,
       displacement |-> IF disp = 1 THEN code[atDisp + 1] ELSE 0]

\* The masks of decode.h, as the sets of their bits: the two 16 bit ones are
\* the number 0 and have none.
OPSTATE_ADDR16 == {}

\* The opstate bits of a decoded instruction.
Opstate(ds) == (IF ds.addr32 THEN {"ADDR32"} ELSE {})
               \cup (IF ds.data32 THEN {"DATA32"} ELSE {})

\* The translator's assertion against 16 bit addressing.
Addr16Abort(ds) == Opstate(ds) \cap OPSTATE_ADDR16 # {}
=============================================================================
