------------------------------- MODULE MCCode -------------------------------
(***************************************************************************)
(* Guest code, model checked: the store of its blocks, alone (TBCache) and     *)
(* with the memory they are translated from (CodeLife), the translator's        *)
(* decoder against the disassembler that prints the same code (Decoder,         *)
(* Disas), the profile of indirect branches, per branch and per path            *)
(* (IndProf), and retranslation (Retrans).  An initial state chooses what       *)
(* runs; the other variables stay as they are.                                 *)
(***************************************************************************)
EXTENDS CodeLife, Integers

VARIABLES
  runs,                                                \* what runs
  prefixes, opcode, modrm, sib, fill, dec, dis,        \* an instruction, and what the two make of it
  stat_nodes, stat_node_count, f_idx, b_idx, path_stack, path_stack_index,
  mode, trail, taken, report,                          \* of Flat and Paths
  room, r_tbs, retrans_pcs, ind_tb, paths, nodes, r_status   \* of Copies

dvars == <<prefixes, opcode, modrm, sib, fill, dec, dis>>
pvars == <<stat_nodes, stat_node_count, f_idx, b_idx, path_stack, path_stack_index,
           mode, trail, taken, report>>
rvars == <<room, r_tbs, retrans_pcs, ind_tb, paths, nodes, r_status>>
allvars == <<runs, lifevars, dvars, pvars, rvars>>

-----------------------------------------------------------------------------
(* Two independent tables of one instruction set: an initial state picks        *)
(* prefixes, an opcode, a modrm byte, a sib byte and the value of the bytes      *)
(* behind them; the only step decodes.                                         *)

D == INSTANCE Decoder
X == INSTANCE Disas

\* The prefix bytes are no opcodes, and 9b (FWAIT) is read as a prefix by the
\* disassembler.
PlainOpcodes == (0 .. 255) \ {\h0F, \h26, \h2E, \h36, \h3E, \h64, \h65, \h66, \h67, \h9B, \hF0, \hF2, \hF3}
Opcodes == {<<b>> : b \in PlainOpcodes} \cup {<<\h0F, b>> : b \in 0 .. 255}
ThreeByteOpcodes == {<<\h0F, e, b>> : e \in {\h38, \h3A}, b \in 0 .. 255}

\* Every mod and reg, and the rm values that address differently: with a sib byte
\* or, in 16 bits, without; and without a base.
KeyModrms(rms) == {64 * mod + 8 * reg + rm : mod \in 0 .. 3, reg \in 0 .. 7, rm \in rms}
NoBase(p) == IF \E i \in DOMAIN p : p[i] = \h67 THEN 6 ELSE 5

NotYet == [ok |-> FALSE, len |-> 0]

NoInstruction == prefixes = <<>> /\ opcode = <<\h90>> /\ modrm = 0 /\ sib = 0 /\ fill = 0

\* 3DNow! has its opcode behind the operands, where 158 is one and 0 is none.
Draw ==
  \/ /\ prefixes = <<>> /\ opcode \in Opcodes /\ modrm \in 0 .. 255 /\ fill = 0
     /\ sib \in IF modrm % 8 = 4 THEN {0, 5} ELSE {0}
  \/ /\ prefixes \in {<<\h66>>, <<\h67>>, <<\hF2>>, <<\hF3>>, <<\h66, \h67>>, <<\h2E, \hF0>>, <<\hF3, \h66>>}
     /\ opcode \in Opcodes /\ modrm \in KeyModrms({4, NoBase(prefixes)}) /\ sib = 5 /\ fill = 0
  \/ /\ prefixes \in {<<>>, <<\h66>>, <<\hF2>>, <<\hF3>>}
     /\ opcode \in ThreeByteOpcodes \cup {<<\h0F, \h0F>>}
     /\ modrm \in {m \in KeyModrms({0, 4, 5, 6}) : m % 64 < 16} /\ sib = 0 /\ fill = 158

Insn == prefixes \o opcode \o <<modrm, sib>> \o [j \in 1 .. 12 |-> fill]

Decode ==
  /\ dec = NotYet
  /\ dec' = D!simple_disas_insn(Insn)
  /\ dis' = X!print_insn(Insn)
  /\ UNCHANGED <<prefixes, opcode, modrm, sib, fill>>

-----------------------------------------------------------------------------
(* The block store, alone and with the guest memory its blocks come from: four  *)
(* guest pcs in two pages; the odd ones share a bucket, as do the even ones; 1   *)
(* and 2 share a line of the lookup cache, as do 3 and 4.                      *)

MCPhysHash == [pc \in 1 .. 4 |-> pc % 2]
MCJmpCacheHash == [pc \in 1 .. 4 |-> (pc - 1) \div 2]
MCPageOf == [pc \in 1 .. 4 |-> IF pc <= 2 THEN "main" ELSE "lib"]
MCFalls == [pc \in 1 .. 4 |-> IF pc < 4 THEN pc + 1 ELSE 0]

-----------------------------------------------------------------------------
(* Two branches and two blocks.  Without paths a branch may have more targets   *)
(* than a node has cells; with paths the two ends of the nodes meet and the     *)
(* ring of blocks wraps.                                                      *)

Flat == INSTANCE IndProf WITH
  PROF_PATH <- FALSE, Srcs <- {1, 2}, Tgts <- 1 .. 4, TBs <- {1, 2}, PATH_DEPTH <- 3,
  PATH_STACK_SIZE <- 4, STAT_NODE_MAX <- 3, STAT_TGT_MAX <- 3, IND_SLOT_MAX <- 3,
  IND_THRESHOLD <- 1, DetailShift <- 1, Garbage <- {0, 3}, MaxPushes <- 0, MaxBranches <- 5
Paths == INSTANCE IndProf WITH
  PROF_PATH <- TRUE, Srcs <- {1, 2}, Tgts <- {1}, TBs <- {1, 2}, PATH_DEPTH <- 3,
  PATH_STACK_SIZE <- 4, STAT_NODE_MAX <- 4, STAT_TGT_MAX <- 3, IND_SLOT_MAX <- 2,
  IND_THRESHOLD <- 1, DetailShift <- 1, Garbage <- {0}, MaxPushes <- 5, MaxBranches <- 4

-----------------------------------------------------------------------------
(* Block 1 branches to 3 or runs on to 2, which jumps to 3; 3 branches to 5 or  *)
(* runs on into 4; 4 and 5 end in indirect branches to 1, 2 or 3.              *)

Copies == INSTANCE Retrans WITH
  Succ <- <<<<3>>, <<3>>, <<5>>, <<>>, <<>>>>, Fall <- <<2, 0, 4, 0, 0>>,
  Indirect <- {4, 5}, IndTargets <- {1, 2, 3}, EntryPC <- 1,
  PATH_DEPTH <- 3, TB_FROM_MAX <- 4, LEAF_MAX <- 3, RETRANS_STACK_MAX <- 64, Rooms <- {1, 5}, MaxBlocks <- 12,
  tbs <- r_tbs, status <- r_status

ASSUME CodeAssumption == Copies!RetransAssumption

-----------------------------------------------------------------------------

MCInit ==
  /\ dec = NotYet /\ dis = NotYet
  /\ Copies!Init /\ LifeInit
  /\ \/ runs = "Decode" /\ Draw /\ Flat!Init
     \/ runs \in {"Store", "Life", "Flat", "Copies"} /\ NoInstruction /\ Flat!Init
     \/ runs = "Paths" /\ NoInstruction /\ Paths!Init
  /\ runs = "Copies" \/ room = [gen |-> 5, regen |-> 5]

MCNext ==
  /\ UNCHANGED runs
  /\ \/ runs = "Store" /\ Next /\ UNCHANGED <<mem, made_from, ahead, dvars, pvars, rvars>>
     \/ runs = "Decode" /\ Decode /\ UNCHANGED <<lifevars, pvars, rvars>>
     \/ runs = "Life" /\ LifeNext /\ UNCHANGED <<dvars, pvars, rvars>>
     \/ runs = "Flat" /\ Flat!Next /\ UNCHANGED <<lifevars, dvars, rvars>>
     \/ runs = "Paths" /\ Paths!Next /\ UNCHANGED <<lifevars, dvars, rvars>>
     \/ runs = "Copies" /\ Copies!Next /\ UNCHANGED <<lifevars, dvars, pvars>>

MCSpec == MCInit /\ [][MCNext]_allvars

\* Only the store and the guest's memory.
LifeOnly == runs = "Life" /\ MCInit /\ [][MCNext]_allvars

\* An instruction both know has one length: the decoder's count is what the
\* translator copies and where it goes on (cgc->insn_len, decode.c).
LengthsAgree == dec.ok /\ dis.ok => dec.len = dis.len

Emitter ==
  [jcond |-> "emit_jcond", loop |-> "emit_other_jcond", jmp |-> "emit_jmp",
   call |-> "emit_call_disp", call_ind |-> "emit_call_near_mem",
   jmp_ind |-> "emit_jmp_near_mem", ret |-> "emit_ret", ret_Iw |-> "emit_ret_Iw"]

\* Every near transfer, in every encoding, is accepted and goes to the emitter of
\* its kind: one copied as a normal instruction would leave the code cache.
\* Nothing else is translated as a transfer.
TransfersTranslated ==
  IF dis.xfer # "none" THEN dec.ok /\ dec.emitfn = Emitter[dis.xfer]
  ELSE dis.ok => \A x \in DOMAIN Emitter : dec.emitfn # Emitter[x]

\* An instruction with a modrm byte steps over it exactly once, one without it
\* never, and no operand looks at it unless the tables had it fetched.
ModrmOnce == ~ dis.stale /\ dis.total /\ (dis.ok => dis.seen = IF dis.need THEN 1 ELSE 0)

\* The decoder and the disassembler agree on the length of every instruction and
\* on what is a control transfer.
DecodersAgree ==
  runs = "Decode" /\ dec # NotYet => LengthsAgree /\ TransfersTranslated /\ ModrmOnce

\* The profile counts each branch, on each path, and each of its targets as often as
\* it was taken, keeps the hot ones for prediction, and reports exactly the branches
\* above the share that it prints, with these counts; the two ends of the nodes never
\* overlap, and a branch with too many targets spoils only its own.
ProfileTellsTheTruth ==
  /\ runs = "Flat" => /\ Flat!TypeOK /\ Flat!OneNodePerPath /\ Flat!HitsTellTheTruth
                      /\ Flat!HotTargetsPredicted
                      /\ Flat!ReportComplete /\ Flat!MaxHitNotOverstated /\ Flat!PercentagesAddUp
  /\ runs = "Paths" => /\ Paths!TypeOK /\ Paths!OneNodePerPath /\ Paths!HitsTellTheTruth
                       /\ Paths!NodesReachable /\ Paths!ReportComplete

\* However often blocks are copied, jumps lead to code of the right pc, a lookup
\* has one block to find, and paths reach an indirect branch in their own copies.
CopiesAreSound ==
  /\ [](runs = "Copies" => Copies!OneVisibleBlock /\ Copies!LinksLeadToCode)
  /\ Copies!PathsReachOwnCopies
=============================================================================
