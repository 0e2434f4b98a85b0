------------------------------- MODULE Retrans -------------------------------
(***************************************************************************)
(* Retranslation of indirect branches (target-i386/retrans-ind.c, with      *)
(* RETRANS_IND): when the predictions of an indirect branch miss too often, *)
(* the paths that lead to its block are found through jmp_from, and each    *)
(* gets translations of its own, so that every copy of the branch learns    *)
(* its own targets.                                                        *)
(*                                                                         *)
(* A block's code is where its direct jumps and its fall-through lead: a    *)
(* block, or 0 for a stub that exits to the dispatch loop.  The store finds *)
(* a block by its pc and by tb_tag 0, which takes a block out of sight when *)
(* it is set to RETRANS_TB_TAG.                                            *)
(***************************************************************************)
EXTENDS Integers, Sequences, FiniteSets, SequencesExt

CONSTANTS
  Succ,            \* pc -> sequence of its direct jumps' targets
  Fall,            \* pc -> pc behind it, or 0
  Indirect,        \* pcs whose block ends in an indirect branch
  IndTargets,      \* where these may go
  EntryPC,
  PATH_DEPTH,
  TB_FROM_MAX,     \* entries of jmp_from
  LEAF_MAX,        \* size of leaves[]; nodes[] has PATH_DEPTH times as many
  RETRANS_STACK_MAX,
  Rooms,           \* how many blocks a superblock may take before one of its limits is met
  MaxBlocks        \* bound: blocks made

CodePCs == DOMAIN Succ

\* What the constants must be.
RetransAssumption ==
  /\ DOMAIN Fall = CodePCs /\ Indirect \cup IndTargets \subseteq CodePCs /\ EntryPC \in CodePCs
  /\ \A pc \in CodePCs : Fall[pc] \in CodePCs \cup {0} /\ \A n \in DOMAIN Succ[pc] : Succ[pc][n] \in CodePCs
  /\ {PATH_DEPTH, TB_FROM_MAX, LEAF_MAX, RETRANS_STACK_MAX} \cup Rooms \subseteq Nat \ {0}

VARIABLES
  room,          \* [gen, regen]: the blocks that fit a superblock of either translator
  tbs,           \* the blocks, see make_tb
  retrans_pcs,   \* pcs that were retranslated
  ind_tb,        \* a block of one of them translated since, or 0
  paths,         \* the paths of the last retranslation, as they lie in retrans_stack
  nodes,         \* what its travel used: [node_idx, leaf_idx, stack]
  status         \* "running", "overrun": the travel wrote behind its arrays, or
                 \* "strayed": a link was written at an address that is no jump

vars == <<room, tbs, retrans_pcs, ind_tb, paths, nodes, status>>

NORMAL_TB_TAG == 0
RETRANS_TB_TAG == 16
FALL == 0                  \* the number of the jump to a translated block behind
CONT_TRANS_TAG == -1       \* no jump: the next block's code follows
CUT == -2                  \* the number of the jump that is emitted at a limit

\* Where jump n of pc leads.
Target(pc, n) == IF n \in {FALL, CONT_TRANS_TAG} THEN Fall[pc] ELSE Succ[pc][n]
Jumps(pc) == DOMAIN Succ[pc] \cup (IF Fall[pc] = 0 THEN {} ELSE {FALL})

(***************************************************************************)
(* Blocks and their translation.  T is the sequence of blocks.             *)
(***************************************************************************)

tb_find(T, pc) ==
  LET S == {t \in DOMAIN T : T[t].pc = pc /\ T[t].tag = NORMAL_TB_TAG}
  IN  IF S = {} THEN 0 ELSE CHOOSE t \in S : \A u \in S : u <= t

\* cut: the block before whose code a limit stopped gen_target_code, behind this
\* one; its exit stands there.  only: where the jump leads that regen_target_code
\* left, at a limit, as all of this block's code (0: it has its code); noted: the
\* block whose only jump was noted as a jump of this one.
make_tb(T, pc) ==
  Append(T, [pc |-> pc, tag |-> NORMAL_TB_TAG, done |-> FALSE, counts |-> FALSE,
             jump |-> [n \in Jumps(pc) |-> 0], from |-> <<>>,
             cut |-> 0, only |-> 0, noted |-> 0])

\* Block tb is translated, its branch with a count of misses (cemit_retrans_ind)
\* unless retrans_ind is at work or has been at the same pc.
Translated(T, tb, is_retrans) ==
  [T EXCEPT ![tb].done = TRUE,
            ![tb].counts = ~ is_retrans /\ T[tb].pc \in Indirect \ retrans_pcs]

\* The ring is empty again when its last entry is taken.
tb_add_jmp_from(T, tb, next_tb, n) ==
  [T EXCEPT ![next_tb].from = IF Len(@) + 1 = TB_FROM_MAX THEN <<>> ELSE Append(@, [tb |-> tb, num |-> n])]

Linked(T, tb, next_tb, n) ==
  tb_add_jmp_from([T EXCEPT ![tb].jump[IF n = CONT_TRANS_TAG THEN FALL ELSE n] = next_tb], tb, next_tb, n)

\* The translation at st.cur reaches the next block: one that is translated is
\* jumped to, any other (block tb of T, perhaps new) is translated in place.
JumpToNext(st, tb) == [st EXCEPT !.T = Linked(st.T, st.cur, tb, FALL), !.cur = 0]
GoOnInto(st, T, tb, is_retrans) ==
  [st EXCEPT !.T = Linked(Translated(T, tb, is_retrans), st.cur, tb, CONT_TRANS_TAG),
             !.cur = tb, !.chain = Append(@, tb)]

\* A limit is met on entry to block tb, which has no code yet: gen_target_code takes
\* its tc_ptr away and notes the jump to it as one of its own; regen_target_code
\* looks at the superblock's first block instead, so that tb keeps its tc_ptr, and
\* notes the jump, which is all there is of tb, as one of that block.
StopBefore(st, T, tb, is_retrans) ==
  LET next == Linked(T, st.cur, tb, CONT_TRANS_TAG)
  IN  IF is_retrans
      THEN [st EXCEPT !.T = [next EXCEPT ![tb].done = TRUE, ![tb].only = tb, ![st.chain[1]].noted = tb],
                      !.cur = 0, !.limit = tb]
      ELSE [st EXCEPT !.T = [next EXCEPT ![st.cur].jump[FALL] = 0, ![st.cur].cut = tb], !.cur = 0]

trans_next(st, is_retrans) ==
  LET pc == Fall[st.T[st.cur].pc]
      tb == tb_find(st.T, pc)
      GoOn(T, t) == IF Len(st.chain) < room[IF is_retrans THEN "regen" ELSE "gen"] THEN GoOnInto(st, T, t, is_retrans)
                    ELSE StopBefore(st, T, t, is_retrans)
  IN  IF pc = 0 THEN [st EXCEPT !.cur = 0]
      ELSE IF tb = 0 THEN GoOn(make_tb(st.T, pc), Len(st.T) + 1)
      ELSE IF st.T[tb].done THEN JumpToNext(st, tb)
      ELSE GoOn(st.T, tb)

\* One jump of the new code: linked if its target is translated; otherwise a stub,
\* and the target's block exists.
lazy_patch(T, tb, n) ==
  LET dest_tb == tb_find(T, Target(T[tb].pc, n))
  IN  IF dest_tb = 0 THEN make_tb(T, Target(T[tb].pc, n))
      ELSE IF T[dest_tb].done THEN Linked(T, tb, dest_tb, n) ELSE T

\* The code of tb and of the blocks behind it.
Emitted(T, tb, is_retrans) ==
  LET st[i \in Nat] ==
        IF i = 0 THEN [T |-> Translated(T, tb, is_retrans), cur |-> tb, chain |-> <<tb>>, limit |-> 0]
        ELSE IF st[i - 1].cur = 0 THEN st[i - 1] ELSE trans_next(st[i - 1], is_retrans)
  IN  st[Cardinality(CodePCs) + 1]

\* Its jumps, in the order they were emitted, the one at regen_target_code's limit
\* last: its target has a tc_ptr, the jump's own address.  A translated branch that
\* is among retrans_pcs is remembered in ind_tb.
JumpsOf(T, t) == [n \in DOMAIN Succ[T[t].pc] |-> <<t, n>>]
Again(T, chain) == SelectSeq(chain, LAMBDA t : T[t].pc \in Indirect \cap retrans_pcs)
LimitPatched(T, st) == IF st.limit = 0 THEN T ELSE tb_add_jmp_from(T, st.chain[1], st.limit, CUT)
Patched(st, ind) ==
  [T |-> LimitPatched(FoldLeft(LAMBDA T, p : lazy_patch(T, p[1], p[2]), st.T,
                        FlattenSeq([i \in DOMAIN st.chain |-> JumpsOf(st.T, st.chain[i])])), st),
   ind_tb |-> Last(<<ind>> \o Again(st.T, st.chain))]

gen_target_code(S, tb) == Patched(Emitted(S.T, tb, FALSE), S.ind_tb)
regen_target_code(S, tb) == Patched(Emitted(S.T, tb, TRUE), S.ind_tb)

SetTag(T, B) == [t \in DOMAIN T |-> IF t \in B THEN [T[t] EXCEPT !.tag = RETRANS_TB_TAG] ELSE T[t]]

\* tb and, along the first entries of jmp_from, the blocks before it.
chg_tbs_tag(T, tb) ==
  LET walk[i \in 0 .. PATH_DEPTH - 1] ==
        IF i = 0 THEN tb
        ELSE IF walk[i - 1] = 0 \/ T[walk[i - 1]].from = <<>> THEN 0
        ELSE T[walk[i - 1]].from[1].tb
  IN  SetTag(T, {walk[i] : i \in 0 .. PATH_DEPTH - 1} \ {0})

(***************************************************************************)
(* The dispatch loop: get_next_tb, the link of the exit, chg_tbs_tag        *)
(***************************************************************************)

NoStub == [tb |-> 0, num |-> 0]

\* The block of pc, translated.
Generated(S, tb) == IF S.T[tb].done THEN S ELSE gen_target_code(S, tb)
get_next_tb(pc) ==
  IF tb_find(tbs, pc) = 0
  THEN Generated([T |-> make_tb(tbs, pc), ind_tb |-> ind_tb], Len(tbs) + 1)
  ELSE Generated([T |-> tbs, ind_tb |-> ind_tb], tb_find(tbs, pc))

\* The exit at a limit names a block that had no tc_ptr when the jump's offset from
\* it was noted.  Mostly it is the block to go to and nothing is linked.
Strays(prev, tb) == prev.num = CUT /\ prev.tb # tb
LinkExit(T, prev, tb) ==
  IF prev.tb \in {0, tb} \/ Strays(prev, tb) THEN T ELSE Linked(T, prev.tb, tb, prev.num)

\* prev: the stub that was left, or NoStub after an indirect branch
cpu_exec(pc, prev) ==
  /\ status = "running"
  /\ \E S \in {get_next_tb(pc)} : \E tb \in {tb_find(S.T, pc)} :
       /\ Len(S.T) <= MaxBlocks
       /\ tbs' = LET T == LinkExit(S.T, prev, tb)
                 IN  IF S.ind_tb = 0 THEN T ELSE chg_tbs_tag(T, S.ind_tb)
       /\ status' = IF Strays(prev, tb) THEN "strayed" ELSE "running"
  /\ ind_tb' = 0
  /\ UNCHANGED <<room, retrans_pcs, paths, nodes>>

\* The block runs its own code.
Runs(t) == tbs[t].done /\ tbs[t].only = 0

LeaveStub(t, n) ==
  /\ Runs(t) /\ n \in Jumps(tbs[t].pc) /\ tbs[t].jump[n] = 0
  /\ cpu_exec(Target(tbs[t].pc, n),
              IF n = FALL /\ tbs[t].cut # 0 THEN [tb |-> tbs[t].cut, num |-> CUT] ELSE [tb |-> t, num |-> n])

IndirectBranch(t, pc) == Runs(t) /\ tbs[t].pc \in Indirect /\ cpu_exec(pc, NoStub)

(***************************************************************************)
(* Retranslation                                                           *)
(***************************************************************************)

\* A node of the travel is the walk to it: [tb, num] from the branch's block on.
IsLeaf(w) == Len(w) = PATH_DEPTH + 1 \/ tbs[Last(w).tb].from = <<>>

Children(w) == [i \in DOMAIN tbs[Last(w).tb].from |-> Append(w, tbs[Last(w).tb].from[i])]

\* The nodes by depth, in the order of travel_queue.
NextLevel(ws) ==
  LET inner == SelectSeq(ws, LAMBDA w : ~ IsLeaf(w))
  IN  FlattenSeq([i \in DOMAIN inner |-> Children(inner[i])])
Travel(tb) ==
  FoldLeft(LAMBDA v, d : [all |-> v.all \o v.last, last |-> NextLevel(v.last)],
           [all |-> <<>>, last |-> << << [tb |-> tb, num |-> CONT_TRANS_TAG] >> >>],
           [d \in 1 .. PATH_DEPTH + 1 |-> d]).all

\* Blocks at the far end that run on into the next one have no jump to change.
Trimmed(w) ==
  LET ends == {i \in DOMAIN w : w[i].num # CONT_TRANS_TAG}
  IN  IF ends = {} THEN <<>> ELSE SubSeq(w, 1, CHOOSE i \in ends : \A j \in ends : j <= i)

PathsTo(leaves) ==
  SelectSeq([i \in DOMAIN leaves |-> Trimmed(leaves[i])], LAMBDA w : w # <<>>)

Hidden(T, pc) == SetTag(T, {t \in DOMAIN T : T[t].pc = pc})

\* One block of a path that is not its last: a copy, translated at once unless the
\* translation of the block before it runs on into it.
Copy(S, w, i) ==
  LET T == make_tb(Hidden(S.T, S.T[w[i].tb].pc), S.T[w[i].tb].pc)
      Made(R) == [T |-> R.T, ind_tb |-> R.ind_tb, made |-> Append(S.made, Len(S.T) + 1)]
  IN  IF w[i + 1].num = CONT_TRANS_TAG THEN Made([T |-> T, ind_tb |-> S.ind_tb])
      ELSE Made(regen_target_code([T |-> T, ind_tb |-> S.ind_tb], Len(S.T) + 1))
Copies(S, w) ==
  LET st[i \in Nat] ==
        IF i = 0 THEN [T |-> S.T, ind_tb |-> S.ind_tb, made |-> <<>>] ELSE Copy(st[i - 1], w, i)
  IN  st[Len(w) - 1]

\* The last block only gets its jump changed (tb_set_jmp).
EnterCopies(S, leaf) ==
  IF leaf.num = CUT THEN [S EXCEPT !.T[S.T[leaf.tb].noted].only = Last(S.made)]
  ELSE [S EXCEPT !.T[leaf.tb].jump[leaf.num] = Last(S.made)]

\* Mutant: the copies of a path stay visible to the next path.
HideCopies_not(S) == [T |-> S.T, ind_tb |-> S.ind_tb]

HideCopies(S) == [T |-> SetTag(S.T, ToSet(S.made)), ind_tb |-> S.ind_tb]

RetransPath(S, w) == HideCopies(EnterCopies(Copies(S, w), Last(w)))

retrans_ind_tb(ws) ==
  LET st[i \in Nat] == IF i = 0 THEN [T |-> tbs, ind_tb |-> ind_tb] ELSE RetransPath(st[i - 1], ws[i])
  IN  st[Len(ws)]

StackSize(ws) == FoldLeft(LAMBDA sum, w : sum + Len(w) + 1, 0, ws)

\* What the travel collects is in its arrays.  The check that is made ("retrans
\* node overflow") comes after the writes and is of nodes[] only.
Fits(used) ==
  /\ used.node_idx <= PATH_DEPTH * LEAF_MAX
  /\ used.leaf_idx <= LEAF_MAX
  /\ used.stack <= RETRANS_STACK_MAX

Used(travelled, leaves) ==
  [node_idx |-> Len(travelled), leaf_idx |-> Len(leaves), stack |-> StackSize(PathsTo(leaves))]

\* The branch of block t has missed RETRANS_THRESHOLD times.
retrans_ind(t) ==
  /\ status = "running"
  /\ tbs[t].counts
  /\ UNCHANGED room
  /\ \E travelled \in {Travel(t)} : \E leaves \in {SelectSeq(travelled, IsLeaf)} :
       /\ nodes' = Used(travelled, leaves)
       /\ \/ /\ ~ Fits(nodes')
             /\ status' = "overrun"
             /\ UNCHANGED <<tbs, retrans_pcs, ind_tb, paths>>
          \/ /\ Fits(nodes')
             /\ paths' = PathsTo(leaves)
             /\ \E S \in {retrans_ind_tb(paths')} :
                  /\ Len(S.T) <= MaxBlocks
                  /\ tbs' = [S.T EXCEPT ![t].counts = FALSE]
                  /\ ind_tb' = S.ind_tb
             /\ retrans_pcs' = retrans_pcs \cup {tbs[t].pc}
             /\ UNCHANGED status

(***************************************************************************)
(* Specification                                                           *)
(***************************************************************************)

Init ==
  /\ room \in [{"gen", "regen"} -> Rooms]
  /\ tbs = make_tb(<<>>, EntryPC)
  /\ retrans_pcs = {} /\ ind_tb = 0 /\ paths = <<>>
  /\ nodes = [node_idx |-> 0, leaf_idx |-> 0, stack |-> 0]
  /\ status = "running"

Next ==
  \/ ~ tbs[1].done /\ cpu_exec(EntryPC, NoStub)
  \/ \E t \in DOMAIN tbs : \E n \in {FALL} \cup DOMAIN Succ[tbs[t].pc] : LeaveStub(t, n)
  \/ \E t \in DOMAIN tbs, pc \in IndTargets : IndirectBranch(t, pc)
  \/ \E t \in DOMAIN tbs : retrans_ind(t)

Spec == Init /\ [][Next]_vars

(***************************************************************************)
(* Properties                                                              *)
(***************************************************************************)

\* A lookup has at most one block to find: each copy hides the blocks of its pc
\* before it is made, so that "the new_tb will be linked" (retrans-ind.c:193).
OneVisibleBlock ==
  \A t, u \in DOMAIN tbs :
    tbs[t].pc = tbs[u].pc /\ tbs[t].tag = NORMAL_TB_TAG /\ tbs[u].tag = NORMAL_TB_TAG => t = u

\* After any number of retranslations, and of superblocks cut at a limit, every jump
\* leads to a translated block of the pc the guest goes to, and so does a leaf's jump
\* into the copies.
LinksLeadToCode ==
  \A t \in DOMAIN tbs :
    /\ \A n \in Jumps(tbs[t].pc) :
         tbs[t].jump[n] # 0 => /\ tbs[tbs[t].jump[n]].pc = Target(tbs[t].pc, n)
                               /\ tbs[tbs[t].jump[n]].done
    /\ tbs[t].only # 0 => tbs[tbs[t].only].pc = tbs[t].pc /\ tbs[tbs[t].only].done

\* A guest that goes to a block runs its code: no block is a jump to itself.  A limit
\* in regen_target_code leaves one (retrans-ind.c:109 tests tb where translate.c:520
\* tests cur_tb), so the code does not keep this.
NoBlockLoops == \A t \in DOMAIN tbs : tbs[t].only # t

\* A link is written where the block's jump is.  The exit at gen_target_code's limit
\* has no such place; once its block is hidden by a retranslation it is linked to the
\* copy, so the code does not keep this.
LinksHitJumps == status # "strayed"

\* The block that a path reaches through its jumps, from its last block on.
Reached(T, w) ==
  LET step[i \in 1 .. Len(w)] ==
        IF i = Len(w) THEN w[i].tb
        ELSE IF step[i + 1] = 0 THEN 0
        ELSE T[step[i + 1]].jump[IF w[i + 1].num = CONT_TRANS_TAG THEN FALL ELSE w[i + 1].num]
  IN  step[1]

Simple(T, w) ==
  \A i, j \in DOMAIN w : w[i].num # CUT /\ (T[w[i].tb].pc = T[w[j].tb].pc => i = j)

\* The purpose of it all: right after a retranslation the paths reach the branch
\* in copies of their own that no lookup finds, unless they come through the same
\* jump of the same block, meet a pc twice, or a superblock was cut at a limit.
PathsReachOwnCopies ==
  [][\A t \in DOMAIN tbs :
       /\ tbs[t].counts /\ tbs[t].pc \in retrans_pcs' \ retrans_pcs
       /\ \A u \in DOMAIN tbs' : tbs'[u].only = u => u \in DOMAIN tbs /\ tbs[u].only = u
       =>
         \A i, j \in DOMAIN paths' :
           LET v == paths'[i]
               w == paths'[j]
           IN  Simple(tbs, v) /\ Simple(tbs, w) /\ Last(v) # Last(w)
                 => /\ Reached(tbs', v) > Len(tbs) /\ Reached(tbs', v) # Reached(tbs', w)
                    /\ tbs'[Reached(tbs', v)].tag = RETRANS_TB_TAG]_vars

\* The travel stays in its arrays, as "retrans node overflow" (retrans-ind.c:294)
\* promises.
TravelFits == status # "overrun"
=============================================================================
