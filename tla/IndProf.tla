------------------------------ MODULE IndProf -------------------------------
(***************************************************************************)
(* The profile of indirect branches (target-i386/ind-prof.c), in the       *)
(* builds with PROF_IND.  Emitted code calls stat_tgt_add before each      *)
(* indirect branch, or stat_tgt_add_path in a build with PROF_PATH, where  *)
(* a node is kept per branch and path of blocks leading to it; the path is *)
(* read from a ring that emitted code pushes each block to                 *)
(* (cemit_push_path).  prof_stat reports at exit.                          *)
(*                                                                         *)
(* A node is one element of stat_nodes.  Blocks and targets are positive   *)
(* numbers: 0 is the content of an untouched recent slot, and the negative *)
(* -(j+1) what malloc left in cell j of the ring.                          *)
(***************************************************************************)
EXTENDS Integers, Sequences, FiniteSets, SequencesExt

CONSTANTS
  PROF_PATH,        \* the build keeps a node per path
  Srcs, Tgts, TBs,  \* branches, their targets, blocks
  PATH_DEPTH, PATH_STACK_SIZE, STAT_NODE_MAX, STAT_TGT_MAX,
  IND_SLOT_MAX, IND_THRESHOLD,
  DetailShift,      \* branches are printed above 1/2^DetailShift of all (7 in the code)
  Garbage,          \* what words behind an array may hold
  MaxPushes, MaxBranches   \* bounds on the run

VARIABLES
  stat_nodes, stat_node_count,
  f_idx, b_idx,                        \* the two ends find_node_with_path fills
  path_stack, path_stack_index,
  mode,                                \* "run", "aborted", "reported"
  trail,                               \* the blocks pushed so far
  taken,                               \* the branches taken so far
  report                               \* what ind_prof_stat computed

profVars == <<stat_nodes, stat_node_count, f_idx, b_idx>>
vars == <<profVars, path_stack, path_stack_index, mode, trail, taken, report>>

NULL == -1     \* a NULL next pointer; nodes are named by their index
Slots == 0 .. IND_SLOT_MAX - 1
Cells == 0 .. STAT_TGT_MAX - 1

\* A node of the zeroed array.
ZeroNode ==
  [src_addr |-> 0, path |-> <<>>, tgt_addr |-> [i \in Cells |-> 0], tgt_addr_hit |-> [i \in Cells |-> 0],
   tgt_dyn_count |-> 0, tgt_count |-> 0, tgt_recent_addr |-> [i \in Slots |-> 0], tgt_recent_hit |-> 0,
   recent_index |-> 0, next |-> NULL]

Init ==
  /\ stat_nodes = [i \in 0 .. STAT_NODE_MAX - 1 |-> ZeroNode]
  /\ stat_node_count = 0
  /\ f_idx = 0 /\ b_idx = STAT_NODE_MAX - 1
  /\ path_stack = [j \in 0 .. PATH_STACK_SIZE - 1 |-> -(j + 1)]
  /\ path_stack_index = 0
  /\ mode = "run" /\ trail = <<>> /\ taken = <<>> /\ report = <<>>

(***************************************************************************)
(* One branch                                                              *)
(***************************************************************************)

\* node after the check of its recent slots for tgt, which was hit hits times.
stat_tgt_recent_th(node, tgt, hits) ==
  LET hit == \E i \in Slots : node.tgt_recent_addr[i] = tgt IN
  IF hit THEN [node EXCEPT !.tgt_recent_hit = @ + 1]
  ELSE IF node.recent_index < IND_SLOT_MAX /\ hits > IND_THRESHOLD
       THEN [node EXCEPT !.tgt_recent_addr[node.recent_index] = tgt, !.recent_index = @ + 1]
       ELSE node

\* The cells the search for a target reads that are cells of the array.  Behind it are
\* halves of hit counts, which are no addresses of code.
Searched(node) == {i \in Cells : i < node.tgt_count}

\* node with one more hit of tgt, in cell.
CountTarget(node, tgt, cell) ==
  LET known == \E i \in Searched(node) : node.tgt_addr[i] = tgt IN
  [node EXCEPT !.tgt_dyn_count = @ + 1, !.tgt_addr[cell] = tgt,
               !.tgt_addr_hit[cell] = IF known THEN @ + 1 ELSE 1,
               !.tgt_count = IF known THEN @ ELSE @ + 1]

\* The cell of tgt: the one it has or the next free one.
CellOf(node, tgt) ==
  IF \E i \in Searched(node) : node.tgt_addr[i] = tgt
  THEN CHOOSE i \in Searched(node) : node.tgt_addr[i] = tgt
  ELSE node.tgt_count

Hit(node, tgt, cell) ==
  LET counted == CountTarget(node, tgt, cell)
  IN  stat_tgt_recent_th(counted, tgt, counted.tgt_addr_hit[cell])

\* The first node of src below n, n if there is none.
FindSrc(src, n) ==
  IF \E i \in 0 .. n - 1 : stat_nodes[i].src_addr = src
  THEN CHOOSE i \in 0 .. n - 1 : stat_nodes[i].src_addr = src /\ \A k \in 0 .. i - 1 : stat_nodes[k].src_addr # src
  ELSE n

\* stat_tgt_add: a node per branch; the targets wrap around when the array is full.
stat_tgt_add(src, tgt) ==
  LET i == FindSrc(src, stat_node_count)
      new == i = stat_node_count
      node == IF new THEN [stat_nodes[i] EXCEPT !.src_addr = src, !.tgt_count = 0, !.tgt_recent_hit = 0] ELSE stat_nodes[i]
  IN  /\ ~PROF_PATH
      /\ stat_node_count' = stat_node_count + (IF new THEN 1 ELSE 0)
      /\ IF new /\ stat_node_count' = STAT_NODE_MAX
         THEN mode' = "aborted" /\ stat_nodes' = [stat_nodes EXCEPT ![i] = node]
         ELSE mode' = mode /\ stat_nodes' = [stat_nodes EXCEPT ![i] = Hit(node, tgt, CellOf(node, tgt) % STAT_TGT_MAX)]
      /\ UNCHANGED <<f_idx, b_idx>>

\* stat_src_add: the translation of a return adds an empty node.
stat_src_add(src) ==
  /\ mode = "run" /\ ~PROF_PATH
  /\ LET i == FindSrc(src, stat_node_count) IN
     /\ i = stat_node_count
     /\ stat_nodes' = [stat_nodes EXCEPT ![i].src_addr = src, ![i].tgt_count = 0]
     /\ stat_node_count' = stat_node_count + 1
     /\ mode' = IF stat_node_count' = STAT_NODE_MAX THEN "aborted" ELSE mode
  /\ UNCHANGED <<f_idx, b_idx, path_stack, path_stack_index, trail, taken, report>>

(***************************************************************************)
(* Paths                                                                   *)
(***************************************************************************)

\* j after the i-th round of j = j - i; if (j < 0) j += PATH_STACK_SIZE.
PathCell(i) ==
  LET step(j, k) == IF j - k < 0 THEN j - k + PATH_STACK_SIZE ELSE j - k
  IN  FoldLeft(step, path_stack_index - 1, [k \in 1 .. i + 1 |-> k - 1])

Path == [i \in 1 .. PATH_DEPTH |-> path_stack[PathCell(i - 1)]]

\* The nodes on the next chain of node i, nearest first.
Chain(i) ==
  LET ch[k \in 1 .. STAT_NODE_MAX] == IF k = 1 THEN i ELSE IF ch[k - 1] = NULL THEN NULL ELSE stat_nodes[ch[k - 1]].next
  IN  SelectSeq([k \in 1 .. STAT_NODE_MAX |-> ch[k]], LAMBDA c : c # NULL)

\* Mutant: the last node of the chain is not compared.
SamePath_notlast(node, path) == node.path = path /\ node.next # NULL

\* memcmp of the recorded path with the one just read.
SamePath(node, path) == node.path = path

\* The node whose next pointer leads to a new node.
LinkFrom(chain) == chain[Len(chain)]

\* make_stat_node, linked from prev: the first node of a branch is put at the
\* front end, the others at the back end of stat_nodes.
make_stat_node(src, path, idx, prev) ==
  LET made == [stat_nodes EXCEPT ![idx].src_addr = src, ![idx].path = path, ![idx].tgt_count = 0, ![idx].tgt_recent_hit = 0]
  IN  IF prev = NULL THEN made ELSE [made EXCEPT ![prev].next = idx]

\* stat_tgt_add_path, with find_node_with_path.
stat_tgt_add_path(src, tgt) ==
  LET first == FindSrc(src, f_idx)
      chain == IF first = f_idx THEN <<>> ELSE Chain(first)
      match == {k \in 1 .. Len(chain) : SamePath(stat_nodes[chain[k]], Path)}
      found == match # {}
      idx == IF found THEN chain[CHOOSE k \in match : \A m \in match : k <= m]
             ELSE IF chain = <<>> THEN f_idx ELSE b_idx
      made == IF found THEN stat_nodes
              ELSE make_stat_node(src, Path, idx, IF chain = <<>> THEN NULL ELSE LinkFrom(chain))
      after == Hit(made[idx], tgt, CellOf(made[idx], tgt))
      full == ~found /\ stat_node_count + 1 = STAT_NODE_MAX
  IN  /\ PROF_PATH
      /\ stat_node_count' = stat_node_count + (IF found THEN 0 ELSE 1)
      /\ f_idx' = f_idx + (IF chain = <<>> THEN 1 ELSE 0)
      /\ b_idx' = b_idx - (IF chain # <<>> /\ ~found THEN 1 ELSE 0)
      /\ stat_nodes' = IF full THEN made ELSE [made EXCEPT ![idx] = after]
      /\ mode' = IF full \/ (after.tgt_count = STAT_TGT_MAX /\ made[idx].tgt_count # STAT_TGT_MAX)
                 THEN "aborted" ELSE mode

\* cemit_push_path: a block passes.
PushPath(tb) ==
  /\ mode = "run" /\ PROF_PATH /\ Len(trail) < MaxPushes
  /\ path_stack' = [path_stack EXCEPT ![path_stack_index] = tb]
  /\ path_stack_index' = (path_stack_index + 1) % PATH_STACK_SIZE
  /\ trail' = Append(trail, tb)
  /\ UNCHANGED <<profVars, mode, taken, report>>

\* cemit_ind_count: an indirect branch of src to tgt is about to be taken.
IndBranch(src, tgt) ==
  /\ mode = "run" /\ Len(taken) < MaxBranches
  /\ (PROF_PATH => trail # <<>>)
  /\ stat_tgt_add(src, tgt) \/ stat_tgt_add_path(src, tgt)
  /\ taken' = Append(taken, [src |-> src, tgt |-> tgt, at |-> Len(trail)])
  /\ UNCHANGED <<path_stack, path_stack_index, trail, report>>

(***************************************************************************)
(* The report                                                              *)
(***************************************************************************)

\* heapify(heap, n): sift the root down; heap is a function on 1 .. n.
heapify(heap, n) ==
  LET step(s, k) ==
        LET left == 2 * s.i
            swap == IF left + 1 > n THEN left ELSE IF s.heap[left] < s.heap[left + 1] THEN left ELSE left + 1
        IN  IF s.done \/ s.i > n \div 2 THEN s
            ELSE IF s.heap[s.i] < s.heap[swap] THEN [s EXCEPT !.done = TRUE]
            ELSE [s EXCEPT !.heap = [@ EXCEPT ![s.i] = s.heap[swap], ![swap] = s.heap[s.i]], !.i = swap]
  IN  FoldLeft(step, [heap |-> heap, i |-> 1, done |-> FALSE], [k \in 1 .. n |-> k]).heap

\* The heap keeps hits.
Keeps(hits, least) == hits > least

\* tgt_addr_hit[j], also for the j behind the array that a node with too many targets
\* has: tgt_dyn_count is the first word there.
HitRead(node, j, g) ==
  IF j \in Cells THEN node.tgt_addr_hit[j] ELSE IF j = STAT_TGT_MAX THEN node.tgt_dyn_count ELSE g

\* find_static_max_hit; heap has room for IND_SLOT_MAX counts, heapify is told
\* one more and also uses the word behind it, which holds g.
find_static_max_hit(node, g) ==
  LET n == IND_SLOT_MAX + 1
      empty == [i \in 1 .. n |-> IF i = n THEN g ELSE 0]
      step(heap, hits) == IF Keeps(hits, heap[1]) THEN heapify([heap EXCEPT ![1] = hits], n) ELSE heap
      heap == FoldLeft(step, empty, [k \in 1 .. node.tgt_count |-> HitRead(node, k - 1, g)])
  IN  FoldLeft(+, 0, [i \in 1 .. IND_SLOT_MAX |-> heap[i]])

find_prof_tgt_hit(node) == FoldLeft(+, 0, [i \in 1 .. IND_SLOT_MAX |-> node.tgt_addr_hit[i - 1]])

\* div_64 subtracts divis as long as it can.
div_64(divid, divis) == IF divis = 0 THEN 0 ELSE divid \div divis

\* calc_perc: tenths of a percent.
calc_perc(divid, divis) == div_64(divid * 1000, divis)

\* The memmove of the nodes at the back end behind those at the front end.
Compacted ==
  IF ~PROF_PATH THEN stat_nodes
  ELSE [i \in DOMAIN stat_nodes |->
          IF i >= f_idx /\ i < f_idx + STAT_NODE_MAX - b_idx - 1 THEN stat_nodes[b_idx + 1 + i - f_idx] ELSE stat_nodes[i]]

\* Only important branches are printed.  ind_count is the number of indirect branches,
\* which emitted code counts.
Important(node) == node.tgt_dyn_count > Len(taken) \div 2 ^ DetailShift

\* What ind_prof_stat prints of a node.
ReportLine(node, g) ==
  [src |-> node.src_addr, dyn |-> node.tgt_dyn_count, recent |-> node.tgt_recent_hit,
   prof |-> find_prof_tgt_hit(node), max |-> find_static_max_hit(node, g),
   hits |-> [j \in 1 .. node.tgt_count |-> HitRead(node, j - 1, g)],
   perc |-> [j \in 1 .. node.tgt_count |-> calc_perc(HitRead(node, j - 1, g), node.tgt_dyn_count)]]

\* ind_prof_stat of prof_stat, at exit.
prof_stat(g) ==
  /\ mode = "run"
  /\ mode' = "reported"
  /\ stat_nodes' = Compacted
  /\ LET important == SelectSeq([i \in 1 .. stat_node_count |-> Compacted[i - 1]], Important)
     IN  report' = [i \in 1 .. Len(important) |-> ReportLine(important[i], g)]
  /\ UNCHANGED <<stat_node_count, f_idx, b_idx, path_stack, path_stack_index, trail, taken>>

Done == mode # "run" /\ UNCHANGED vars

Next ==
  \/ \E tb \in TBs : PushPath(tb)
  \/ \E src \in Srcs, tgt \in Tgts : IndBranch(src, tgt)
  \/ \E src \in Srcs : stat_src_add(src)
  \/ \E g \in Garbage : prof_stat(g)
  \/ Done

Spec == Init /\ [][Next]_vars

(***************************************************************************)
(* Properties                                                              *)
(***************************************************************************)

\* The nodes in use before the report moves them.
Used == IF PROF_PATH THEN (0 .. f_idx - 1) \cup (b_idx + 1 .. STAT_NODE_MAX - 1) ELSE 0 .. stat_node_count - 1

\* Counters stay in their arrays and the two ends of stat_nodes never meet.
TypeOK ==
  /\ mode \in {"run", "aborted", "reported"}
  /\ stat_node_count \in 0 .. STAT_NODE_MAX
  /\ path_stack_index \in 0 .. PATH_STACK_SIZE - 1
  /\ f_idx <= b_idx + 1 /\ f_idx >= 0
  /\ (PROF_PATH => stat_node_count = f_idx + STAT_NODE_MAX - 1 - b_idx)
  /\ \A i \in DOMAIN stat_nodes : stat_nodes[i].recent_index \in 0 .. IND_SLOT_MAX

\* The block pushed d pushes before the newest of the first n, or what malloc left.
Back(n, d) ==
  IF d < n THEN trail[n - d] ELSE -(((n - 1 - d + PATH_STACK_SIZE) % PATH_STACK_SIZE) + 1)

\* The path the code reads for a branch after n pushes: the blocks 0, 1, 3, 6, ...
\* pushes before the newest.
PathAt(n) == [i \in 1 .. PATH_DEPTH |-> Back(n, (i * (i - 1)) \div 2)]

Key(b) == <<b.src, IF PROF_PATH THEN PathAt(b.at) ELSE <<>> >>

Hits(key, tgt) == Cardinality({k \in 1 .. Len(taken) : Key(taken[k]) = key /\ taken[k].tgt = tgt})

\* No more targets than there are cells.
Fits(node) == node.tgt_count <= STAT_TGT_MAX

\* The nodes count each branch, on each path, as often as it was taken, and each target
\* of it too, unless it has more targets than a node has cells: then the first ones are
\* overwritten (stat_tgt_add, stat_tgt_add_path).
HitsTellTheTruth ==
  mode = "run" =>
    /\ \A k \in 1 .. Len(taken) : \E i \in Used :
          /\ <<stat_nodes[i].src_addr, stat_nodes[i].path>> = Key(taken[k])
          /\ Fits(stat_nodes[i]) =>
               \E c \in Searched(stat_nodes[i]) : stat_nodes[i].tgt_addr[c] = taken[k].tgt
    /\ \A i \in Used :
         LET key == <<stat_nodes[i].src_addr, stat_nodes[i].path>> IN
         /\ stat_nodes[i].tgt_dyn_count = Cardinality({k \in 1 .. Len(taken) : Key(taken[k]) = key})
         /\ Fits(stat_nodes[i]) =>
              \A c \in Searched(stat_nodes[i]) : stat_nodes[i].tgt_addr_hit[c] = Hits(key, stat_nodes[i].tgt_addr[c])

\* No branch, and no path to it, has two nodes (find_node_with_path).
OneNodePerPath ==
  mode = "run" => \A i, k \in Used : i # k => <<stat_nodes[i].src_addr, stat_nodes[i].path>> # <<stat_nodes[k].src_addr, stat_nodes[k].path>>

\* Every node made is on the chain of its branch: it is found again.
NodesReachable ==
  (mode = "run" /\ PROF_PATH) =>
    \A i \in b_idx + 1 .. STAT_NODE_MAX - 1 :
      \E f \in 0 .. f_idx - 1 : i \in ToSet(Chain(f)) /\ stat_nodes[f].src_addr = stat_nodes[i].src_addr

\* A slot predicts a target that was hit more often than the threshold, no target
\* has two slots, and a target that hot has a slot unless others took them all.
HotTargetsPredicted ==
  mode = "run" => \A i \in Used : LET node == stat_nodes[i] IN Fits(node) =>
    /\ \A s, t \in 0 .. node.recent_index - 1 : s # t => node.tgt_recent_addr[s] # node.tgt_recent_addr[t]
    /\ \A s \in 0 .. node.recent_index - 1 : \E c \in Searched(node) :
          node.tgt_addr[c] = node.tgt_recent_addr[s] /\ node.tgt_addr_hit[c] > IND_THRESHOLD
    /\ \A c \in Searched(node) : node.tgt_addr_hit[c] > IND_THRESHOLD =>
          node.recent_index = IND_SLOT_MAX \/ \E s \in Slots : node.tgt_recent_addr[s] = node.tgt_addr[c]

\* The report has one line for each branch, on each path, that was taken more often than
\* 1/2^DetailShift of all, with the number of times it was taken, and no other line
\* (ind_prof_stat, after the nodes of both ends were moved together).
ReportComplete ==
  mode = "reported" =>
    LET keys == {Key(taken[k]) : k \in 1 .. Len(taken)}
        times(key) == Cardinality({k \in 1 .. Len(taken) : Key(taken[k]) = key})
        hot == {key \in keys : times(key) > Len(taken) \div 2 ^ DetailShift}
    IN  \A src \in Srcs : \A n \in 1 .. Len(taken) :
          Cardinality({i \in DOMAIN report : report[i].src = src /\ report[i].dyn = n}) =
            Cardinality({key \in hot : key[1] = src /\ times(key) = n})

\* The lines of branches that have no more targets than cells.
Whole == {i \in DOMAIN report : Len(report[i].hits) <= STAT_TGT_MAX}

\* The best IND_SLOT_MAX targets of a line.
BestHits(hits) == FoldLeft(+, 0, SubSeq(SortSeq(hits, >), 1, IF Len(hits) < IND_SLOT_MAX THEN Len(hits) ELSE IND_SLOT_MAX))

\* Whatever is behind the heap, the reported maximum is at most what the best
\* targets were hit, and no slot strategy is reported to beat it by luck of a target
\* counted twice (find_static_max_hit), for branches with no more targets than cells.
MaxHitNotOverstated ==
  mode = "reported" => \A i \in Whole : report[i].max <= BestHits(report[i].hits)

\* The percentages printed for the targets of a branch add up to 100 % but for the
\* tenths cut off (calc_perc), for branches with no more targets than cells.
PercentagesAddUp ==
  mode = "reported" => \A i \in Whole :
    LET sum == FoldLeft(+, 0, report[i].perc) IN
    sum <= 1000 /\ (report[i].dyn > 0 => sum > 1000 - Len(report[i].perc))

\* Claimed by stat_tgt_add_path: a path is the last PATH_DEPTH blocks.
RecordsLastBlocks ==
  (mode = "run" /\ Len(trail) >= PATH_STACK_SIZE /\ taken # <<>> /\ taken[Len(taken)].at = Len(trail)) =>
    \E i \in Used : stat_nodes[i].path = [k \in 1 .. PATH_DEPTH |-> Back(Len(trail), k - 1)]
=============================================================================
