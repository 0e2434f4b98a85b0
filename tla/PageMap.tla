------------------------------ MODULE PageMap ------------------------------
(***************************************************************************)
(* The page flags of exec.c: a two-level map whose leaves are allocated on *)
(* first use, the checks on it, the walk over its regions, and the access   *)
(* functions of linux-user that rest on them (qemu.h, uaccess.c).          *)
(*                                                                         *)
(* Addresses are numbers below Space and wrap there, as 32-bit ones do.    *)
(***************************************************************************)
EXTENDS Integers, Sequences, FiniteSets

CONSTANTS
  TARGET_PAGE_SIZE,   \* bytes of a guest page
  L1_SIZE,            \* entries of l1_map
  L2_SIZE,            \* pages under one entry
  Prots               \* protections that callers ask for

\* What the constants must be.
PageMapAssumption ==
  /\ {TARGET_PAGE_SIZE, L1_SIZE, L2_SIZE} \subseteq Nat \ {0}
  /\ Prots \subseteq SUBSET {"PAGE_READ", "PAGE_WRITE", "PAGE_EXEC"}

NPages == L1_SIZE * L2_SIZE
Space == NPages * TARGET_PAGE_SIZE
Pages == 0 .. NPages - 1
Addrs == 0 .. Space - 1
NULL == <<>>     \* an entry without a leaf

VARIABLES
  l1_map,   \* entry -> NULL, or the flags of its pages
  status    \* "running", or "aborted" after a failed assertion

vars == <<l1_map, status>>

PageOf(addr) == addr \div TARGET_PAGE_SIZE
TARGET_PAGE_ALIGN(addr) ==
  (((addr + TARGET_PAGE_SIZE - 1) \div TARGET_PAGE_SIZE) * TARGET_PAGE_SIZE) % Space

\* The pages that a loop over len bytes from start visits, len modulo Space.
PagesFrom(start, end) ==
  LET first == PageOf(start) * TARGET_PAGE_SIZE
      len == (Space + TARGET_PAGE_ALIGN(end) - first) % Space
  IN  {PageOf((first + i) % Space) : i \in 0 .. len - 1}

(***************************************************************************)
(* Looking up and setting flags                                            *)
(***************************************************************************)

\* page_find: the entry's array may not exist.
PageFound(index) == l1_map[index \div L2_SIZE] # NULL

FlagsIn(map, index) ==
  IF map[index \div L2_SIZE] = NULL THEN {} ELSE map[index \div L2_SIZE][index % L2_SIZE]

page_get_flags(address) == FlagsIn(l1_map, PageOf(address))

WithWriteOrg(flags) ==
  IF "PAGE_WRITE" \in flags THEN flags \cup {"PAGE_WRITE_ORG"} ELSE flags

NewLeaf == [i \in 0 .. L2_SIZE - 1 |-> {}]

\* page_find_alloc(index, 1) for the visited pages of one entry.
SetLeaf(leaf, entry, visited, flags) ==
  LET old == IF leaf = NULL THEN NewLeaf ELSE leaf
  IN  [i \in 0 .. L2_SIZE - 1 |-> IF entry * L2_SIZE + i \in visited THEN flags ELSE old[i]]

\* The map after page_set_flags.  No block is ever filed under a page (first_tb
\* stays NULL), so no code is invalidated.
MapWith(start, end, flags) ==
  LET visited == PagesFrom(start, end)
  IN  [e \in 0 .. L1_SIZE - 1 |->
         IF \E p \in visited : p \div L2_SIZE = e
         THEN SetLeaf(l1_map[e], e, visited, WithWriteOrg(flags))
         ELSE l1_map[e]]

page_set_flags(start, end, flags) ==
  /\ status = "running"
  /\ \/ /\ start < end
        /\ l1_map' = MapWith(start, end, flags)
        /\ UNCHANGED status
     \/ /\ start >= end           \* assert(start < end)
        /\ status' = "aborted"
        /\ UNCHANGED l1_map

(***************************************************************************)
(* Checking ranges                                                         *)
(***************************************************************************)

\* page_unprotect: "no" if the page is not one that was made read-only, and
\* otherwise it invalidates code, which is abort().
page_unprotect(address) ==
  IF /\ PageFound(PageOf(address))
     /\ "PAGE_WRITE_ORG" \in page_get_flags(address)
     /\ "PAGE_WRITE" \notin page_get_flags(address)
  THEN "abort" ELSE "no"

Wraps(start, len) == start + len - 1 >= Space

\* The loop body of page_check_range: what one page makes it return, or "next".
CheckPage(addr, flags) ==
  LET f == page_get_flags(addr)
  IN  CASE ~ PageFound(PageOf(addr)) -> "fail"
        [] "PAGE_VALID" \notin f -> "fail"
        [] "PAGE_READ" \in flags /\ "PAGE_READ" \notin f -> "fail"
        [] "PAGE_WRITE" \in flags /\ "PAGE_WRITE_ORG" \notin f -> "fail"
        [] "PAGE_WRITE" \in flags /\ "PAGE_WRITE" \notin f -> IF page_unprotect(addr) = "no" THEN "fail" ELSE "abort"
        [] "PAGE_WRITE" \in flags -> "ok"      \* "return 0" inside the loop
        [] OTHER -> "next"

\* "ok" and "fail" for the code's 0 and -1.  The loop runs until the
\* remaining length, computed modulo Space, is 0.
page_check_range(start, len, flags) ==
  LET first == PageOf(start)
      end == TARGET_PAGE_ALIGN(start + len)
      npages == ((Space + end - first * TARGET_PAGE_SIZE) % Space) \div TARGET_PAGE_SIZE
      loop[i \in 0 .. NPages] ==
        IF i = npages THEN "ok"
        ELSE LET r == CheckPage((first + i) * TARGET_PAGE_SIZE, flags)
             IN  IF r = "next" THEN loop[i + 1] ELSE r
  IN  IF len = 0 THEN "ok" ELSE IF Wraps(start, len) THEN "fail" ELSE loop[0]

VERIFY_READ == {"PAGE_READ"}
VERIFY_WRITE == {"PAGE_READ", "PAGE_WRITE"}

\* lock_user succeeds; copy_from_user and copy_to_user follow it.
access_ok(type, addr, size) == page_check_range(addr, size, type) = "ok"

\* What is left of addr's page.
ChunkLength(addr) == TARGET_PAGE_SIZE - (addr % TARGET_PAGE_SIZE)

EFAULT == -1

\* target_strlen page by page, where the bytes at zeros are 0.
target_strlen(addr, zeros) ==
  LET strnlen(a, max) == IF \E i \in 0 .. max - 1 : a + i \in zeros
                         THEN CHOOSE i \in 0 .. max - 1 :
                                a + i \in zeros /\ \A j \in 0 .. i - 1 : a + j \notin zeros
                         ELSE max
      loop[a \in Addrs] ==
        LET max_len == ChunkLength(a)
            len == strnlen(a, max_len)
            next == (a + len) % Space
        IN  IF ~ access_ok(VERIFY_READ, a, max_len) THEN EFAULT
            ELSE IF next = 0 \/ next - addr > Space \div 2 - 1 THEN EFAULT
            ELSE IF len # max_len THEN next - addr
            ELSE loop[next]
  IN  loop[addr]

(***************************************************************************)
(* walk_memory_regions                                                     *)
(***************************************************************************)

Or[x \in 0 .. Space, y \in 0 .. Space] ==
  IF x = 0 \/ y = 0 THEN x + y
  ELSE (IF x % 2 = 1 \/ y % 2 = 1 THEN 1 ELSE 0) + 2 * Or[x \div 2, y \div 2]

\* Where the walk believes the pages of an entry to be: it shifts the entry's number
\* by V_L1_SHIFT, which is L2_BITS, and not by TARGET_PAGE_BITS too.
LeafBase(e) == e * L2_SIZE
ReportedAddr(page) == Or[LeafBase(page \div L2_SIZE), (page % L2_SIZE) * TARGET_PAGE_SIZE]

\* Mutant: a missing leaf is skipped instead of ending the region.
LeafSteps_skipped(e) ==
  IF l1_map[e] = NULL THEN <<>>
  ELSE [i \in 1 .. L2_SIZE |-> [pa |-> ReportedAddr(e * L2_SIZE + i - 1), prot |-> l1_map[e][i - 1]]]

\* walk_memory_regions_1: what one entry reports, a missing leaf once.
LeafSteps(e) ==
  IF l1_map[e] = NULL THEN <<[pa |-> LeafBase(e), prot |-> {}]>>
  ELSE [i \in 1 .. L2_SIZE |-> [pa |-> ReportedAddr(e * L2_SIZE + i - 1), prot |-> l1_map[e][i - 1]]]

\* walk_memory_regions_end: close the open region, if any, and open a new one
\* unless new_prot is 0.
RegionsEnd(data, end, new_prot) ==
  [open |-> new_prot # {}, start |-> end, prot |-> new_prot,
   out |-> IF data.open THEN Append(data.out, [start |-> data.start, end |-> end, prot |-> data.prot])
           ELSE data.out]

\* The regions fn is called for, in order.  The last one ends at 0.
walk_memory_regions ==
  LET steps[e \in 0 .. L1_SIZE] == IF e = 0 THEN <<>> ELSE steps[e - 1] \o LeafSteps(e - 1)
      all == steps[L1_SIZE]
      data[n \in 0 .. Len(all)] ==
        IF n = 0 THEN [open |-> FALSE, start |-> 0, prot |-> {}, out |-> <<>>]
        ELSE IF all[n].prot = data[n - 1].prot /\ all[n].prot # {} THEN data[n - 1]
        ELSE RegionsEnd(data[n - 1], all[n].pa, all[n].prot)
  IN  RegionsEnd(data[Len(all)], 0, {}).out

(***************************************************************************)
(* Specification                                                           *)
(***************************************************************************)

Init ==
  /\ l1_map = [e \in 0 .. L1_SIZE - 1 |-> NULL]
  /\ status = "running"

\* Callers map with PAGE_VALID and a protection, or clear the flags.
FlagSets == {{}} \cup {p \cup {"PAGE_VALID"} : p \in Prots}

Next == \E start, end \in Addrs : \E flags \in FlagSets : page_set_flags(start, end, flags)

Spec == Init /\ [][Next]_vars

(***************************************************************************)
(* Properties                                                              *)
(***************************************************************************)

\* The map with its leaves allocated on demand is a flat map from page to flags:
\* setting a range changes the pages the range touches, and no other page under
\* the same entry.  (Not even the pages of a range from page 0 into the last page
\* change: its length is 0 after rounding.)
SetIsExact ==
  \A start, end \in Addrs : \A f \in FlagSets :
    start < end =>
      LET touched == PageOf(start) .. PageOf(end - 1)
          after == MapWith(start, end, f)
      IN  \A p \in Pages :
            FlagsIn(after, p) =
              IF p \in touched /\ touched # Pages THEN WithWriteOrg(f) ELSE FlagsIn(l1_map, p)

Accessible(p, flags) ==
  LET f == page_get_flags(p * TARGET_PAGE_SIZE)
  IN  "PAGE_VALID" \in f /\ flags \subseteq f

RangePages(start, len) == {PageOf(start + i) : i \in 0 .. len - 1}

\* A range that wraps is refused; a range from page 0 into the last page is accepted
\* without a look at its pages, because its length is 0 after rounding; and any other
\* is accepted for reading exactly if all its pages are readable.
ReadCheckIsExact ==
  \A start \in Addrs : \A len \in 1 .. Space - 1 :
    access_ok(VERIFY_READ, start, len) <=>
      /\ start + len <= Space
      /\ \/ RangePages(start, len) = Pages
         \/ \A p \in RangePages(start, len) : Accessible(p, VERIFY_READ)

\* lock_user(VERIFY_WRITE) gives a pointer only to memory that may be written,
\* and VERIFY_WRITE "implies read access" (linux-user/qemu.h:250), on every page.
WriteCheckIsExact ==
  \A start \in Addrs : \A len \in 1 .. TARGET_PAGE_SIZE + 1 :
    start + len <= Space /\ access_ok(VERIFY_WRITE, start, len) =>
      \A p \in RangePages(start, len) : Accessible(p, VERIFY_WRITE)

\* page_set_flags keeps PAGE_WRITE and PAGE_WRITE_ORG together, so that no check
\* ever takes the way into page_unprotect's invalidation, which is abort().
CheckNeverAborts ==
  \A start \in Addrs : page_check_range(start, 1, VERIFY_WRITE) # "abort"

Flag(p) == page_get_flags(p * TARGET_PAGE_SIZE)

\* The maximal runs of pages with equal flags.
IsRun(a, b) == /\ a <= b /\ Flag(a) # {} /\ \A p \in a .. b : Flag(p) = Flag(a)
               /\ a = 0 \/ Flag(a - 1) # Flag(a)
               /\ b = NPages - 1 \/ Flag(b + 1) # Flag(a)

\* The runs in ascending order, with the addresses that addr gives to pages.
RunsInOrder(addr(_)) ==
  LET runs == {r \in Pages \X Pages : IsRun(r[1], r[2])}
      before(r) == {q \in runs : q[1] < r[1]}
      nth(n) == CHOOSE r \in runs : Cardinality(before(r)) = n - 1
  IN  [n \in 1 .. Cardinality(runs) |->
         [start |-> addr(nth(n)[1]),
          end |-> IF nth(n)[2] = NPages - 1 THEN 0 ELSE addr(nth(n)[2] + 1),
          prot |-> Flag(nth(n)[1])]]

\* walk_memory_regions reports each maximal run of pages with equal flags once,
\* across leaves and past missing ones, in ascending order of pages, at the addresses
\* it takes the pages to have.
RegionsAreRuns == walk_memory_regions = RunsInOrder(ReportedAddr)

TrueAddr(page) == page * TARGET_PAGE_SIZE

\* The regions it reports are where the pages are.  (It does not hold: only the pages
\* under the first entry have the address that is reported for them.)
RegionsAreMaximalRuns == walk_memory_regions = RunsInOrder(TrueAddr)

\* target_strlen, which looks at one page at a time, returns the distance to the
\* terminator exactly if every page up to it is readable and the string is
\* shorter than half of the address space; it never looks at a page behind it.
StrlenIsExact ==
  \A addr, zero \in Addrs :
    addr <= zero =>
      target_strlen(addr, {zero}) =
        IF /\ \A p \in PageOf(addr) .. PageOf(zero) : Accessible(p, VERIFY_READ)
           /\ zero # 0 /\ zero - addr < Space \div 2
        THEN zero - addr ELSE EFAULT
=============================================================================
