---------------------------- MODULE SysMemProofs ----------------------------
(***************************************************************************)
(* The page flags tell the truth about brk's heap, attached segments and    *)
(* mappings, for every page size, size of the address space and of the      *)
(* table of segments, as long as the guest is careful.                     *)
(***************************************************************************)
EXTENDS SysMem, TLAPS, FiniteSetTheorems

(***************************************************************************)
(* Arithmetic                                                              *)
(***************************************************************************)

\* A non-empty set of naturals has a least element.
LEMMA HasLeast ==
  ASSUME NEW S \in SUBSET Nat, S # {}
  PROVE  First(S) \in S
<1>1. PICK x \in S : \A y \in S : ~ (<<y, x>> \in OpToRel(<, Nat))
  BY NatLessThanWellFounded, WFMin
<1>2. \A y \in S : ~ (y < x)
  BY <1>1 DEF OpToRel
<1>3. \E i \in S : \A j \in S : i <= j
  BY <1>2
<1> QED BY <1>3 DEF First

\* Multiples are ordered as their factors.
LEMMA Multiples ==
  ASSUME NEW x \in Int, NEW y \in Int, NEW m \in Nat \ {0}, x * m < y * m
  PROVE  x < y
<1>1. ASSUME y <= x PROVE FALSE
  <2>1. PICK d \in Nat : x = y + d
    BY <1>1
  <2>2. x * m = y * m + d * m
    BY <2>1
  <2>3. d * m >= 0
    OBVIOUS
  <2> QED BY <2>2, <2>3
<1> QED BY <1>1

\* Rounding up to pages: the number of pages that a bytes need.
LEMMA RoundUp ==
  ASSUME NEW a \in Nat, NEW c, c = PageAt(HOST_PAGE_ALIGN(a))
  PROVE  c \in Nat /\ a <= c * PageSize /\ c * PageSize < a + PageSize
<1>1. PageSize \in Nat \ {0}
  BY SysMemAssumption
<1>2. PICK q : q = (a + PageSize - 1) \div PageSize
  OBVIOUS
<1>3. q \in Nat /\ q * PageSize <= a + PageSize - 1 /\ a + PageSize - 1 < (q + 1) * PageSize
  BY <1>1, <1>2
<1>4. (q * PageSize) \div PageSize = q
  BY <1>1, <1>3
<1>5. c = q
  BY <1>2, <1>4 DEF PageAt, HOST_PAGE_ALIGN
<1>6. (q + 1) * PageSize = q * PageSize + PageSize
  BY <1>1, <1>3
<1> QED BY <1>1, <1>3, <1>5, <1>6

\* A heap that ends before a page border needs no page behind the border.
LEMMA PagesBelow ==
  ASSUME NEW a \in Nat, NEW k \in Nat, a <= k * PageSize
  PROVE  BrkPage(a) <= k
<1>1. PICK c : c = BrkPage(a)
  OBVIOUS
<1>2. PageSize \in Nat \ {0}
  BY SysMemAssumption
<1>3. c \in Nat /\ c * PageSize < a + PageSize
  BY <1>1, RoundUp DEF BrkPage
<1>4. (k + 1) * PageSize = k * PageSize + PageSize /\ k * PageSize \in Nat /\ c * PageSize \in Nat
  BY <1>2, <1>3
<1>5. c * PageSize < (k + 1) * PageSize
  BY <1>2, <1>3, <1>4
<1>6. c < k + 1
  BY <1>2, <1>3, <1>5, Multiples
<1> QED BY <1>1, <1>3, <1>6

\* Growing maps enough pages: len pages from start on, up to new_brk.
LEMMA GrowthIsEnough ==
  ASSUME NEW old \in Nat, NEW new_brk \in Nat, NEW start, NEW len, start = BrkPage(old),
         len = PageAt(HOST_PAGE_ALIGN(new_brk - start * PageSize + 1)), new_brk >= start * PageSize
  PROVE  start \in Nat /\ len \in Nat /\ BrkPage(new_brk) <= start + len
<1>1. PageSize \in Nat \ {0}
  BY SysMemAssumption
<1>2. start \in Nat
  BY RoundUp DEF BrkPage
<1>3. PICK a : a = new_brk - start * PageSize + 1
  OBVIOUS
<1>4. start * PageSize \in Nat /\ a \in Nat
  BY <1>1, <1>2, <1>3
<1>5. len \in Nat /\ a <= len * PageSize
  BY <1>3, <1>4, RoundUp
<1>6. (start + len) * PageSize = start * PageSize + len * PageSize /\ len * PageSize \in Nat
  BY <1>1, <1>2, <1>5
<1>7. new_brk <= (start + len) * PageSize
  BY <1>3, <1>4, <1>5, <1>6
<1>8. start + len \in Nat
  BY <1>2, <1>5
<1> QED BY <1>2, <1>5, <1>7, <1>8, PagesBelow

(***************************************************************************)
(* The invariant                                                           *)
(***************************************************************************)

HostPages == [kind : {"none", "anon", "heap", "shm"}, base : Nat, used : BOOLEAN]

\* What holds whatever the guest does ...
Types ==
  /\ target_brk \in Nat /\ BrkPage(target_brk) <= NP
  /\ flags \in [AllPages -> SUBSET {"VALID", "R", "W"}]
  /\ host \in [AllPages -> HostPages]
  /\ shm_regions \in [Entries -> [start : Nat, size : Nat]]
  /\ careful \in BOOLEAN

\* An entry of the table that is in use is one attached segment, and every attached
\* segment has its entry.
TableOK ==
  /\ \A i \in Entries : shm_regions[i].start # 0 =>
        /\ shm_regions[i].size # 0
        /\ shm_regions[i].start \in SegmentAt(shm_regions[i].start)
        /\ SegmentAt(shm_regions[i].start) = PageRange(shm_regions[i].start, shm_regions[i].size)
  /\ \A i, j \in Entries : shm_regions[i].start = shm_regions[j].start /\ shm_regions[i].start # 0 => i = j
  /\ \A p \in AllPages : host[p].kind = "shm" => \E i \in Entries : shm_regions[i].start = host[p].base /\ host[p].base # 0

\* The flags call a page valid exactly when it is mapped.
FlagsTrue == \A p \in AllPages : "VALID" \in flags[p] <=> host[p].kind # "none"

\* The pages of the heap belong to it and may be read and written.
HeapOwned == \A p \in HeapPages(target_brk) : host[p].kind = "heap"
HeapWritable == \A p \in HeapPages(target_brk) : RW \subseteq flags[p]

\* ... and what holds when it is careful.
Good == TableOK /\ FlagsTrue /\ HeapOwned /\ HeapWritable
IInv == Types /\ (careful => Good)

\* Sizes.
LEMMA Sizes ==
  /\ PageSize \in Nat \ {0} /\ NP \in Nat /\ HeapPage \in Nat \ {0} /\ HeapPage < NP
  /\ N_SHM_REGIONS \in Nat \ {0} /\ AllPages \subseteq Nat \ {0}
BY SysMemAssumption DEF AllPages

\* The pages of the heap are pages, and end with its last byte.
LEMMA HeapIsPages ==
  ASSUME target_brk \in Nat, BrkPage(target_brk) <= NP
  PROVE  HeapPages(target_brk) \subseteq AllPages /\ HeapPages(target_brk) = HeapPage .. BrkPage(target_brk) - 1
         /\ BrkPage(target_brk) \in Nat
<1>1. BrkPage(target_brk) \in Nat
  BY RoundUp DEF BrkPage
<1>2. HeapPages(target_brk) = HeapPage .. BrkPage(target_brk) - 1
  BY DEF HeapPages, BrkPage
<1>3. \A p \in HeapPage .. BrkPage(target_brk) - 1 : p \in 1 .. NP - 1
  BY <1>1, Sizes
<1> QED BY <1>1, <1>2, <1>3 DEF AllPages

\* The table is not disturbed by steps that neither attach nor detach.
LEMMA TableKept ==
  ASSUME TableOK, UNCHANGED shm_regions,
         \A p \in AllPages : (host[p].kind = "shm" \/ host'[p].kind = "shm") =>
            host'[p].kind = host[p].kind /\ host'[p].base = host[p].base
  PROVE  TableOK'
<1>1. \A a : SegmentAt(a)' = SegmentAt(a)
  BY DEF SegmentAt
<1> QED BY <1>1 DEF TableOK

\* What a call does to the pages it maps or unmaps, and to the others.
LEMMA Remap ==
  ASSUME NEW start, NEW len, NEW page \in HostPages, NEW new \in SUBSET {"VALID", "R", "W"}, Types,
         host' = HostMap(start, len, page), flags' = page_set_flags(flags, start, len, new)
  PROVE  /\ host' \in [AllPages -> HostPages] /\ flags' \in [AllPages -> SUBSET {"VALID", "R", "W"}]
         /\ \A p \in AllPages : p \in PageRange(start, len) => host'[p] = page /\ flags'[p] = new
         /\ \A p \in AllPages : p \notin PageRange(start, len) => host'[p] = host[p] /\ flags'[p] = flags[p]
BY DEF Types, HostMap, page_set_flags

\* The pages the kernel may be asked for.
LEMMA Pages ==
  /\ NoMapping \in HostPages /\ Anonymous \in HostPages /\ Heap \in HostPages
  /\ \A a \in Nat : Attached(a) \in HostPages
  /\ RW \in SUBSET {"VALID", "R", "W"}
BY DEF HostPages, NoMapping, Anonymous, Heap, Attached, RW

\* The step that HeapKeepsContents allows.
Kept ==
  \A p \in HeapPages(target_brk) \cap HeapPages(target_brk') :
    host[p].used /\ host'[p].kind = "heap" => host'[p].used

\* A call that takes nothing from the heap's pages but whole pages.
LEMMA HeapUntouched ==
  ASSUME Types, target_brk' = target_brk, careful' = careful,
         host' \in [AllPages -> HostPages], flags' \in [AllPages -> SUBSET {"VALID", "R", "W"}],
         shm_regions' \in [Entries -> [start : Nat, size : Nat]],
         \A p \in AllPages : host[p].used /\ host'[p].kind = "heap" => host'[p].used
  PROVE  Types' /\ Kept
<1>1. HeapPages(target_brk)' = HeapPages(target_brk) /\ BrkPage(target_brk)' = BrkPage(target_brk)
  BY DEF HeapPages, BrkPage, PageAt, HOST_PAGE_ALIGN
<1>2. Types'
  BY <1>1 DEF Types
<1>3. HeapPages(target_brk) \subseteq AllPages
  BY HeapIsPages DEF Types
<1> QED BY <1>2, <1>3 DEF Kept

\* brk within the pages the heap has: it ends on one of them.
LEMMA ShrinkStep ==
  ASSUME NEW new_brk \in Nat, Types, new_brk < BrkPage(target_brk) * PageSize,
         target_brk' = new_brk, UNCHANGED <<flags, host, shm_regions, careful>>
  PROVE  /\ Types' /\ Kept
         /\ HeapPages(target_brk)' \subseteq HeapPages(target_brk)
<1>1. target_brk \in Nat /\ BrkPage(target_brk) <= NP
  BY DEF Types
<1>2. /\ HeapPages(target_brk) \subseteq AllPages
      /\ HeapPages(target_brk) = HeapPage .. BrkPage(target_brk) - 1 /\ BrkPage(target_brk) \in Nat
  BY <1>1, HeapIsPages
<1>3. PICK k : k = BrkPage(target_brk)
  OBVIOUS
<1>4. k \in Nat /\ new_brk <= k * PageSize
  BY <1>2, <1>3, Sizes
<1>5. BrkPage(new_brk) <= k
  BY <1>4, PagesBelow
<1>6. BrkPage(new_brk) \in Nat
  BY RoundUp DEF BrkPage
<1>7. HeapPages(target_brk)' = HeapPage .. BrkPage(new_brk) - 1
  BY DEF HeapPages, BrkPage
<1>8. HeapPages(target_brk)' \subseteq HeapPages(target_brk)
  BY ONLY <1>2, <1>3, <1>4, <1>5, <1>6, <1>7, Sizes
<1>9. Types'
  <2>1. BrkPage(target_brk)' = BrkPage(new_brk)
    BY DEF BrkPage, PageAt, HOST_PAGE_ALIGN
  <2>2. BrkPage(new_brk) <= NP
    BY ONLY <1>1, <1>3, <1>4, <1>5, <1>6, Sizes
  <2> QED BY <2>1, <2>2 DEF Types
<1> QED BY <1>8, <1>9 DEF Kept

\* brk, when it maps new pages: they are behind the ones the heap has.
LEMMA GrowStep ==
  ASSUME NEW new_brk \in Nat, NEW start, NEW len, Types,
         start = BrkPage(target_brk), len = BrkGrowth(new_brk),
         new_brk >= start * PageSize, Fits(start, len),
         host' = HostMap(start, len, Heap), flags' = page_set_flags(flags, start, len, RW),
         target_brk' = new_brk, UNCHANGED <<shm_regions, careful>>
  PROVE  /\ Types' /\ Kept
         /\ \A p \in HeapPages(target_brk)' : p \in AllPages /\ (p \in PageRange(start, len) \/ p \in HeapPages(target_brk))
<1>1. /\ start \in Nat /\ len \in Nat /\ BrkPage(new_brk) <= start + len /\ start + len <= NP
      /\ target_brk \in Nat /\ BrkPage(target_brk) <= NP
  <2>1. target_brk \in Nat /\ BrkPage(target_brk) <= NP
    BY DEF Types
  <2> QED BY <2>1, GrowthIsEnough DEF Fits, BrkGrowth
<1>2. /\ HeapPages(target_brk) = HeapPage .. start - 1
      /\ HeapPages(target_brk) \subseteq AllPages
  BY <1>1, HeapIsPages
<1>3. BrkPage(new_brk) \in Nat /\ BrkPage(new_brk) <= NP
  BY <1>1, RoundUp, Sizes DEF BrkPage
<1>4. HeapPages(target_brk)' = HeapPage .. BrkPage(new_brk) - 1
  BY DEF HeapPages, BrkPage
<1>5. /\ \A p \in AllPages : p \notin PageRange(start, len) => host'[p] = host[p]
      /\ host' \in [AllPages -> HostPages] /\ flags' \in [AllPages -> SUBSET {"VALID", "R", "W"}]
  BY Remap, Pages
<1>6. \A p \in HeapPages(target_brk) : p \notin PageRange(start, len)
  BY <1>1, <1>2, Sizes DEF PageRange
<1>7. Types'
  <2>1. BrkPage(target_brk)' = BrkPage(new_brk)
    BY DEF BrkPage, PageAt, HOST_PAGE_ALIGN
  <2> QED BY <1>3, <1>5, <2>1 DEF Types
<1>8. ASSUME NEW p \in HeapPage .. BrkPage(new_brk) - 1
      PROVE  p \in AllPages /\ (p \in PageRange(start, len) \/ p \in HeapPages(target_brk))
  <2>1. p \in AllPages /\ p \in Int
    BY <1>3, Sizes DEF AllPages
  <2>2. CASE p \notin PageRange(start, len)
    BY <1>1, <1>2, <1>3, <2>1, <2>2, Sizes, SMTT(30) DEF PageRange
  <2> QED BY <2>1, <2>2
<1>9. Kept
  BY <1>2, <1>5, <1>6 DEF Kept
<1> QED BY <1>4, <1>7, <1>8, <1>9

(***************************************************************************)
(* The heap, whatever the guest does                                       *)
(***************************************************************************)

\* A step that changes nothing the invariants speak of.
LEMMA Idle ==
  ASSUME Types, UNCHANGED <<target_brk, flags, host, shm_regions, careful>>
  PROVE  Types' /\ Kept
BY HeapUntouched DEF Types

\* brk, whatever it is asked for.
LEMMA BrkTypes ==
  ASSUME NEW new_brk \in Nat, Types, do_brk(new_brk)
  PROVE  Types' /\ Kept
<1>0. UNCHANGED <<shm_regions, careful>>
  BY DEF do_brk, Call
<1>1. CASE UNCHANGED <<target_brk, flags, host>>
  BY <1>0, <1>1, Idle
<1>2. CASE /\ new_brk < BrkPage(target_brk) * PageSize
           /\ target_brk' = new_brk /\ UNCHANGED <<flags, host>>
  BY <1>0, <1>2, ShrinkStep
<1>3. CASE /\ new_brk >= BrkPage(target_brk) * PageSize
           /\ Fits(BrkPage(target_brk), BrkGrowth(new_brk))
           /\ host' = HostMap(BrkPage(target_brk), BrkGrowth(new_brk), Heap)
           /\ flags' = page_set_flags(flags, BrkPage(target_brk), BrkGrowth(new_brk), RW)
           /\ target_brk' = new_brk
  <2>1. PICK start, len : start = BrkPage(target_brk) /\ len = BrkGrowth(new_brk)
    OBVIOUS
  <2> QED BY <1>0, <1>3, <2>1, GrowStep
<1> QED BY <1>1, <1>2, <1>3 DEF do_brk

\* A call that maps or unmaps pages, none of them for the heap.
LEMMA RemapTypes ==
  ASSUME NEW start, NEW len, NEW page \in HostPages, NEW new \in SUBSET {"VALID", "R", "W"}, Types,
         page.kind # "heap", UNCHANGED <<target_brk, careful>>,
         shm_regions' \in [Entries -> [start : Nat, size : Nat]],
         host' = HostMap(start, len, page), flags' = page_set_flags(flags, start, len, new)
  PROVE  Types' /\ Kept
<1>1. /\ host' \in [AllPages -> HostPages] /\ flags' \in [AllPages -> SUBSET {"VALID", "R", "W"}]
      /\ \A p \in AllPages : p \in PageRange(start, len) => host'[p] = page
      /\ \A p \in AllPages : p \notin PageRange(start, len) => host'[p] = host[p]
  BY Remap
<1>2. \A p \in AllPages : host[p].used /\ host'[p].kind = "heap" => host'[p].used
  BY <1>1
<1> QED BY <1>1, <1>2, HeapUntouched

\* Attaching maps a segment.
LEMMA ShmatTypes ==
  ASSUME NEW seg \in DOMAIN Segments, NEW rights \in {{}, {"W"}}, Types, do_shmat(seg, rights)
  PROVE  Types' /\ Kept
<1>0. UNCHANGED <<target_brk, careful>>
  BY DEF do_shmat, Call
<1>1. CASE UNCHANGED <<host, flags, shm_regions>>
  BY <1>0, <1>1, Idle
<1>2. ASSUME NEW addr \in AllPages, NEW len, len = Segments[seg],
             host' = HostMap(addr, len, Attached(addr)),
             flags' = page_set_flags(flags, addr, len, {"VALID", "R"} \cup rights),
             shm_regions' = Recorded(addr, len)
      PROVE  Types' /\ Kept
  <2>1. addr \in Nat /\ len \in Nat
    BY <1>2, Sizes, SysMemAssumption
  <2>2. PICK page, new : page = Attached(addr) /\ new = {"VALID", "R"} \cup rights
    OBVIOUS
  <2>3. page \in HostPages /\ page.kind # "heap" /\ new \in SUBSET {"VALID", "R", "W"}
    BY <2>1, <2>2, Pages DEF Attached
  <2>4. shm_regions' \in [Entries -> [start : Nat, size : Nat]]
    BY <1>2, <2>1 DEF Recorded, Types
  <2> QED BY <1>0, <1>2, <2>2, <2>3, <2>4, RemapTypes
<1> QED BY <1>1, <1>2 DEF do_shmat

\* Detaching unmaps pages of a segment.
LEMMA ShmdtTypes ==
  ASSUME NEW addr, Types, do_shmdt(addr)
  PROVE  Types' /\ Kept
<1>1. host' \in [AllPages -> HostPages]
  BY Pages DEF do_shmdt, Types, KernelDetached
<1>2. flags' \in [AllPages -> SUBSET {"VALID", "R", "W"}]
  BY DEF do_shmdt, Types, page_set_flags
<1>3. shm_regions' \in [Entries -> [start : Nat, size : Nat]]
  BY DEF do_shmdt, Types
<1>4. \A p \in AllPages : host[p].used /\ host'[p].kind = "heap" => host'[p].used
  BY DEF do_shmdt, Types, KernelDetached, NoMapping
<1>5. target_brk' = target_brk /\ careful' = careful
  BY DEF do_shmdt, Call
<1> QED BY <1>1, <1>2, <1>3, <1>4, <1>5, HeapUntouched

\* mmap maps anonymous memory, over the heap if it is asked to.
LEMMA MmapTypes ==
  ASSUME NEW start, NEW len, NEW rights \in {{}, {"R", "W"}}, Types, target_mmap(start, len, rights)
  PROVE  Types' /\ Kept
<1>1. PICK page, new : page = Anonymous /\ new = {"VALID"} \cup rights
  OBVIOUS
<1>2. page \in HostPages /\ page.kind # "heap" /\ new \in SUBSET {"VALID", "R", "W"}
  BY <1>1, Pages DEF Anonymous
<1>3. /\ UNCHANGED <<target_brk, careful>> /\ shm_regions' \in [Entries -> [start : Nat, size : Nat]]
      /\ host' = HostMap(start, len, page) /\ flags' = page_set_flags(flags, start, len, new)
  BY <1>1 DEF target_mmap, Call, Types
<1> QED BY <1>2, <1>3, RemapTypes

\* munmap leaves nothing.
LEMMA MunmapTypes ==
  ASSUME NEW start, NEW len, Types, target_munmap(start, len)
  PROVE  Types' /\ Kept
<1>1. PICK page, new : page = NoMapping /\ new = {}
  OBVIOUS
<1>2. page \in HostPages /\ page.kind # "heap" /\ new \in SUBSET {"VALID", "R", "W"}
  BY <1>1, Pages DEF NoMapping
<1>3. /\ UNCHANGED <<target_brk, careful>> /\ shm_regions' \in [Entries -> [start : Nat, size : Nat]]
      /\ host' = HostMap(start, len, page) /\ flags' = page_set_flags(flags, start, len, new)
  BY <1>1 DEF target_munmap, Call, Types
<1> QED BY <1>2, <1>3, RemapTypes

\* A store marks its page.
LEMMA StoreTypes ==
  ASSUME NEW p \in AllPages, Types, GuestStore(p)
  PROVE  Types' /\ Kept
<1>1. host' \in [AllPages -> HostPages]
  BY DEF GuestStore, Types, HostPages
<1>2. \A q \in AllPages : host[q].used => host'[q].used
  BY DEF GuestStore, Types, HostPages
<1> QED BY <1>1, <1>2, HeapUntouched DEF GuestStore, Types

\* Every step.
LEMMA TypesStep ==
  ASSUME Types, [Next]_vars
  PROVE  Types' /\ Kept
<1>1. CASE UNCHANGED vars
  BY <1>1, Idle DEF vars
<1>2. CASE Next
  <2>1. \A new_brk \in 0 .. NP * PageSize - 1 : new_brk \in Nat
    BY Sizes
  <2> QED BY <1>2, <2>1, BrkTypes, ShmatTypes, ShmdtTypes, MmapTypes, MunmapTypes, StoreTypes DEF Next
<1> QED BY <1>1, <1>2

\* At the start the heap is empty.
LEMMA EmptyHeap == Init => Types /\ HeapPages(target_brk) = {}
<1> SUFFICES ASSUME Init PROVE Types /\ HeapPages(target_brk) = {}
  OBVIOUS
<1>1. PICK c : c = BrkPage(target_brk)
  OBVIOUS
<1>2. target_brk = HeapPage * PageSize /\ target_brk \in Nat
  BY Sizes DEF Init, target_original_brk
<1>3. c \in Nat /\ c <= HeapPage
  BY <1>1, <1>2, Sizes, PagesBelow, RoundUp DEF BrkPage
<1>4. HeapPages(target_brk) = {}
  BY <1>1, <1>3, Sizes DEF HeapPages, BrkPage
<1>5. Types
  BY <1>1, <1>2, <1>3, Sizes, Pages DEF Init, Types, RW
<1> QED BY <1>4, <1>5

\* No call, of a careful guest or another, takes away what the guest has stored in
\* the part of the heap that it keeps and has not mapped otherwise, whatever the page
\* size and the bytes at which the heap ended before: do_brk maps from the page
\* behind the old end.
THEOREM HeapContentsKept == Spec => HeapKeepsContents
<1>1. Init => Types
  BY EmptyHeap
<1>2. Types /\ [Next]_vars => Types'
  BY TypesStep
<1>3. Types /\ [Next]_vars => [Kept]_vars
  BY TypesStep
<1> QED BY <1>1, <1>2, <1>3, PTL DEF Spec, HeapKeepsContents, Kept

(***************************************************************************)
(* The flags and the table, when the guest is careful                      *)
(***************************************************************************)

\* The heap's pages are pages.
LEMMA HeapPagesFacts ==
  ASSUME Types, HeapOwned
  PROVE  \A p \in HeapPages(target_brk) : p \in AllPages /\ host[p].kind = "heap"
BY HeapIsPages DEF Types, HeapOwned

\* The heap stays as it is where neither it nor its flags change.
LEMMA HeapKept ==
  ASSUME HeapOwned, HeapWritable, target_brk' = target_brk,
         \A p \in HeapPages(target_brk) : flags'[p] = flags[p] /\ host'[p].kind = host[p].kind
  PROVE  HeapOwned' /\ HeapWritable'
<1>1. HeapPages(target_brk)' = HeapPages(target_brk)
  BY DEF HeapPages
<1> QED BY <1>1 DEF HeapOwned, HeapWritable

\* brk.
LEMMA BrkCareful ==
  ASSUME NEW new_brk \in Nat, Types, Good, careful, do_brk(new_brk)
  PROVE  Good'
<1>1. TableOK /\ FlagsTrue /\ HeapOwned /\ HeapWritable /\ UNCHANGED <<shm_regions, careful>>
  BY DEF do_brk, Call, Good
<1>2. CASE UNCHANGED <<target_brk, flags, host>>
  <2>1. TableOK'
    BY <1>1, <1>2, TableKept
  <2>2. HeapOwned' /\ HeapWritable'
    BY <1>1, <1>2, HeapKept
  <2> QED BY <1>1, <1>2, <2>1, <2>2 DEF FlagsTrue, Good
<1>3. CASE /\ new_brk < BrkPage(target_brk) * PageSize
           /\ target_brk' = new_brk /\ UNCHANGED <<flags, host>>
  <2>1. TableOK'
    BY <1>1, <1>3, TableKept
  <2>2. HeapPages(target_brk)' \subseteq HeapPages(target_brk)
    BY <1>1, <1>3, ShrinkStep
  <2> QED BY <1>1, <1>3, <2>1, <2>2 DEF FlagsTrue, HeapOwned, HeapWritable, Good
<1>4. CASE /\ new_brk >= BrkPage(target_brk) * PageSize
           /\ Fits(BrkPage(target_brk), BrkGrowth(new_brk))
           /\ \A p \in PageRange(BrkPage(target_brk), BrkGrowth(new_brk)) : host[p].kind \in {"none", "heap"}
           /\ host' = HostMap(BrkPage(target_brk), BrkGrowth(new_brk), Heap)
           /\ flags' = page_set_flags(flags, BrkPage(target_brk), BrkGrowth(new_brk), RW)
           /\ target_brk' = new_brk
  <2>1. PICK start, len : start = BrkPage(target_brk) /\ len = BrkGrowth(new_brk)
    OBVIOUS
  <2>2. \A p \in HeapPages(target_brk)' : p \in AllPages /\ (p \in PageRange(start, len) \/ p \in HeapPages(target_brk))
    BY <1>1, <1>4, <2>1, GrowStep
  <2>3. /\ \A p \in AllPages : p \in PageRange(start, len) => host'[p] = Heap /\ flags'[p] = RW
        /\ \A p \in AllPages : p \notin PageRange(start, len) => host'[p] = host[p] /\ flags'[p] = flags[p]
    BY <1>1, <1>4, <2>1, Remap, Pages
  <2>4. \A p \in AllPages : (host[p].kind = "shm" \/ host'[p].kind = "shm") => host'[p] = host[p]
    BY <1>4, <2>1, <2>3 DEF Heap
  <2>5. TableOK'
    BY <1>1, <2>4, TableKept
  <2>6. FlagsTrue'
    BY <1>1, <2>3 DEF FlagsTrue, Heap, RW
  <2>7. ASSUME NEW p \in HeapPages(target_brk)'
        PROVE  RW \subseteq flags'[p] /\ host'[p].kind = "heap"
    <3>1. Heap.kind = "heap"
      BY DEF Heap
    <3> QED BY <1>1, <2>2, <2>3, <3>1 DEF HeapOwned, HeapWritable
  <2>8. HeapOwned' /\ HeapWritable'
    BY <2>7 DEF HeapOwned, HeapWritable
  <2> QED BY <2>5, <2>6, <2>8 DEF Good
<1> QED BY <1>2, <1>3, <1>4 DEF do_brk, IfCareful

\* A table that is full has as many segments attached as it has entries.
LEMMA FullTable ==
  ASSUME Types, TableOK, FreeEntries = {}
  PROVE  ~ (Cardinality(Attachments) < N_SHM_REGIONS)
<1>1. PICK A : A = Attachments
  OBVIOUS
<1>2. \A i \in Entries : shm_regions[i].start # 0 /\ shm_regions[i].start \in A
  <2> TAKE i \in Entries
  <2>1. shm_regions[i].start # 0
    BY DEF FreeEntries
  <2>2. shm_regions[i].start \in SegmentAt(shm_regions[i].start)
    BY <2>1 DEF TableOK
  <2> QED BY <1>1, <2>1, <2>2 DEF SegmentAt, Attachments
<1>3. A \subseteq AllPages
  <2> SUFFICES ASSUME NEW p \in AllPages, host[p].kind = "shm" PROVE host[p].base \in AllPages
    BY <1>1 DEF Attachments
  <2>1. PICK i \in Entries : shm_regions[i].start = host[p].base /\ host[p].base # 0
    BY DEF TableOK
  <2>2. shm_regions[i].start \in SegmentAt(shm_regions[i].start)
    BY <2>1 DEF TableOK
  <2> QED BY <2>1, <2>2 DEF SegmentAt
<1>4. IsFiniteSet(A)
  <2>1. IsFiniteSet(AllPages)
    BY FS_Interval, Sizes DEF AllPages
  <2> QED BY <1>3, <2>1, FS_Subset
<1>5. PICK f : f = [i \in Entries |-> shm_regions[i].start]
  OBVIOUS
<1>6. f \in Injection(Entries, A)
  <2>1. f \in [Entries -> A]
    BY <1>2, <1>5
  <2>2. \A i, j \in Entries : f[i] = f[j] => i = j
    BY <1>2, <1>5 DEF TableOK
  <2> QED BY <2>1, <2>2 DEF Injection, IsInjective
<1>7. Cardinality(Entries) <= Cardinality(A)
  BY <1>4, <1>6, FS_Injection
<1>8. Cardinality(Entries) = N_SHM_REGIONS
  BY FS_Interval, Sizes DEF Entries
<1>9. Cardinality(A) \in Nat
  BY <1>4, FS_CardinalityType
<1> QED BY <1>1, <1>7, <1>8, <1>9, Sizes

\* Attaching: the segment gets pages that were free, and an entry of its own.
LEMMA AttachCareful ==
  ASSUME NEW addr \in AllPages, NEW len \in Nat \ {0}, NEW rights \in {{}, {"W"}},
         Types, Good, FreeEntries # {}, IsFree(addr, len), target_brk' = target_brk,
         host' = HostMap(addr, len, Attached(addr)),
         flags' = page_set_flags(flags, addr, len, {"VALID", "R"} \cup rights),
         shm_regions' = Recorded(addr, len)
  PROVE  Good'
<1>1. TableOK /\ FlagsTrue /\ HeapOwned /\ HeapWritable
  BY DEF Good
<1>2. addr \in Nat \ {0} /\ Attached(addr) \in HostPages
  BY Sizes, Pages
<1>3. PICK new : new = {"VALID", "R"} \cup rights
  OBVIOUS
<1>4. new \in SUBSET {"VALID", "R", "W"} /\ "VALID" \in new
  BY <1>3
<1>5. /\ \A p \in AllPages : p \in PageRange(addr, len) =>
             host'[p].kind = "shm" /\ host'[p].base = addr /\ flags'[p] = new
      /\ \A p \in AllPages : p \notin PageRange(addr, len) => host'[p] = host[p] /\ flags'[p] = flags[p]
  <2>1. PICK page : page = Attached(addr)
    OBVIOUS
  <2>2. page \in HostPages /\ page.kind = "shm" /\ page.base = addr
    BY <1>2, <2>1 DEF Attached
  <2>3. /\ \A p \in AllPages : p \in PageRange(addr, len) => host'[p] = page /\ flags'[p] = new
        /\ \A p \in AllPages : p \notin PageRange(addr, len) => host'[p] = host[p] /\ flags'[p] = flags[p]
    BY <1>1, <1>2, <1>3, <1>4, <2>1, <2>2, Remap, SMTT(30)
  <2> QED BY ONLY <2>2, <2>3
<1>6. /\ PageRange(addr, len) \subseteq AllPages /\ addr \in PageRange(addr, len)
      /\ \A p \in PageRange(addr, len) : host[p].kind = "none"
  <2>1. addr + len <= NP
    BY DEF IsFree, Fits
  <2> QED BY <1>2, <2>1, Sizes DEF IsFree, PageRange, AllPages
<1>7. \A i \in Entries : shm_regions[i].start # addr
  <2> SUFFICES ASSUME NEW i \in Entries, shm_regions[i].start = addr PROVE FALSE
    OBVIOUS
  <2>1. addr \in SegmentAt(addr)
    BY <1>1, <1>2 DEF TableOK
  <2> QED BY <1>6, <2>1 DEF SegmentAt
<1>8. SegmentAt(addr) = {}
  <2> SUFFICES ASSUME NEW p \in AllPages, host[p].kind = "shm", host[p].base = addr PROVE FALSE
    BY DEF SegmentAt
  <2> QED BY <1>1, <1>7 DEF TableOK
<1>9. /\ \A a : a # addr => SegmentAt(a)' = SegmentAt(a)
      /\ SegmentAt(addr)' = PageRange(addr, len)
  <2>1. ASSUME NEW a, a # addr PROVE SegmentAt(a)' = SegmentAt(a)
    <3>1. \A p \in AllPages : (host'[p].kind = "shm" /\ host'[p].base = a) <=> (host[p].kind = "shm" /\ host[p].base = a)
      BY <1>5, <1>6, <2>1
    <3> QED BY <3>1 DEF SegmentAt
  <2>2. \A p \in AllPages : (host'[p].kind = "shm" /\ host'[p].base = addr) <=> p \in PageRange(addr, len)
    BY <1>5, <1>8 DEF SegmentAt
  <2>3. SegmentAt(addr)' = PageRange(addr, len)
    BY <1>6, <2>2 DEF SegmentAt
  <2> QED BY <2>1, <2>3
<1>10. PICK k \in Entries : /\ shm_regions[k].start = 0
                            /\ shm_regions' = [shm_regions EXCEPT ![k] = [start |-> addr, size |-> len]]
  <2>1. FreeEntries \in SUBSET Nat
    BY Sizes DEF FreeEntries, Entries
  <2>2. First(FreeEntries) \in FreeEntries
    BY <2>1, HasLeast
  <2> QED BY <2>2 DEF Recorded, FreeEntries
<1>11. /\ shm_regions'[k].start = addr /\ shm_regions'[k].size = len
       /\ \A i \in Entries : i # k => shm_regions'[i] = shm_regions[i]
  BY <1>1, <1>10 DEF Types
<1>12. TableOK'
  <2>1. ASSUME NEW i \in Entries, shm_regions'[i].start # 0
        PROVE  /\ shm_regions'[i].size # 0
               /\ shm_regions'[i].start \in SegmentAt(shm_regions[i].start)'
               /\ SegmentAt(shm_regions[i].start)' = PageRange(shm_regions'[i].start, shm_regions'[i].size)
    <3>1. PICK a, z : a = shm_regions'[i].start /\ z = shm_regions'[i].size
      OBVIOUS
    <3>2. z # 0 /\ a \in SegmentAt(a)' /\ SegmentAt(a)' = PageRange(a, z)
      <4>1. CASE i = k
        BY <1>6, <1>9, <1>11, <3>1, <4>1
      <4>2. CASE i # k
        <5>1. a = shm_regions[i].start /\ z = shm_regions[i].size
          BY <1>11, <3>1, <4>2
        <5>2. a # addr /\ a # 0
          BY <1>7, <2>1, <3>1, <5>1
        <5>3. z # 0 /\ a \in SegmentAt(a) /\ SegmentAt(a) = PageRange(a, z)
          BY <1>1, <5>1, <5>2 DEF TableOK
        <5> QED BY <1>9, <5>2, <5>3
      <4> QED BY <4>1, <4>2
    <3> QED BY <3>1, <3>2 DEF SegmentAt
  <2>2. \A i, j \in Entries : shm_regions'[i].start = shm_regions'[j].start /\ shm_regions'[i].start # 0 => i = j
    BY <1>1, <1>7, <1>11 DEF TableOK
  <2>3. ASSUME NEW p \in AllPages, host'[p].kind = "shm"
        PROVE  \E i \in Entries : shm_regions'[i].start = host'[p].base /\ host'[p].base # 0
    <3>1. CASE p \in PageRange(addr, len)
      BY <1>2, <1>5, <1>10, <1>11, <3>1
    <3>2. CASE p \notin PageRange(addr, len)
      <4>1. host'[p] = host[p]
        BY <1>5, <3>2
      <4>2. PICK i \in Entries : shm_regions[i].start = host[p].base /\ host[p].base # 0
        BY <1>1, <2>3, <4>1 DEF TableOK
      <4> QED BY <1>10, <1>11, <4>1, <4>2
    <3> QED BY <3>1, <3>2
  <2> QED BY <2>1, <2>2, <2>3 DEF TableOK
<1>13. FlagsTrue'
  BY <1>1, <1>4, <1>5, ZenonT(30) DEF FlagsTrue
<1>14. HeapOwned' /\ HeapWritable'
  <2>1. \A p \in HeapPages(target_brk) : flags'[p] = flags[p] /\ host'[p].kind = host[p].kind
    BY <1>1, <1>5, <1>6, HeapPagesFacts
  <2> QED BY <1>1, <2>1, HeapKept
<1> QED BY <1>12, <1>13, <1>14 DEF Good

\* shmat: a careful guest never meets a full table.
LEMMA ShmatCareful ==
  ASSUME NEW seg \in DOMAIN Segments, NEW rights \in {{}, {"W"}}, Types, Good, careful, do_shmat(seg, rights)
  PROVE  Good'
<1>1. TableOK /\ FlagsTrue /\ HeapOwned /\ HeapWritable
  BY DEF Good
<1>2. FreeEntries # {}
  BY <1>1, FullTable DEF do_shmat, IfCareful
<1>3. target_brk' = target_brk /\ Segments[seg] \in Nat \ {0}
  BY SysMemAssumption DEF do_shmat
<1>4. CASE UNCHANGED <<host, flags, shm_regions>>
  <2>1. TableOK'
    BY <1>1, <1>4, TableKept
  <2>2. HeapOwned' /\ HeapWritable'
    BY <1>1, <1>3, <1>4, HeapKept
  <2> QED BY <1>1, <1>4, <2>1, <2>2 DEF FlagsTrue, Good
<1> QED BY <1>2, <1>3, <1>4, AttachCareful DEF do_shmat, IfCareful

\* shmdt: the entry of the address and the pages of the segment go together.
LEMMA ShmdtCareful ==
  ASSUME NEW addr \in {0} \cup AllPages, Types, Good, careful, do_shmdt(addr)
  PROVE  Good'
<1>1. TableOK /\ FlagsTrue /\ HeapOwned /\ HeapWritable /\ target_brk' = target_brk /\ addr # 0
  BY DEF do_shmdt, Good, IfCareful
<1>2. PICK known : known = {i \in Entries : shm_regions[i].start = addr}
  OBVIOUS
<1>3. \A k \in known : shm_regions[k].start = addr /\ shm_regions[k].size # 0
  BY <1>1, <1>2 DEF TableOK
<1>4. CASE known = {}
  <2>1. SegmentAt(addr) = {}
    <3> SUFFICES ASSUME NEW p \in AllPages, host[p].kind = "shm", host[p].base = addr PROVE FALSE
      BY DEF SegmentAt
    <3> QED BY <1>1, <1>2, <1>4 DEF TableOK
  <2>2. host' = KernelDetached(addr) /\ UNCHANGED <<flags, shm_regions>>
    BY <1>2, <1>4 DEF do_shmdt
  <2>3. \A p \in AllPages : host'[p] = host[p]
    BY <2>1, <2>2 DEF KernelDetached
  <2>4. TableOK'
    BY <1>1, <2>2, <2>3, TableKept
  <2>5. FlagsTrue'
    BY <1>1, <2>2, <2>3 DEF FlagsTrue
  <2>6. HeapOwned' /\ HeapWritable'
    BY <1>1, <2>2, <2>3, HeapPagesFacts, HeapKept
  <2> QED BY <2>4, <2>5, <2>6 DEF Good
<1>5. CASE known # {}
  <2>1. PICK k, z : k = First(known) /\ z = shm_regions[k].size
    OBVIOUS
  <2>2. k \in known /\ k \in Entries /\ shm_regions[k].start = addr /\ z # 0
    <3>1. known \in SUBSET Nat
      BY <1>2, Sizes DEF Entries
    <3>2. First(known) \in known
      BY <1>5, <3>1, HasLeast
    <3> QED BY <1>2, <1>3, <2>1, <3>2
  <2>3. /\ shm_regions' = [shm_regions EXCEPT ![k].start = 0]
        /\ flags' = page_set_flags(flags, addr, z, {})
        /\ host' = KernelDetached(addr)
    BY <1>2, <1>5, <2>1, <2>2 DEF do_shmdt
  <2>4. SegmentAt(addr) = PageRange(addr, z)
    BY <1>1, <2>1, <2>2 DEF TableOK
  <2>6. /\ \A p \in AllPages : p \in SegmentAt(addr) => host'[p].kind = "none" /\ flags'[p] = {}
        /\ \A p \in AllPages : p \notin SegmentAt(addr) => host'[p] = host[p] /\ flags'[p] = flags[p]
    BY <2>3, <2>4 DEF page_set_flags, NoMapping, KernelDetached
  <2>7. /\ shm_regions'[k].start = 0
        /\ \A i \in Entries : i # k => shm_regions'[i] = shm_regions[i]
    BY <2>2, <2>3 DEF Types
  <2>8. \A i \in Entries : i # k => shm_regions[i].start # addr
    BY <1>1, <2>2 DEF TableOK
  <2>9. \A a : a # addr => SegmentAt(a)' = SegmentAt(a)
    <3> SUFFICES ASSUME NEW a, a # addr PROVE SegmentAt(a)' = SegmentAt(a)
      OBVIOUS
    <3>1. \A p \in AllPages : (host'[p].kind = "shm" /\ host'[p].base = a) <=> (host[p].kind = "shm" /\ host[p].base = a)
      BY <2>6 DEF SegmentAt
    <3> QED BY <3>1 DEF SegmentAt
  <2>10. TableOK'
    <3>1. ASSUME NEW i \in Entries, shm_regions'[i].start # 0
          PROVE  /\ shm_regions'[i].size # 0
                 /\ shm_regions'[i].start \in SegmentAt(shm_regions[i].start)'
                 /\ SegmentAt(shm_regions[i].start)' = PageRange(shm_regions'[i].start, shm_regions'[i].size)
      <4>1. i # k /\ shm_regions'[i] = shm_regions[i]
        BY <2>7, <3>1
      <4>2. PICK a, y : a = shm_regions[i].start /\ y = shm_regions[i].size
        OBVIOUS
      <4>3. y # 0 /\ a # 0 /\ a # addr /\ a \in SegmentAt(a) /\ SegmentAt(a) = PageRange(a, y)
        BY <1>1, <2>8, <3>1, <4>1, <4>2 DEF TableOK
      <4>4. a \in SegmentAt(a)' /\ SegmentAt(a)' = PageRange(a, y)
        BY <2>9, <4>3
      <4> QED BY <4>1, <4>2, <4>3, <4>4 DEF SegmentAt
    <3>2. \A i, j \in Entries : shm_regions'[i].start = shm_regions'[j].start /\ shm_regions'[i].start # 0 => i = j
      BY <1>1, <2>7 DEF TableOK
    <3>3. ASSUME NEW p \in AllPages, host'[p].kind = "shm"
          PROVE  \E i \in Entries : shm_regions'[i].start = host'[p].base /\ host'[p].base # 0
      <4>1. p \notin SegmentAt(addr) /\ host'[p] = host[p]
        BY <2>6, <3>3
      <4>2. host[p].base # addr
        BY <3>3, <4>1 DEF SegmentAt
      <4>3. PICK i \in Entries : shm_regions[i].start = host[p].base /\ host[p].base # 0
        BY <1>1, <3>3, <4>1 DEF TableOK
      <4>4. i # k
        BY <2>2, <4>2, <4>3
      <4> QED BY <2>7, <4>1, <4>3, <4>4
    <3> QED BY <3>1, <3>2, <3>3 DEF TableOK
  <2>11. FlagsTrue'
    BY <1>1, <2>6 DEF FlagsTrue
  <2>12. HeapOwned' /\ HeapWritable'
    <3>1. \A p \in HeapPages(target_brk) : flags'[p] = flags[p] /\ host'[p].kind = host[p].kind
      BY <1>1, <2>6, HeapPagesFacts DEF SegmentAt
    <3> QED BY <1>1, <3>1, HeapKept
  <2> QED BY <2>10, <2>11, <2>12 DEF Good
<1> QED BY <1>4, <1>5

\* mmap of free pages.
LEMMA MmapCareful ==
  ASSUME NEW start, NEW len, NEW rights \in {{}, {"R", "W"}}, Types, Good, careful,
         target_mmap(start, len, rights)
  PROVE  Good'
<1>1. TableOK /\ FlagsTrue /\ HeapOwned /\ HeapWritable /\ UNCHANGED <<target_brk, shm_regions>>
  BY DEF Good, target_mmap
<1>2. /\ \A p \in AllPages : p \in PageRange(start, len) =>
             host'[p].kind = "anon" /\ "VALID" \in flags'[p] /\ host[p].kind = "none"
      /\ \A p \in AllPages : p \notin PageRange(start, len) => host'[p] = host[p] /\ flags'[p] = flags[p]
  <2>1. PICK page, new : page = Anonymous /\ new = {"VALID"} \cup rights
    OBVIOUS
  <2>2. page \in HostPages /\ page.kind = "anon" /\ new \in SUBSET {"VALID", "R", "W"} /\ "VALID" \in new
    BY <2>1, Pages DEF Anonymous
  <2>3. /\ \A p \in AllPages : p \in PageRange(start, len) => host'[p] = page /\ flags'[p] = new
        /\ \A p \in AllPages : p \notin PageRange(start, len) => host'[p] = host[p] /\ flags'[p] = flags[p]
    <3>1. host' = HostMap(start, len, page) /\ flags' = page_set_flags(flags, start, len, new)
      BY <2>1 DEF target_mmap
    <3> QED BY <2>2, <3>1, Remap
  <2> QED BY <2>2, <2>3 DEF target_mmap, IsFree, IfCareful
<1>3. TableOK'
  BY <1>1, <1>2, TableKept
<1>4. FlagsTrue'
  BY <1>1, <1>2 DEF FlagsTrue
<1>5. \A p \in HeapPages(target_brk) : flags'[p] = flags[p] /\ host'[p].kind = host[p].kind
  BY <1>1, <1>2, HeapPagesFacts
<1> QED BY <1>1, <1>3, <1>4, <1>5, HeapKept DEF Good

\* munmap: a careful guest has neither its heap nor a segment there.
LEMMA MunmapCareful ==
  ASSUME NEW start, NEW len, Types, Good, careful, target_munmap(start, len)
  PROVE  Good'
<1>1. TableOK /\ FlagsTrue /\ HeapOwned /\ HeapWritable /\ UNCHANGED <<target_brk, shm_regions>>
  BY DEF Good, target_munmap
<1>2. /\ \A p \in AllPages : p \in PageRange(start, len) =>
             host'[p].kind = "none" /\ flags'[p] = {} /\ host[p].kind # "shm" /\ p \notin HeapPages(target_brk)
      /\ \A p \in AllPages : p \notin PageRange(start, len) => host'[p] = host[p] /\ flags'[p] = flags[p]
  <2>1. PICK page, new : page = NoMapping /\ new = {}
    OBVIOUS
  <2>2. page \in HostPages /\ page.kind = "none" /\ new \in SUBSET {"VALID", "R", "W"}
    BY <2>1, Pages DEF NoMapping
  <2>3. /\ \A p \in AllPages : p \in PageRange(start, len) => host'[p] = page /\ flags'[p] = new
        /\ \A p \in AllPages : p \notin PageRange(start, len) => host'[p] = host[p] /\ flags'[p] = flags[p]
    BY <2>1, <2>2, Remap DEF target_munmap
  <2> QED BY <2>1, <2>2, <2>3 DEF target_munmap, IfCareful
<1>3. TableOK'
  BY <1>1, <1>2, TableKept
<1>4. FlagsTrue'
  BY <1>1, <1>2 DEF FlagsTrue
<1>5. \A p \in HeapPages(target_brk) : flags'[p] = flags[p] /\ host'[p].kind = host[p].kind
  BY <1>1, <1>2, HeapPagesFacts
<1> QED BY <1>1, <1>3, <1>4, <1>5, HeapKept DEF Good

\* A store maps nothing.
LEMMA StoreCareful ==
  ASSUME NEW p \in AllPages, Types, Good, GuestStore(p)
  PROVE  Good'
<1>1. TableOK /\ FlagsTrue /\ HeapOwned /\ HeapWritable /\ UNCHANGED <<target_brk, flags, shm_regions>>
  BY DEF Good, GuestStore
<1>2. \A q \in AllPages : host'[q].kind = host[q].kind /\ host'[q].base = host[q].base
  BY DEF GuestStore, Types, HostPages
<1>3. TableOK'
  BY <1>1, <1>2, TableKept
<1>4. HeapOwned' /\ HeapWritable'
  BY <1>1, <1>2, HeapPagesFacts, HeapKept
<1>5. FlagsTrue'
  BY <1>1, <1>2 DEF FlagsTrue
<1> QED BY <1>3, <1>4, <1>5 DEF Good

\* Nobody becomes careful on the way.
LEMMA CarefulForever == [Next]_vars => careful' = careful
BY DEF Next, vars, Call, do_brk, do_shmat, do_shmdt, target_mmap, target_munmap, GuestStore

\* Every step of a careful guest.
LEMMA CarefulStep ==
  ASSUME Types, Good, careful, [Next]_vars
  PROVE  Good'
<1>1. CASE UNCHANGED vars
  <2>1. /\ TableOK /\ FlagsTrue /\ HeapOwned /\ HeapWritable
        /\ UNCHANGED <<target_brk, flags, host, shm_regions>>
    BY <1>1 DEF vars, Good
  <2>2. TableOK' /\ FlagsTrue'
    BY <2>1, TableKept DEF FlagsTrue
  <2> QED BY <2>1, <2>2, HeapKept DEF Good
<1>2. CASE Next
  <2>1. \A new_brk \in 0 .. NP * PageSize - 1 : new_brk \in Nat
    BY Sizes
  <2> QED BY <1>2, <2>1, BrkCareful, ShmatCareful, ShmdtCareful, MmapCareful, MunmapCareful, StoreCareful DEF Next
<1> QED BY <1>1, <1>2

\* The program and nothing else is mapped at the start.
LEMMA CarefulInit == Init => Good
<1> SUFFICES ASSUME Init PROVE Good
  OBVIOUS
<1>1. HeapPages(target_brk) = {}
  BY EmptyHeap
<1>2. \A i \in Entries : shm_regions[i].start = 0
  BY DEF Init
<1>3. \A p \in AllPages : host[p].kind \in {"anon", "none"}
  BY DEF Init, Anonymous, NoMapping
<1>4. TableOK
  BY <1>2, <1>3 DEF TableOK
<1>5. FlagsTrue
  BY DEF FlagsTrue, Init, Anonymous, NoMapping, RW
<1> QED BY <1>1, <1>4, <1>5 DEF Good, HeapOwned, HeapWritable

\* An access that passed the check of the page flags does not fault, memory that the
\* guest has is not refused, and the whole heap may be read and written: for every
\* page size, address space, number of segments and size of shm_regions, as long as
\* the guest is careful.
THEOREM CheckedAccess == Spec => []CheckedAccessIsSafe
<1>1. Init => IInv
  BY EmptyHeap, CarefulInit DEF IInv
<1>2. IInv /\ [Next]_vars => IInv'
  BY TypesStep, CarefulStep, CarefulForever DEF IInv
<1>3. IInv => CheckedAccessIsSafe
  BY DEF IInv, Good, CheckedAccessIsSafe, ValidIsMapped, MappedIsAccessible, HeapIsBacked,
         FlagsTrue, HeapOwned, HeapWritable
<1> QED BY <1>1, <1>2, <1>3, PTL DEF Spec
=============================================================================
