------------------------------- MODULE SysMem -------------------------------
(***************************************************************************)
(* The system calls that change the guest's address space without           *)
(* target_mmap's own bookkeeping (linux-user/syscall.c): brk, and shmat and *)
(* shmdt with the table shm_regions of attached segments, next to the       *)
(* guest's mmap and munmap of anonymous memory.                            *)
(*                                                                         *)
(* Addresses are numbers; host and guest pages have PageSize bytes.        *)
(* Segments are whole pages.  The kernel's side of the calls is external.   *)
(*                                                                         *)
(* A careful guest maps nothing over what it has (MAP_FIXED, SHM_REMAP, a   *)
(* heap that grows), unmaps neither its heap nor a segment, detaches no     *)
(* NULL, and attaches at most N_SHM_REGIONS segments at a time.            *)
(***************************************************************************)
EXTENDS Integers, FiniteSets

CONSTANTS
  PageSize,         \* bytes of a page
  NP,               \* pages of the address space, page 0 is never used
  HeapPage,         \* first page after the program
  Segments,         \* segment -> its pages
  N_SHM_REGIONS,    \* entries of shm_regions
  MaxCalls          \* bound: system calls, of a careful guest and of another

ASSUME SysMemAssumption ==
  /\ {PageSize, NP, HeapPage, N_SHM_REGIONS} \subseteq Nat \ {0}
  /\ HeapPage < NP
  /\ \A s \in DOMAIN Segments : Segments[s] \in Nat \ {0}
  /\ MaxCalls \in [BOOLEAN -> Nat]

VARIABLES
  target_brk,    \* the end of the heap, an address
  flags,         \* page -> page_get_flags
  host,          \* page -> the kernel's mapping: [kind, base, used]
  shm_regions,   \* entry -> [start, size] in pages, start 0: free
  calls,         \* system calls so far
  status,        \* "running", or "aborted" after a failed assertion
  careful        \* whether the guest is, chosen at the start

vars == <<target_brk, flags, host, shm_regions, calls, status, careful>>

AllPages == 1 .. NP - 1
PageRange(start, len) == start .. start + len - 1
Entries == 1 .. N_SHM_REGIONS
target_original_brk == HeapPage * PageSize
HOST_PAGE_ALIGN(a) == ((a + PageSize - 1) \div PageSize) * PageSize
PageAt(a) == a \div PageSize

\* Pages with a byte of the heap, when it ends at brk.
HeapPages(brk) == HeapPage .. PageAt(HOST_PAGE_ALIGN(brk)) - 1

RW == {"VALID", "R", "W"}
Fits(start, len) == start >= 1 /\ start + len <= NP
page_set_flags(f, start, len, new) == [p \in AllPages |-> IF p \in PageRange(start, len) THEN new ELSE f[p]]

(***************************************************************************)
(* The kernel.  A page is nothing, anonymous memory (brk's is told apart    *)
(* for the properties) or a page of a segment attached at base.  It is used *)
(* once the guest has stored something in it.                              *)
(***************************************************************************)

NoMapping == [kind |-> "none", base |-> 0, used |-> FALSE]
Anonymous == [kind |-> "anon", base |-> 0, used |-> FALSE]
Heap == [kind |-> "heap", base |-> 0, used |-> FALSE]
Attached(addr) == [kind |-> "shm", base |-> addr, used |-> FALSE]

HostMap(start, len, page) == [p \in AllPages |-> IF p \in PageRange(start, len) THEN page ELSE host[p]]
IsFree(start, len) == Fits(start, len) /\ \A p \in PageRange(start, len) : host[p].kind = "none"
SegmentAt(addr) == {p \in AllPages : host[p].kind = "shm" /\ host[p].base = addr}
KernelDetached(addr) == [p \in AllPages |-> IF p \in SegmentAt(addr) THEN NoMapping ELSE host[p]]
Attachments == {host[p].base : p \in {q \in AllPages : host[q].kind = "shm"}}

Call ==
  /\ status = "running" /\ calls < MaxCalls[careful]
  /\ calls' = calls + 1
  /\ UNCHANGED careful

\* What a careful guest asks for.
IfCareful(cond) == careful => cond

(***************************************************************************)
(* brk                                                                     *)
(***************************************************************************)

\* Mutant: the heap's last page is mapped again.
BrkPage_down(brk) == PageAt(brk)

BrkPage(brk) == PageAt(HOST_PAGE_ALIGN(brk))

\* new_alloc_size in pages
BrkGrowth(new_brk) == PageAt(HOST_PAGE_ALIGN(new_brk - BrkPage(target_brk) * PageSize + 1))

\* 0 asks where the end is, and so does an address before the program's end.
BrkAsks(new_brk) == new_brk = 0 \/ new_brk < target_original_brk

\* In the pages there are, or with new pages mapped MAP_FIXED, if that works.
do_brk(new_brk) ==
  /\ Call
  /\ \/ BrkAsks(new_brk) /\ UNCHANGED <<target_brk, flags, host>>
     \/ /\ ~ BrkAsks(new_brk)
        /\ new_brk < BrkPage(target_brk) * PageSize
        /\ target_brk' = new_brk
        /\ UNCHANGED <<flags, host>>
     \/ /\ ~ BrkAsks(new_brk)
        /\ new_brk >= BrkPage(target_brk) * PageSize
        /\ LET start == BrkPage(target_brk)
               len == BrkGrowth(new_brk)
           IN  \/ /\ Fits(start, len)
                  /\ IfCareful(\A p \in PageRange(start, len) : host[p].kind \in {"none", "heap"})
                  /\ host' = HostMap(start, len, Heap)
                  /\ flags' = page_set_flags(flags, start, len, RW)
                  /\ target_brk' = new_brk
               \/ UNCHANGED <<target_brk, flags, host>>      \* target_mmap fails
  /\ UNCHANGED <<shm_regions, status>>

(***************************************************************************)
(* shmat and shmdt                                                         *)
(***************************************************************************)

FreeEntries == {i \in Entries : shm_regions[i].start = 0}
First(S) == CHOOSE i \in S : \A j \in S : i <= j

\* Mutant: the search for a free entry starts over at the first one.
Recorded_first(addr, len) == [shm_regions EXCEPT ![1] = [start |-> addr, size |-> len]]

\* An attachment that finds no free entry is not recorded.
Recorded(addr, len) ==
  IF FreeEntries = {} THEN shm_regions
  ELSE [shm_regions EXCEPT ![First(FreeEntries)] = [start |-> addr, size |-> len]]

\* At the guest's address, over what is there if shmflg has SHM_REMAP, or at a free
\* one that mmap_find_vma finds.
do_shmat(seg, rights) ==
  LET len == Segments[seg]
  IN  /\ Call
      /\ IfCareful(Cardinality(Attachments) < N_SHM_REGIONS)
      /\ \/ \E addr \in AllPages :
              /\ Fits(addr, len)
              /\ IfCareful(IsFree(addr, len))
              /\ host' = HostMap(addr, len, Attached(addr))
              /\ flags' = page_set_flags(flags, addr, len, {"VALID", "R"} \cup rights)
              /\ shm_regions' = Recorded(addr, len)
         \/ UNCHANGED <<host, flags, shm_regions>>      \* EINVAL, ENOMEM
      /\ UNCHANGED <<target_brk, status>>

\* The first entry of the address is dropped and its pages' flags are cleared,
\* before the kernel says whether anything is attached there.  NULL is the address
\* of a free entry, with the size it had in use: if it never was in use,
\* assert(start < end) of page_set_flags fails.
do_shmdt(addr) ==
  LET known == {i \in Entries : shm_regions[i].start = addr}
      size == shm_regions[First(known)].size
  IN  /\ Call
      /\ IfCareful(addr # 0)
      /\ \/ /\ known # {} /\ size = 0
            /\ status' = "aborted"
            /\ UNCHANGED <<shm_regions, flags, host>>
         \/ /\ known # {} /\ size # 0
            /\ shm_regions' = [shm_regions EXCEPT ![First(known)].start = 0]
            /\ flags' = page_set_flags(flags, addr, size, {})
            /\ host' = KernelDetached(addr)
            /\ UNCHANGED status
         \/ /\ known = {}
            /\ host' = KernelDetached(addr)
            /\ UNCHANGED <<shm_regions, flags, status>>
      /\ UNCHANGED target_brk

(***************************************************************************)
(* The guest's other calls and its stores                                  *)
(***************************************************************************)

target_mmap(start, len, rights) ==
  /\ Call
  /\ Fits(start, len)
  /\ IfCareful(IsFree(start, len))
  /\ host' = HostMap(start, len, Anonymous)
  /\ flags' = page_set_flags(flags, start, len, {"VALID"} \cup rights)
  /\ UNCHANGED <<target_brk, shm_regions, status>>

target_munmap(start, len) ==
  /\ Call
  /\ Fits(start, len)
  /\ IfCareful(/\ PageRange(start, len) \cap HeapPages(target_brk) = {}
               /\ \A p \in PageRange(start, len) : host[p].kind # "shm")
  /\ host' = HostMap(start, len, NoMapping)
  /\ flags' = page_set_flags(flags, start, len, {})
  /\ UNCHANGED <<target_brk, shm_regions, status>>

GuestStore(p) ==
  /\ status = "running"
  /\ host[p].kind # "none" /\ "W" \in flags[p]
  /\ host' = [host EXCEPT ![p].used = TRUE]
  /\ UNCHANGED <<target_brk, flags, shm_regions, calls, status, careful>>

(***************************************************************************)
(* Specification                                                           *)
(***************************************************************************)

\* The program is loaded below the heap, which is empty (target_set_brk).
Init ==
  /\ target_brk = target_original_brk
  /\ host = [p \in AllPages |-> IF p < HeapPage THEN Anonymous ELSE NoMapping]
  /\ flags = [p \in AllPages |-> IF p < HeapPage THEN RW ELSE {}]
  /\ shm_regions = [i \in Entries |-> [start |-> 0, size |-> 0]]
  /\ calls = 0
  /\ status = "running"
  /\ careful \in BOOLEAN

Next ==
  \/ \E new_brk \in 0 .. NP * PageSize - 1 : do_brk(new_brk)
  \/ \E seg \in DOMAIN Segments : \E rights \in {{}, {"W"}} : do_shmat(seg, rights)
  \/ \E addr \in {0} \cup AllPages : do_shmdt(addr)
  \/ \E start \in AllPages, len \in 1 .. 2 :
        target_munmap(start, len) \/ \E rights \in {{}, {"R", "W"}} : target_mmap(start, len, rights)
  \/ \E p \in AllPages : GuestStore(p)

Spec == Init /\ [][Next]_vars

(***************************************************************************)
(* Properties                                                              *)
(***************************************************************************)

\* Every page with a byte of the heap is mapped by brk and may be read and
\* written, at whatever byte the heap ended when it grew or shrank before.
HeapIsBacked ==
  \A p \in HeapPages(target_brk) : host[p].kind = "heap" /\ RW \subseteq flags[p]

\* No call takes away what the guest, careful or not, has stored in the part of the
\* heap that it keeps and has not mapped otherwise: growing maps MAP_FIXED from the
\* page behind the old end.
HeapKeepsContents ==
  [][\A p \in HeapPages(target_brk) \cap HeapPages(target_brk') :
       host[p].used /\ host'[p].kind = "heap" => host'[p].used]_vars

\* A page that the flags call valid is mapped.
ValidIsMapped == \A p \in AllPages : "VALID" \in flags[p] => host[p].kind # "none"

\* The other way round, memory the guest has is never refused.
MappedIsAccessible == \A p \in AllPages : host[p].kind # "none" => "VALID" \in flags[p]

\* "put_user()/get_user() take a guest address and check access" (qemu.h:308): an
\* access that passed the check does not fault in the translator, memory that a
\* careful guest has is not refused, and the whole heap is there.
CheckedAccessIsSafe == careful => ValidIsMapped /\ MappedIsAccessible /\ HeapIsBacked
=============================================================================
