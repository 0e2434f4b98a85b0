-------------------------------- MODULE Mmap --------------------------------
(***************************************************************************)
(* target_mmap, target_munmap, target_mprotect and target_mremap of         *)
(* linux-user/mmap.c: the guest's address space kept in the page flags and  *)
(* in the kernel's mappings, when qemu_host_page_size (option -p) may be a  *)
(* multiple of the guest's page size.                                      *)
(*                                                                         *)
(* Addresses, lengths and file offsets are in guest pages: what is not a   *)
(* multiple is refused with EINVAL or rounded up before anything happens.   *)
(* The kernel works on guest pages (4 KB on both sides).  RESERVED_VA is 0  *)
(* and h2g_valid is always true in this build.  The flags are the flat map  *)
(* that PageMap implements; PAGE_WRITE_ORG always accompanies PAGE_WRITE.   *)
(***************************************************************************)
EXTENDS Integers, FiniteSets

CONSTANTS
  NP,               \* pages of the address space
  NFile,            \* pages of the file that can be mapped
  HP,               \* guest pages in a host page
  Rights,           \* protections the guest asks for
  Lens,             \* lengths the guest asks for
  MaxOps,           \* bound: number of calls
  CarefulGuest,     \* TRUE: protects and moves only ranges that are mapped
  HostAligned       \* TRUE: fixed mappings end at the end of a host page, the kernel's choices
                    \* start at one, as does a shared writable mapping of a file, and mremap is
                    \* asked for whole host pages

\* What the constants must be.
MmapConstants ==
  /\ {NP, HP} \subseteq Nat \ {0} /\ NP % HP = 0 /\ NFile \in Nat
  /\ Rights \subseteq SUBSET {"R", "W", "X"}
  /\ Lens \subseteq Nat \ {0}
  /\ {CarefulGuest, HostAligned} \subseteq BOOLEAN

ASSUME MmapAssumption == MmapConstants

AllPages == 0 .. NP - 1
UNMAPPED == 0
ZERO == 1
DIRTY == 2
BEYOND == 3              \* a page past the end of the file: touching it is a SIGBUS
FilePage(n) == IF n < NFile THEN 10 + n ELSE BEYOND
ANON == -1
VALID == "VALID"
Range(start, len) == start .. start + len - 1

VARIABLES
  flags,    \* page -> page_get_flags
  k,        \* the kernel's mappings: page -> [prot, data, file]
  last,     \* the last call: [op, touched, ok]
  ops       \* calls so far

vars == <<flags, k, last, ops>>

HostStart(p) == (p \div HP) * HP                 \* p & qemu_host_page_mask
HOST_PAGE_ALIGN(p) == ((p + HP - 1) \div HP) * HP

FlagsOf(S) == UNION {flags[p] : p \in S \cap AllPages}
Bits(f) == f \cap {"R", "W", "X"}                \* & PAGE_BITS

page_set_flags(f, start, len, new) ==
  [p \in AllPages |-> IF p \in Range(start, len) THEN new ELSE f[p]]

(***************************************************************************)
(* The kernel.  A call maps a state [m, ok] to the next one; once a call    *)
(* has failed (goto error, goto fail) the ones after it are not made.       *)
(***************************************************************************)

Then(st, call(_)) == IF st.ok THEN call(st.m) ELSE st
Done(m) == [m |-> m, ok |-> TRUE]
If(cond, st, call(_)) == IF cond THEN Then(st, call) ELSE st

NoMapping == [prot |-> {}, data |-> UNMAPPED, file |-> ANON]

KMap(m, start, len, page(_)) ==
  [p \in AllPages |-> IF p \in Range(start, len) THEN page(p - start) ELSE m[p]]

KAnon(m, start, len, prot) ==
  KMap(m, start, len, LAMBDA i : [prot |-> prot, data |-> ZERO, file |-> ANON])

KFile(m, start, len, prot, offset) ==
  KMap(m, start, len, LAMBDA i : [prot |-> prot, data |-> FilePage(offset + i), file |-> offset + i])

KUnmap(m, start, len) == KMap(m, start, len, LAMBDA i : NoMapping)

KMapped(m, S) == S \subseteq AllPages /\ \A p \in S : m[p].data # UNMAPPED

\* mprotect works up to the first hole and then fails.
KProtect(m, start, len, prot) ==
  [m  |-> [p \in AllPages |-> IF p \in Range(start, len) /\ KMapped(m, start .. p)
                              THEN [m[p] EXCEPT !.prot = prot] ELSE m[p]],
   ok |-> KMapped(m, Range(start, len))]

\* pread stops at the end of the file and at memory it cannot write.
KRead(m, start, len, offset) ==
  LET writable == {p \in Range(start, len) : \A q \in start .. p : "W" \in m[q].prot}
  IN  [m  |-> [p \in AllPages |-> IF p \in writable /\ offset + p - start < NFile
                                  THEN [m[p] EXCEPT !.data = FilePage(offset + p - start)] ELSE m[p]],
       ok |-> offset >= NFile \/ start \in writable]

WholeHost(p) == HostAligned => p % HP = 0

\* Free places for len pages.
KFree(m, len) ==
  {a \in AllPages : /\ a + len <= NP /\ \A p \in Range(a, len) : m[p].data = UNMAPPED
                    /\ WholeHost(a)}

\* One mapping: no hole, equal rights, and all anonymous or one stretch of the file.
KMovable(m, old, oldlen) ==
  /\ KMapped(m, Range(old, oldlen))
  /\ \A p \in Range(old, oldlen) :
        /\ m[p].prot = m[old].prot
        /\ m[p].file = IF m[old].file = ANON THEN ANON ELSE m[old].file + p - old

\* mremap: what grows a mapping is zero, or the file's following pages.
KMove(m, old, oldlen, new, newlen) ==
  KMap(KUnmap(m, old, oldlen), new, newlen,
       LAMBDA i : IF i < oldlen THEN m[old + i]
                  ELSE IF m[old].file = ANON THEN [m[old] EXCEPT !.data = ZERO]
                  ELSE [prot |-> m[old].prot, data |-> FilePage(m[old].file + i), file |-> m[old].file + i])

Disjoint(old, oldlen, new, newlen) == Range(old, oldlen) \cap Range(new, newlen) = {}

(***************************************************************************)
(* target_mprotect                                                         *)
(***************************************************************************)

\* Flags of the pages of a host page that lie outside [start, end).
Outside(hostStart, start, end) == FlagsOf({p \in Range(hostStart, HP) : p < start \/ p >= end})

\* An incomplete host page keeps the rights of its other pages.
ProtectHostPage(m, hostStart, start, end, prot) ==
  KProtect(m, hostStart, HP, prot \cup Bits(Outside(hostStart, start, end)))

\* The host page with the start, the one with the end, then those between.
ProtectKernel(m, start, len, prot) ==
  LET end == start + len
      host_start == HostStart(start)
      host_end == HOST_PAGE_ALIGN(end)
      frag1 == start > host_start
      frag2 == end < host_end /\ ~ (frag1 /\ host_end = host_start + HP)
      from == IF frag1 THEN host_start + HP ELSE host_start
      to == IF frag2 THEN host_end - HP ELSE host_end
      st1 == If(frag1, Done(m), LAMBDA x : ProtectHostPage(x, host_start, start, end, prot))
      st2 == If(frag2, st1, LAMBDA x : ProtectHostPage(x, host_end - HP, start, end, prot))
  IN  If(from < to, st2, LAMBDA x : KProtect(x, from, to - from, prot))

Called(op, touched, ok) ==
  /\ last' = [op |-> op, touched |-> touched, ok |-> ok]
  /\ ops' = ops + 1

target_mprotect(start, len, prot) ==
  LET st == ProtectKernel(k, start, len, prot)
  IN  /\ CarefulGuest => \A p \in Range(start, len) : VALID \in flags[p]
      /\ k' = st.m
      /\ flags' = IF st.ok THEN page_set_flags(flags, start, len, prot \cup {VALID}) ELSE flags
      /\ Called("mprotect", Range(start, len), st.ok)

(***************************************************************************)
(* target_mmap.  anon: MAP_ANONYMOUS; shared: MAP_SHARED.  A shared page is  *)
(* written through one place only, so that it looks like a private one.     *)
(***************************************************************************)

\* Mutant: the whole host page is mapped anew.
mmap_frag_fresh(m, real_start, start, end, prot, anon, shared, offset) ==
  Done(KAnon(m, real_start, HP, prot))

\* [start, end) within the host page at real_start
mmap_frag(m, real_start, start, end, prot, anon, shared, offset) ==
  LET outside == Outside(real_start, start, end)
      m1 == IF outside = {} THEN KAnon(m, real_start, HP, prot) ELSE m
      prot1 == IF outside = {} THEN prot ELSE Bits(outside)
      prot_new == prot \cup prot1
      \* the results of these mprotect calls are not looked at
      Protect(x, rights) == KProtect(x, real_start, HP, rights).m
      m2 == IF "W" \in prot1 THEN m1 ELSE Protect(m1, prot1 \cup {"W"})
      read == KRead(m2, start, end - start, offset)
      m3 == IF prot_new = prot1 \cup {"W"} THEN read.m ELSE Protect(read.m, prot_new)
  IN  IF anon THEN Done(IF prot_new = prot1 THEN m1 ELSE Protect(m1, prot_new))
      ELSE IF shared /\ "W" \in prot THEN [m |-> m1, ok |-> FALSE]
      ELSE IF ~ read.ok THEN read
      ELSE Done(m3)

\* MAP_FIXED, when the file can be mapped: the fragments at the start and at the
\* end (which goes on to real_end), then the host pages between.
MapFixed(m, start, len, prot, anon, shared, offset) ==
  LET end == start + len
      real_start == HostStart(start)
      real_end == HOST_PAGE_ALIGN(end)
      single == start > real_start /\ real_end = real_start + HP
      from == IF start > real_start THEN real_start + HP ELSE real_start
      to == IF end < real_end THEN real_end - HP ELSE real_end
      st1 == If(start > real_start, Done(m), LAMBDA x :
                mmap_frag(x, real_start, start, real_start + HP, prot, anon, shared, offset))
      st2 == If(end < real_end, st1, LAMBDA x :
                mmap_frag(x, to, to, real_end, prot, anon, shared, offset + to - start))
  IN  IF single THEN mmap_frag(m, real_start, start, end, prot, anon, shared, offset)
      ELSE If(from < to, st2, LAMBDA x :
              Done(IF anon THEN KAnon(x, from, to - from, prot)
                           ELSE KFile(x, from, to - from, prot, offset + from - start)))

Op(anon) == IF anon THEN "mmap" ELSE "mmap_file"

target_mmap_fixed(start, len, prot, anon, shared, offset) ==
  LET st == MapFixed(k, start, len, prot, anon, shared, offset)
  IN  /\ anon \/ offset % HP = start % HP
      /\ k' = st.m
      /\ flags' = IF st.ok THEN page_set_flags(flags, start, len, prot \cup {VALID}) ELSE flags
      /\ Called(Op(anon), Range(start, len), st.ok)

\* Worst case: the file cannot be mapped at this place, so it is read into an
\* anonymous mapping, which is protected afterwards.  The recursive call has set
\* the flags, writable, by the time of the read.
target_mmap_read(start, len, prot, shared, offset) ==
  LET st1 == MapFixed(k, start, len, prot \cup {"W"}, TRUE, FALSE, 0)
      st2 == Then(st1, LAMBDA x : KRead(x, start, len, offset))
      st3 == If("W" \notin prot, st2, LAMBDA x : ProtectKernel(x, start, len, prot))
      refused == shared /\ "W" \in prot
  IN  /\ offset % HP # start % HP
      /\ k' = IF refused THEN k ELSE st3.m
      /\ flags' = IF refused \/ ~ st1.ok THEN flags
                  ELSE page_set_flags(flags, start, len,
                         IF st3.ok THEN prot \cup {VALID} ELSE prot \cup {"W", VALID})
      /\ Called("mmap_file", Range(start, len), ~ refused /\ st3.ok)

\* The kernel chooses the place, at a guest page.  The anonymous mapping of
\* host_len pages is overlaid with len pages of the file from host_offset.
target_mmap_anywhere(len, prot, anon, offset) ==
  LET host_offset == HostStart(offset)
      delta == IF anon THEN 0 ELSE offset - host_offset
      host_len == HOST_PAGE_ALIGN(len + offset - host_offset)
      Place(mmap_start) == KAnon(k, mmap_start, host_len, prot)
  IN  \/ \E mmap_start \in KFree(k, host_len) :
           /\ k' = IF anon THEN Place(mmap_start)
                   ELSE KFile(Place(mmap_start), mmap_start, len, prot, host_offset)
           /\ flags' = page_set_flags(flags, mmap_start + delta, len, prot \cup {VALID})
           /\ Called(Op(anon), Range(mmap_start + delta, len), TRUE)
      \/ /\ KFree(k, host_len) = {}                            \* ENOMEM
         /\ UNCHANGED <<flags, k>>
         /\ Called(Op(anon), {}, FALSE)

(***************************************************************************)
(* target_munmap                                                           *)
(***************************************************************************)

\* The host pages of the range without those that another guest page still uses.
WholeHostPages(start, len) ==
  {p \in HostStart(start) .. HOST_PAGE_ALIGN(start + len) - 1 :
     Outside(HostStart(p), start, start + len) = {}}

target_munmap(start, len) ==
  /\ k' = [p \in AllPages |-> IF p \in WholeHostPages(start, len) THEN NoMapping ELSE k[p]]
  /\ flags' = page_set_flags(flags, start, len, {})
  /\ Called("munmap", Range(start, len), TRUE)

(***************************************************************************)
(* target_mremap                                                           *)
(***************************************************************************)

\* What is left of a moved range is mapped without rights.
mmap_reserve(m, start, len) ==
  [p \in AllPages |-> IF p \in WholeHostPages(start, len) THEN [NoMapping EXCEPT !.data = ZERO] ELSE m[p]]

Movable(old, oldlen) ==
  CarefulGuest => /\ KMovable(k, old, oldlen)
                  /\ \A p \in Range(old, oldlen) : VALID \in flags[p] /\ flags[p] = flags[old]

\* Mutant: the old range keeps its flags.
MoveFlags_old(old, oldlen, new, newlen) == page_set_flags(flags, new, newlen, flags[old] \cup {VALID})

MoveFlags(old, oldlen, new, newlen) ==
  page_set_flags(page_set_flags(flags, old, oldlen, {}), new, newlen, flags[old] \cup {VALID})

Remapped(old, oldlen, new, newlen, ok) ==
  /\ flags' = IF ok THEN MoveFlags(old, oldlen, new, newlen) ELSE flags
  /\ Called("mremap", IF ok THEN Range(old, oldlen) \cup Range(new, newlen) ELSE {}, ok)

target_mremap_fixed(old, oldlen, new, newlen) ==
  LET ok == KMovable(k, old, oldlen) /\ Disjoint(old, oldlen, new, newlen)
  IN  /\ Movable(old, oldlen)
      /\ k' = IF ok THEN KMove(k, old, oldlen, new, newlen) ELSE k
      /\ Remapped(old, oldlen, new, newlen, ok)

\* MREMAP_MAYMOVE: a place is found and reserved, and after the call, whatever
\* its result, the old range is reserved.
target_mremap_maymove(old, oldlen, newlen) ==
  LET size == HOST_PAGE_ALIGN(newlen)
      ok == KMovable(k, old, oldlen)
  IN  /\ Movable(old, oldlen)
      /\ \/ \E new \in KFree(k, size) :
              LET reserved == KAnon(k, new, size, {})
                  moved == IF ok THEN KMove(reserved, old, oldlen, new, newlen) ELSE reserved
              IN  /\ k' = mmap_reserve(moved, old, oldlen)
                  /\ Remapped(old, oldlen, new, newlen, ok)
         \/ /\ KFree(k, size) = {}                             \* ENOMEM
            /\ UNCHANGED k
            /\ Remapped(old, oldlen, 0, 0, FALSE)

target_mremap_inplace(old, oldlen, newlen) ==
  LET ok == /\ KMovable(k, old, oldlen)
            /\ \A p \in Range(old, newlen) \ Range(old, oldlen) : k[p].data = UNMAPPED
  IN  /\ Movable(old, oldlen)
      /\ k' = IF ok THEN KMove(k, old, oldlen, old, newlen) ELSE k
      /\ Remapped(old, oldlen, old, newlen, ok)

(***************************************************************************)
(* The guest                                                               *)
(***************************************************************************)

GuestWrite(p) ==
  /\ {VALID, "W"} \subseteq flags[p] /\ k[p].data \notin {DIRTY, BEYOND}
  /\ "W" \in k[p].prot
  /\ k' = [k EXCEPT ![p].data = DIRTY]
  /\ last' = [op |-> "write", touched |-> {p}, ok |-> TRUE]
  /\ UNCHANGED <<flags, ops>>

Init ==
  /\ flags = [p \in AllPages |-> {}]
  /\ k = [p \in AllPages |-> NoMapping]
  /\ last = [op |-> "none", touched |-> {}, ok |-> TRUE]
  /\ ops = 0

MmapCall(start, len, prot) ==
  /\ WholeHost(start + len)
  /\ \/ target_mmap_fixed(start, len, prot, TRUE, FALSE, 0)
     \/ \E offset \in 0 .. NFile - len, shared \in BOOLEAN :
           /\ shared /\ "W" \in prot => WholeHost(start)
           /\ \/ target_mmap_fixed(start, len, prot, FALSE, shared, offset)
              \/ target_mmap_read(start, len, prot, shared, offset)

MremapCall(old, oldlen, newlen) ==
  /\ WholeHost(old) /\ WholeHost(oldlen) /\ WholeHost(newlen)
  /\ \/ target_mremap_maymove(old, oldlen, newlen)
     \/ old + newlen <= NP /\ target_mremap_inplace(old, oldlen, newlen)
     \/ \E new \in 0 .. NP - newlen : WholeHost(new) /\ target_mremap_fixed(old, oldlen, new, newlen)

Call ==
  /\ ops < MaxOps
  /\ \/ \E len \in Lens, prot \in Rights :
          \/ target_mmap_anywhere(len, prot, TRUE, 0)
          \/ \E offset \in 0 .. NFile - len : target_mmap_anywhere(len, prot, FALSE, offset)
          \/ \E start \in 0 .. NP - len : MmapCall(start, len, prot) \/ target_mprotect(start, len, prot)
     \/ \E len \in Lens : \E start \in 0 .. NP - len :
          target_munmap(start, len) \/ \E newlen \in Lens : MremapCall(start, len, newlen)

Next == Call \/ \E p \in AllPages : GuestWrite(p)

Spec == Init /\ [][Next]_vars

(***************************************************************************)
(* What the calls promise                                                  *)
(***************************************************************************)

TypeOK ==
  /\ flags \in [AllPages -> SUBSET {"R", "W", "X", VALID}]
  /\ \A p \in AllPages : k[p].prot \subseteq {"R", "W", "X"} /\ k[p].file \in -1 .. NFile + NP
  /\ last.touched \subseteq AllPages /\ ops \in 0 .. MaxOps

\* A page that the flags call valid is mapped by the kernel with at least the
\* rights the flags record: the guest never faults on what page_check_range has
\* accepted, whatever was mapped, protected or unmapped beside it in its host page.
RightsGranted ==
  \A p \in AllPages : VALID \in flags[p] => k[p].data # UNMAPPED /\ Bits(flags[p]) \subseteq k[p].prot

Untouched(p) == p \notin last'.touched /\ VALID \in flags[p]

\* A call that succeeds leaves the contents of every valid page outside its range
\* alone, also those that share a host page with the range.
OutsideKeepsContents ==
  [][\A p \in AllPages : last'.ok /\ Untouched(p) => k'[p].data = k[p].data]_vars

\* A call of mremap that fails leaves every valid page as it was, contents and
\* rights.
FailedMremapChangesNothing ==
  [][last'.op = "mremap" /\ ~ last'.ok =>
       \A p \in AllPages : VALID \in flags[p] => k'[p] = k[p]]_vars

\* The page flags and the kernel's mappings together implement the address space
\* the guest expects.
space == [p \in AllPages |-> IF VALID \in flags[p] THEN [rights |-> Bits(flags[p]), data |-> k[p].data]
                                                   ELSE [rights |-> {}, data |-> UNMAPPED]]
Abstract == INSTANCE AddressSpace
ImplementsAddressSpace == Abstract!Spec
=============================================================================
