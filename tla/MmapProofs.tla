----------------------------- MODULE MmapProofs -----------------------------
(***************************************************************************)
(* Proofs about Mmap.                                                       *)
(***************************************************************************)
EXTENDS Mmap, TLAPS

\* The sizes, one by one.
LEMMA Sizes ==
  /\ NP \in Nat \ {0} /\ HP \in Nat \ {0} /\ NFile \in Nat
  /\ \A r \in Rights : r \subseteq {"R", "W", "X"}
  /\ \A n \in Lens : n \in Nat \ {0}
BY MmapAssumption DEF MmapConstants

(***************************************************************************)
(* Guest pages as large as host pages                                      *)
(***************************************************************************)

Page == [prot : SUBSET {"R", "W", "X"}, data : Nat, file : Int]

\* Kernel mappings: a page has rights, contents and a place in the file or none.
KTypeOK(m) == m \in [AllPages -> Page] /\ \A p \in AllPages : m[p].file >= ANON

\* A valid page is mapped.
ValidIsMapped == \A p \in AllPages : VALID \in flags[p] => k[p].data # UNMAPPED

\* The inductive invariant of the refinement.
MapInv ==
  /\ flags \in [AllPages -> SUBSET {"R", "W", "X", VALID}]
  /\ KTypeOK(k)
  /\ ValidIsMapped

\* Every address is the start and the end of a host page.
LEMMA OneHostPage ==
  ASSUME HP = 1, NEW p \in Int
  PROVE  HostStart(p) = p /\ HOST_PAGE_ALIGN(p) = p /\ p % HP = 0
BY DEF HostStart, HOST_PAGE_ALIGN

\* No page shares its host page with another.
LEMMA NothingOutside ==
  ASSUME HP = 1, NEW start \in Int, NEW end \in Int, NEW q \in start .. end - 1
  PROVE  Outside(q, start, end) = {}
<1>1. {p \in Range(q, HP) : p < start \/ p >= end} = {}
  BY DEF Range
<1> QED BY <1>1 DEF Outside, FlagsOf

\* munmap and mmap_reserve work on the range itself.
LEMMA WholeIsRange ==
  ASSUME HP = 1, NEW start \in Int, NEW len \in Int
  PROVE  WholeHostPages(start, len) = Range(start, len)
<1>1. HostStart(start) = start /\ HOST_PAGE_ALIGN(start + len) = start + len
  BY OneHostPage
<1>2. \A p \in start .. start + len - 1 : HostStart(p) = p
  BY OneHostPage
<1>3. \A p \in start .. start + len - 1 : Outside(p, start, start + len) = {}
  BY NothingOutside
<1> QED BY <1>1, <1>2, <1>3 DEF WholeHostPages, Range

\* mprotect makes one call, on the range itself.
LEMMA ProtectIsOneCall ==
  ASSUME HP = 1, NEW m, NEW start \in Int, NEW len \in Nat \ {0}, NEW prot
  PROVE  ProtectKernel(m, start, len, prot) = KProtect(m, start, len, prot)
<1>1. HostStart(start) = start /\ HOST_PAGE_ALIGN(start + len) = start + len
  BY OneHostPage
<1>2. start + len - start = len /\ start < start + len
  OBVIOUS
<1> QED BY <1>1, <1>2 DEF ProtectKernel, If, Then, Done

\* A call that is made returns what it says it does.
LEMMA DoneIs == \A m : Done(m).ok /\ Done(m).m = m
BY DEF Done

\* A fixed mapping is one call, on the range itself.
LEMMA FixedIsOneCall ==
  ASSUME HP = 1, NEW m, NEW start \in Int, NEW len \in Nat \ {0}, NEW prot,
         NEW anon \in BOOLEAN, NEW shared, NEW offset \in Int
  PROVE  MapFixed(m, start, len, prot, anon, shared, offset) =
           Done(IF anon THEN KAnon(m, start, len, prot) ELSE KFile(m, start, len, prot, offset))
<1>1. HostStart(start) = start /\ HOST_PAGE_ALIGN(start + len) = start + len
  BY OneHostPage
<1>2. /\ HostStart(start) = start
      /\ ~ (start > HostStart(start)) /\ ~ (start + len < HOST_PAGE_ALIGN(start + len))
      /\ HostStart(start) < HOST_PAGE_ALIGN(start + len)
      /\ HOST_PAGE_ALIGN(start + len) - HostStart(start) = len
      /\ offset + HostStart(start) - start = offset
  BY <1>1
<1> QED BY <1>2, DoneIs, ZenonT(30) DEF MapFixed, If, Then

(***************************************************************************)
(* What the kernel's calls return                                          *)
(***************************************************************************)

\* A page of the file is not the contents of a page that is not there.
LEMMA FilePageType ==
  ASSUME NEW n \in Nat
  PROVE  FilePage(n) \in 1 .. 10 + NFile
BY Sizes DEF FilePage, BEYOND

LEMMA KAnonIs ==
  ASSUME NEW m, KTypeOK(m), NEW start \in Int, NEW len \in Int, NEW prot \in SUBSET {"R", "W", "X"}
  PROVE  /\ KTypeOK(KAnon(m, start, len, prot))
         /\ \A p \in AllPages : KAnon(m, start, len, prot)[p] =
              IF p \in Range(start, len) THEN [prot |-> prot, data |-> ZERO, file |-> ANON] ELSE m[p]
<1> DEFINE page == [prot |-> prot, data |-> ZERO, file |-> ANON]
<1>1. page \in Page /\ page.file >= ANON
  BY DEF Page, ZERO, ANON
<1>2. KAnon(m, start, len, prot) = [p \in AllPages |-> IF p \in Range(start, len) THEN page ELSE m[p]]
  BY DEF KAnon, KMap
<1> HIDE DEF page
<1>3. KTypeOK(KAnon(m, start, len, prot))
  BY <1>1, <1>2 DEF KTypeOK
<1> QED BY <1>2, <1>3 DEF page

LEMMA KFileIs ==
  ASSUME NEW m, KTypeOK(m), NEW start \in Int, NEW len \in Int, NEW prot \in SUBSET {"R", "W", "X"},
         NEW offset \in Nat
  PROVE  /\ KTypeOK(KFile(m, start, len, prot, offset))
         /\ \A p \in AllPages : KFile(m, start, len, prot, offset)[p] =
              IF p \in Range(start, len)
              THEN [prot |-> prot, data |-> FilePage(offset + (p - start)), file |-> offset + (p - start)]
              ELSE m[p]
<1> DEFINE page(p) ==
      [prot |-> prot, data |-> FilePage(offset + (p - start)), file |-> offset + (p - start)]
<1>1. \A p \in Range(start, len) : page(p) \in Page /\ page(p).file >= ANON
  <2>1. TAKE p \in Range(start, len)
  <2>2. offset + (p - start) \in Nat
    BY DEF Range
  <2>3. FilePage(offset + (p - start)) \in Nat
    BY <2>2, FilePageType, Sizes
  <2> QED BY <2>2, <2>3 DEF Page, ANON
<1>2. KFile(m, start, len, prot, offset) =
        [p \in AllPages |-> IF p \in Range(start, len) THEN page(p) ELSE m[p]]
  BY DEF KFile, KMap
<1> HIDE DEF page
<1>3. KTypeOK(KFile(m, start, len, prot, offset))
  BY <1>1, <1>2 DEF KTypeOK
<1> QED BY <1>2, <1>3 DEF page

LEMMA KProtectIs ==
  ASSUME NEW m, KTypeOK(m), NEW start \in Nat, NEW len \in Nat \ {0}, NEW prot \in SUBSET {"R", "W", "X"},
         KMapped(m, Range(start, len))
  PROVE  LET st == KProtect(m, start, len, prot)
         IN  /\ st.ok /\ KTypeOK(st.m)
             /\ \A p \in AllPages : st.m[p] = IF p \in Range(start, len) THEN [m[p] EXCEPT !.prot = prot] ELSE m[p]
<1> DEFINE st == KProtect(m, start, len, prot)
<1>1. \A p \in Range(start, len) : KMapped(m, start .. p)
  BY DEF KMapped, Range
<1>2. st.m = [p \in AllPages |-> IF p \in Range(start, len) THEN [m[p] EXCEPT !.prot = prot] ELSE m[p]]
  BY <1>1 DEF KProtect
<1>3. st.ok
  BY DEF KProtect
<1>4. \A p \in AllPages : /\ [m[p] EXCEPT !.prot = prot] \in Page
                          /\ [m[p] EXCEPT !.prot = prot].file >= ANON
  BY DEF KTypeOK, Page
<1> HIDE DEF st
<1>5. KTypeOK(st.m)
  BY <1>2, <1>4 DEF KTypeOK
<1> QED BY <1>2, <1>3, <1>5 DEF st

\* What mremap leaves at i pages behind the new start.
MovedPage(m, old, oldlen, i) ==
  IF i < oldlen THEN m[old + i]
  ELSE IF m[old].file = ANON THEN [m[old] EXCEPT !.data = ZERO]
  ELSE [prot |-> m[old].prot, data |-> FilePage(m[old].file + i), file |-> m[old].file + i]

LEMMA KMoveIs ==
  ASSUME NEW m, KTypeOK(m), NEW old \in Nat, NEW oldlen \in Nat \ {0}, NEW new \in Nat, NEW newlen \in Nat \ {0},
         Range(old, oldlen) \subseteq AllPages
  PROVE  /\ KTypeOK(KMove(m, old, oldlen, new, newlen))
         /\ \A p \in AllPages : KMove(m, old, oldlen, new, newlen)[p] =
              IF p \in Range(new, newlen) THEN MovedPage(m, old, oldlen, p - new)
              ELSE IF p \in Range(old, oldlen) THEN NoMapping ELSE m[p]
         /\ \A i \in 0 .. newlen - 1 :
              i >= oldlen => MovedPage(m, old, oldlen, i).data \in 1 .. 10 + NFile
<1> DEFINE page(p) == IF p \in Range(new, newlen) THEN MovedPage(m, old, oldlen, p - new)
                      ELSE IF p \in Range(old, oldlen) THEN NoMapping ELSE m[p]
<1>1. KMove(m, old, oldlen, new, newlen) = [p \in AllPages |-> page(p)]
  BY DEF KMove, KMap, KUnmap, MovedPage
<1>2. old \in AllPages
  BY DEF Range
<1>3. m[old] \in Page /\ m[old].file >= ANON
  BY <1>2 DEF KTypeOK
<1>4. \A i \in 0 .. newlen - 1 :
         /\ MovedPage(m, old, oldlen, i) \in Page /\ MovedPage(m, old, oldlen, i).file >= ANON
         /\ i >= oldlen => MovedPage(m, old, oldlen, i).data \in 1 .. 10 + NFile
  <2>1. TAKE i \in 0 .. newlen - 1
  <2>2. CASE i < oldlen
    <3>1. old + i \in AllPages
      BY <2>2 DEF Range
    <3> QED BY <2>2, <3>1 DEF MovedPage, KTypeOK
  <2>3. CASE i >= oldlen /\ m[old].file = ANON
    BY <2>3, <1>3, Sizes DEF MovedPage, Page, ZERO
  <2>4. CASE i >= oldlen /\ m[old].file # ANON
    <3>1. m[old].file \in Nat
      BY <1>3, <2>4 DEF Page, ANON
    <3>2. m[old].file + i \in Nat
      BY <3>1
    <3>3. FilePage(m[old].file + i) \in 1 .. 10 + NFile
      BY <3>2, FilePageType
    <3>4. FilePage(m[old].file + i) \in Nat
      BY <3>3, Sizes
    <3>5. MovedPage(m, old, oldlen, i) =
            [prot |-> m[old].prot, data |-> FilePage(m[old].file + i), file |-> m[old].file + i]
      BY <2>4 DEF MovedPage
    <3>6. PICK d \in Nat : d = FilePage(m[old].file + i)
      BY <3>4
    <3>7. PICK f \in Nat : f = m[old].file + i
      BY <3>2
    <3>9. MovedPage(m, old, oldlen, i) = [prot |-> m[old].prot, data |-> d, file |-> f]
      BY <3>5, <3>6, <3>7
    <3>10. m[old].prot \in SUBSET {"R", "W", "X"}
      BY <1>3 DEF Page
    <3> QED BY <3>3, <3>6, <3>9, <3>10 DEF ANON, Page
  <2> QED BY <2>2, <2>3, <2>4
<1>5. \A p \in AllPages : page(p) \in Page /\ page(p).file >= ANON
  <2>1. TAKE p \in AllPages
  <2>2. CASE p \in Range(new, newlen)
    <3>1. p - new \in 0 .. newlen - 1
      BY <2>2 DEF Range
    <3> QED BY <2>2, <3>1, <1>4
  <2>3. CASE p \notin Range(new, newlen) /\ p \in Range(old, oldlen)
    BY <2>3 DEF NoMapping, Page, UNMAPPED, ANON
  <2>4. CASE p \notin Range(new, newlen) /\ p \notin Range(old, oldlen)
    BY <2>4 DEF KTypeOK
  <2> QED BY <2>2, <2>3, <2>4
<1> HIDE DEF page
<1>6. KTypeOK(KMove(m, old, oldlen, new, newlen))
  BY <1>1, <1>5 DEF KTypeOK
<1>7. \A p \in AllPages : KMove(m, old, oldlen, new, newlen)[p] = page(p)
  BY <1>1
<1> QED BY <1>4, <1>6, <1>7 DEF page

(***************************************************************************)
(* What the guest sees                                                     *)
(***************************************************************************)

\* The guest's view after a step, page by page.
LEMMA SpaceIs ==
  /\ space = [p \in AllPages |-> space[p]]
  /\ \A p \in AllPages : /\ VALID \in flags[p] => space[p] = [rights |-> Bits(flags[p]), data |-> k[p].data]
                         /\ VALID \notin flags[p] => space[p] = Abstract!NoPage
  /\ space' = [p \in AllPages |-> space'[p]]
  /\ \A p \in AllPages : /\ VALID \in flags'[p] => space'[p] = [rights |-> Bits(flags'[p]), data |-> k'[p].data]
                         /\ VALID \notin flags'[p] => space'[p] = Abstract!NoPage
BY DEF space, Abstract!NoPage, UNMAPPED, Abstract!UNMAPPED

\* A page with the same flags, and the same contents if it is valid, looks the same.
LEMMA SameView ==
  ASSUME NEW p \in AllPages, flags'[p] = flags[p], VALID \in flags[p] => k'[p].data = k[p].data
  PROVE  space'[p] = space[p]
BY SpaceIs

\* What page_set_flags does, page by page.
LEMMA SetFlagsIs ==
  ASSUME NEW f, NEW start, NEW len, NEW new
  PROVE  /\ page_set_flags(f, start, len, new) = [p \in AllPages |-> page_set_flags(f, start, len, new)[p]]
         /\ \A p \in AllPages : /\ p \in Range(start, len) => page_set_flags(f, start, len, new)[p] = new
                                /\ p \notin Range(start, len) => page_set_flags(f, start, len, new)[p] = f[p]
BY DEF page_set_flags

\* The rights that the flags of a mapped page record.
LEMMA BitsOfRights ==
  ASSUME NEW r \in SUBSET {"R", "W", "X"}
  PROVE  Bits(r \cup {VALID}) = r
BY DEF Bits, VALID

\* A range the guest can ask for.
InSpace(start, len) == start \in Nat /\ len \in Nat \ {0} /\ start + len <= NP

LEMMA RangeInSpace ==
  ASSUME NEW start, NEW len, InSpace(start, len)
  PROVE  /\ start \in 0 .. NP /\ len \in 0 .. NP /\ Abstract!Within(start, len)
         /\ Range(start, len) \subseteq AllPages /\ Range(start, len) = start .. start + len - 1
         /\ start \in Range(start, len)
BY Sizes DEF InSpace, Abstract!Within, Range, AllPages

\* A successful mmap, as the guest sees it.
LEMMA MapView ==
  ASSUME NEW start, NEW len, InSpace(start, len), NEW r \in Rights,
         flags' = page_set_flags(flags, start, len, r \cup {VALID}),
         \A p \in AllPages \ Range(start, len) : VALID \in flags[p] => k'[p].data = k[p].data,
         \/ \A p \in Range(start, len) : k'[p].data = ZERO
         \/ \E n \in 0 .. NFile : \A p \in Range(start, len) : k'[p].data = FilePage(n + (p - start))
  PROVE  Abstract!Next
<1>1. /\ start \in 0 .. NP /\ len \in 0 .. NP /\ Abstract!Within(start, len)
      /\ Range(start, len) \subseteq AllPages /\ Range(start, len) = start .. start + len - 1
  BY RangeInSpace
<1>2. r \in SUBSET {"R", "W", "X"}
  BY Sizes
<1>3. \A p \in AllPages \ Range(start, len) : space'[p] = space[p]
  BY SameView, SetFlagsIs
<1>4. \A p \in Range(start, len) : space'[p] = [rights |-> r, data |-> k'[p].data]
  <2>1. TAKE p \in Range(start, len)
  <2>2. p \in AllPages
    BY <1>1
  <2>2a. flags'[p] = r \cup {VALID}
    BY <2>2, SetFlagsIs
  <2>3. Bits(flags'[p]) = r /\ VALID \in flags'[p]
    BY <1>2, <2>2a, BitsOfRights
  <2> QED BY <2>2, <2>3, SpaceIs
<1>5. CASE \A p \in Range(start, len) : k'[p].data = ZERO
  <2>1. space' = [p \in AllPages |-> IF p \in start .. start + len - 1
                                     THEN [rights |-> r, data |-> ZERO] ELSE space[p]]
    BY <1>1, <1>3, <1>4, <1>5, SpaceIs
  <2>2. Abstract!Map(start, len, r)
    BY <2>1 DEF Abstract!Map, Abstract!SetRange, Abstract!AllPages, AllPages, Abstract!ZERO, ZERO
  <2> QED BY <1>1, <2>2 DEF Abstract!Next
<1>6. ASSUME NEW n \in 0 .. NFile, \A p \in Range(start, len) : k'[p].data = FilePage(n + (p - start))
      PROVE  Abstract!Next
  <2>1. space' = [p \in AllPages |-> IF p \in start .. start + len - 1
                                     THEN [rights |-> r, data |-> FilePage(n + (p - start))] ELSE space[p]]
    BY <1>1, <1>3, <1>4, <1>6, SpaceIs
  <2>2. Abstract!Map(start, len, r)
    BY <2>1 DEF Abstract!Map, Abstract!SetRange, Abstract!AllPages, AllPages,
                Abstract!FilePage, FilePage, Abstract!BEYOND, BEYOND
  <2> QED BY <1>1, <2>2 DEF Abstract!Next
<1> QED BY <1>5, <1>6

\* munmap, as the guest sees it.
LEMMA UnmapView ==
  ASSUME NEW start, NEW len, InSpace(start, len),
         flags' = page_set_flags(flags, start, len, {}),
         \A p \in AllPages \ Range(start, len) : VALID \in flags[p] => k'[p].data = k[p].data
  PROVE  Abstract!Next
<1>1. /\ start \in 0 .. NP /\ len \in 0 .. NP /\ Abstract!Within(start, len)
      /\ Range(start, len) \subseteq AllPages /\ Range(start, len) = start .. start + len - 1
  BY RangeInSpace
<1>2. \A p \in AllPages \ Range(start, len) : space'[p] = space[p]
  BY SameView, SetFlagsIs
<1>3. \A p \in Range(start, len) : space'[p] = Abstract!NoPage
  BY <1>1, SpaceIs, SetFlagsIs
<1>4. Abstract!Unmap(start, len)
  BY <1>1, <1>2, <1>3, SpaceIs DEF Abstract!Unmap, Abstract!SetRange, Abstract!AllPages, AllPages
<1> QED BY <1>1, <1>4 DEF Abstract!Next

\* mprotect of a mapped range, as the guest sees it.
LEMMA ProtectView ==
  ASSUME NEW start, NEW len, InSpace(start, len), NEW r \in Rights, ValidIsMapped,
         \A p \in Range(start, len) : VALID \in flags[p],
         flags' = page_set_flags(flags, start, len, r \cup {VALID}),
         \A p \in AllPages : k'[p].data = k[p].data
  PROVE  Abstract!Next
<1>1. /\ start \in 0 .. NP /\ len \in 0 .. NP /\ Abstract!Within(start, len)
      /\ Range(start, len) \subseteq AllPages /\ Range(start, len) = start .. start + len - 1
  BY RangeInSpace
<1>2. r \in SUBSET {"R", "W", "X"}
  BY Sizes
<1>3. \A p \in AllPages \ Range(start, len) : space'[p] = space[p]
  BY SameView, SetFlagsIs
<1>4. \A p \in Range(start, len) : space'[p] = [rights |-> r, data |-> k[p].data]
  <2>1. TAKE p \in Range(start, len)
  <2>2. p \in AllPages /\ flags'[p] = r \cup {VALID}
    BY <1>1, SetFlagsIs
  <2>3. Bits(flags'[p]) = r /\ VALID \in flags'[p]
    BY <1>2, <2>2, BitsOfRights
  <2> QED BY <2>2, <2>3, SpaceIs
<1>5. \A p \in Range(start, len) :
         /\ space[p] = [rights |-> Bits(flags[p]), data |-> k[p].data]
         /\ k[p].data # UNMAPPED
  BY <1>1, SpaceIs DEF ValidIsMapped
<1>6. \A p \in start .. start + len - 1 : space[p].data # Abstract!UNMAPPED
  <2>1. TAKE p \in start .. start + len - 1
  <2>2. p \in Range(start, len)
    BY <1>1
  <2>3. space[p] = [rights |-> Bits(flags[p]), data |-> k[p].data] /\ k[p].data # UNMAPPED
    BY <2>2, <1>5
  <2>4. space[p].data = k[p].data
    BY <2>3
  <2> QED BY <2>3, <2>4 DEF UNMAPPED, Abstract!UNMAPPED
<1>7. \A p \in start .. start + len - 1 : /\ space'[p] = [space[p] EXCEPT !.rights = r]
                                          /\ start + (p - start) = p
  <2>1. TAKE p \in start .. start + len - 1
  <2>2. p \in Range(start, len)
    BY <1>1
  <2>3. space'[p] = [rights |-> r, data |-> k[p].data]
    BY <2>2, <1>4
  <2>4. space[p] = [rights |-> Bits(flags[p]), data |-> k[p].data]
    BY <2>2, <1>5
  <2>5. [space[p] EXCEPT !.rights = r] = [rights |-> r, data |-> k[p].data]
    BY <2>4
  <2>6. start + (p - start) = p
    BY DEF InSpace
  <2> QED BY <2>3, <2>5, <2>6
<1>8. space' = [p \in AllPages |-> IF p \in start .. start + len - 1
                                   THEN [space[start + (p - start)] EXCEPT !.rights = r] ELSE space[p]]
  BY <1>1, <1>3, <1>7, SpaceIs
<1>9. Abstract!Protect(start, len, r)
  BY <1>6, <1>8 DEF Abstract!Protect, Abstract!SetRange, Abstract!AllPages, AllPages
<1> QED BY <1>1, <1>9 DEF Abstract!Next

\* mremap, as the guest sees it.
LEMMA MoveView ==
  ASSUME NEW old, NEW oldlen, NEW new, NEW newlen, InSpace(old, oldlen), InSpace(new, newlen),
         \A p \in Range(old, oldlen) : VALID \in flags[p] /\ flags[p] = flags[old],
         flags' = MoveFlags(old, oldlen, new, newlen),
         \A i \in 0 .. newlen - 1 : IF i < oldlen THEN k'[new + i].data = k[old + i].data
                                                  ELSE k'[new + i].data \in 1 .. 10 + NFile,
         \A p \in AllPages \ (Range(old, oldlen) \cup Range(new, newlen)) :
            VALID \in flags[p] => k'[p].data = k[p].data
  PROVE  Abstract!Next
<1> DEFINE kept == IF oldlen < newlen THEN oldlen ELSE newlen
<1> DEFINE fill == [i \in kept .. newlen - 1 |-> k'[new + i].data]
<1>1. /\ old \in 0 .. NP /\ oldlen \in 0 .. NP /\ Abstract!Within(old, oldlen)
      /\ Range(old, oldlen) \subseteq AllPages /\ Range(old, oldlen) = old .. old + oldlen - 1
      /\ old \in Range(old, oldlen)
  BY RangeInSpace
<1>2. /\ new \in 0 .. NP /\ newlen \in 0 .. NP /\ Abstract!Within(new, newlen)
      /\ Range(new, newlen) \subseteq AllPages /\ Range(new, newlen) = new .. new + newlen - 1
  BY RangeInSpace
<1>3. \A p \in AllPages :
         /\ p \in Range(new, newlen) => flags'[p] = flags[old] \cup {VALID}
         /\ p \notin Range(new, newlen) /\ p \in Range(old, oldlen) => flags'[p] = {}
         /\ p \notin Range(new, newlen) /\ p \notin Range(old, oldlen) => flags'[p] = flags[p]
  <2>1. TAKE p \in AllPages
  <2>2. PICK f : f = page_set_flags(flags, old, oldlen, {})
    OBVIOUS
  <2>3. flags' = page_set_flags(f, new, newlen, flags[old] \cup {VALID})
    BY <2>2 DEF MoveFlags
  <2>4. /\ p \in Range(new, newlen) => flags'[p] = flags[old] \cup {VALID}
        /\ p \notin Range(new, newlen) => flags'[p] = f[p]
    BY <2>3, SetFlagsIs
  <2>5. /\ p \in Range(old, oldlen) => f[p] = {}
        /\ p \notin Range(old, oldlen) => f[p] = flags[p]
    BY <2>2, SetFlagsIs
  <2> QED BY <2>4, <2>5
<1>4. VALID \in flags[old] /\ flags[old] \cup {VALID} = flags[old]
  BY <1>1
<1>5. \A p \in AllPages : p \in Range(new, newlen) =>
         space'[p] = [rights |-> Bits(flags[old]), data |-> k'[p].data]
  <2>1. TAKE p \in AllPages
  <2>2. HAVE p \in Range(new, newlen)
  <2>3. flags'[p] = flags[old] /\ VALID \in flags'[p]
    BY <2>2, <1>3, <1>4
  <2> QED BY <2>3, SpaceIs
<1>6. \A p \in AllPages : p \in new .. new + kept - 1 => space'[p] = space[old + p - new]
  <2>1. TAKE p \in AllPages
  <2>2. HAVE p \in new .. new + kept - 1
  <2>3. p - new \in 0 .. newlen - 1 /\ p - new < oldlen /\ new + (p - new) = p /\ p \in Range(new, newlen)
    BY <2>2, <1>1, <1>2
  <2>4. k'[p].data = k[old + (p - new)].data
    BY <2>3
  <2>5. old + (p - new) \in Range(old, oldlen) /\ old + (p - new) \in AllPages /\ old + p - new = old + (p - new)
    BY <2>3, <1>1, <1>2
  <2>6. flags[old + (p - new)] = flags[old] /\ VALID \in flags[old + (p - new)]
    BY <2>5
  <2>7. space[old + (p - new)] = [rights |-> Bits(flags[old]), data |-> k[old + (p - new)].data]
    BY <2>5, <2>6, SpaceIs
  <2> QED BY <2>3, <2>4, <2>5, <2>7, <1>5
<1>7. \A p \in AllPages : p \in new .. new + newlen - 1 /\ p \notin new .. new + kept - 1 =>
         space'[p] = [rights |-> space[old].rights, data |-> fill[p - new]]
  <2>1. TAKE p \in AllPages
  <2>2. HAVE p \in new .. new + newlen - 1 /\ p \notin new .. new + kept - 1
  <2>3. p - new \in kept .. newlen - 1 /\ new + (p - new) = p /\ p \in Range(new, newlen)
    BY <2>2, <1>1, <1>2
  <2>4. fill[p - new] = k'[p].data
    BY <2>3
  <2>5. space[old].rights = Bits(flags[old])
    <3>1. space[old] = [rights |-> Bits(flags[old]), data |-> k[old].data]
      BY <1>1, <1>4, SpaceIs
    <3> QED BY <3>1
  <2> QED BY <2>3, <2>4, <2>5, <1>5
<1>8. \A p \in AllPages : p \notin new .. new + newlen - 1 /\ p \in old .. old + oldlen - 1 =>
         space'[p] = Abstract!NoPage
  BY <1>1, <1>2, <1>3, SpaceIs
<1>9. \A p \in AllPages : p \notin new .. new + newlen - 1 /\ p \notin old .. old + oldlen - 1 =>
         space'[p] = space[p]
  BY <1>1, <1>2, <1>3, SameView
<1>10. \A i \in kept .. newlen - 1 : k'[new + i].data \in 1 .. 10 + NFile
  <2>1. TAKE i \in kept .. newlen - 1
  <2>2. i \in 0 .. newlen - 1 /\ ~ (i < oldlen)
    BY <1>1, <1>2
  <2> QED BY <2>2
<1>11. fill \in [kept .. newlen - 1 -> {d \in 1 .. 10 + NFile : TRUE}]
  BY <1>10
<1>12. kept <= newlen /\ kept \in Nat
  BY <1>1, <1>2
<1>13. space' = [p \in AllPages |->
          IF p \in new .. new + kept - 1 THEN space[old + p - new]
          ELSE IF p \in new .. new + newlen - 1
               THEN [rights |-> space[old].rights, data |-> fill[p - new]]
          ELSE IF p \in old .. old + oldlen - 1 THEN Abstract!NoPage ELSE space[p]]
  <2>1. \A p \in AllPages : p \in new .. new + kept - 1 => p \in new .. new + newlen - 1
    BY <1>1, <1>2, <1>12
  <2> HIDE DEF kept, fill
  <2> QED BY <2>1, <1>6, <1>7, <1>8, <1>9, SpaceIs
<1>14. Abstract!Move(old, oldlen, new, newlen)
  BY <1>11, <1>13 DEF Abstract!Move, Abstract!AllPages, AllPages
<1> QED BY <1>1, <1>2, <1>14 DEF Abstract!Next

(***************************************************************************)
(* The calls, one by one                                                   *)
(***************************************************************************)

\* A step changes the guest's view as the address space allows, or not at all.
GuestStep == Abstract!Next \/ UNCHANGED space

\* flags keep their type, and valid pages stay mapped.
LEMMA NewFlagsInv ==
  ASSUME MapInv, KTypeOK(k)',
         NEW new \in [AllPages -> SUBSET {"R", "W", "X", VALID}], flags' = new,
         \A p \in AllPages : VALID \in new[p] => k'[p].data # UNMAPPED
  PROVE  MapInv'
BY DEF MapInv, ValidIsMapped

\* What page_set_flags makes of the flags has their type.
LEMMA SetFlagsType ==
  ASSUME NEW f \in [AllPages -> SUBSET {"R", "W", "X", VALID}], NEW start, NEW len,
         NEW new \in SUBSET {"R", "W", "X", VALID}
  PROVE  page_set_flags(f, start, len, new) \in [AllPages -> SUBSET {"R", "W", "X", VALID}]
BY DEF page_set_flags

\* A range that gets valid is mapped, and the rest is as mapped as it was.
LEMMA SetRangeInv ==
  ASSUME MapInv, NEW start, NEW len, NEW new \in SUBSET {"R", "W", "X", VALID},
         flags' = page_set_flags(flags, start, len, new),
         KTypeOK(k)',
         \A p \in AllPages : p \in Range(start, len) /\ VALID \in new => k'[p].data # UNMAPPED,
         \A p \in AllPages : p \notin Range(start, len) /\ VALID \in flags[p] => k'[p].data # UNMAPPED
  PROVE  MapInv'
<1>1. PICK f : f = page_set_flags(flags, start, len, new)
  OBVIOUS
<1>2. f \in [AllPages -> SUBSET {"R", "W", "X", VALID}]
  BY <1>1, SetFlagsType DEF MapInv
<1>3. \A p \in AllPages : VALID \in f[p] => k'[p].data # UNMAPPED
  BY <1>1, SetFlagsIs
<1> QED BY <1>1, <1>2, <1>3, NewFlagsInv

\* A step that leaves flags and mappings alone.
LEMMA NothingDone ==
  ASSUME MapInv, UNCHANGED <<flags, k>>
  PROVE  MapInv' /\ GuestStep
BY DEF MapInv, ValidIsMapped, GuestStep, space, KTypeOK

\* A mapping made in one call, anonymous or of the file.
LEMMA MappedStep ==
  ASSUME MapInv, NEW start, NEW len, InSpace(start, len), NEW r \in Rights,
         NEW anon \in BOOLEAN, NEW offset \in 0 .. NFile,
         NEW m, KTypeOK(m), \A p \in AllPages : p \notin Range(start, len) /\ VALID \in flags[p] => m[p] = k[p],
         k' = IF anon THEN KAnon(m, start, len, r) ELSE KFile(m, start, len, r, offset),
         flags' = page_set_flags(flags, start, len, r \cup {VALID})
  PROVE  MapInv' /\ GuestStep
<1>1. /\ r \in SUBSET {"R", "W", "X"} /\ r \cup {VALID} \in SUBSET {"R", "W", "X", VALID}
      /\ start \in Int /\ len \in Int /\ offset \in Nat
  BY Sizes DEF InSpace
<1>2. Range(start, len) \subseteq AllPages
  BY RangeInSpace
<1>3. CASE anon
  <2>1. k' = KAnon(m, start, len, r)
    BY <1>3
  <2>2. /\ KTypeOK(KAnon(m, start, len, r))
        /\ \A p \in AllPages : KAnon(m, start, len, r)[p] =
             IF p \in Range(start, len) THEN [prot |-> r, data |-> ZERO, file |-> ANON] ELSE m[p]
    BY <1>1, KAnonIs
  <2>3. KTypeOK(k)'
    BY <2>1, <2>2 DEF KTypeOK
  <2>4. \A p \in Range(start, len) : k'[p].data = ZERO
    BY <2>1, <2>2, <1>2
  <2>5. \A p \in AllPages : p \notin Range(start, len) /\ VALID \in flags[p] => k'[p] = k[p]
    BY <2>1, <2>2
  <2>6. MapInv'
    <3>1. PICK new \in SUBSET {"R", "W", "X", VALID} : new = r \cup {VALID}
      BY <1>1
    <3>2. \A p \in AllPages : p \in Range(start, len) /\ VALID \in new => k'[p].data # UNMAPPED
      BY <2>4 DEF ZERO, UNMAPPED
    <3>3. \A p \in AllPages : p \notin Range(start, len) /\ VALID \in flags[p] => k'[p].data # UNMAPPED
      BY <2>5 DEF MapInv, ValidIsMapped
    <3> QED BY <3>1, <3>2, <3>3, <2>3, SetRangeInv
  <2>7. Abstract!Next
    BY <2>4, <2>5, MapView
  <2> QED BY <2>6, <2>7 DEF GuestStep
<1>4. CASE ~ anon
  <2>1. k' = KFile(m, start, len, r, offset)
    BY <1>4
  <2>2. /\ KTypeOK(KFile(m, start, len, r, offset))
        /\ \A p \in AllPages : KFile(m, start, len, r, offset)[p] =
             IF p \in Range(start, len)
             THEN [prot |-> r, data |-> FilePage(offset + (p - start)), file |-> offset + (p - start)]
             ELSE m[p]
    BY <1>1, KFileIs
  <2>3. KTypeOK(k)'
    BY <2>1, <2>2 DEF KTypeOK
  <2>4. \A p \in Range(start, len) : k'[p].data = FilePage(offset + (p - start))
    <3>1. TAKE p \in Range(start, len)
    <3>2. k'[p] = [prot |-> r, data |-> FilePage(offset + (p - start)), file |-> offset + (p - start)]
      BY <2>1, <2>2, <1>2
    <3> QED BY <3>2
  <2>5. \A p \in AllPages : p \notin Range(start, len) /\ VALID \in flags[p] => k'[p] = k[p]
    BY <2>1, <2>2
  <2>6. \A p \in Range(start, len) : k'[p].data # UNMAPPED
    <3>1. TAKE p \in Range(start, len)
    <3>2. offset + (p - start) \in Nat
      BY <1>1 DEF Range
    <3>3. FilePage(offset + (p - start)) \in 1 .. 10 + NFile
      BY <3>2, FilePageType
    <3> QED BY <3>3, <2>4, Sizes DEF UNMAPPED
  <2>7. MapInv'
    <3>1. PICK new \in SUBSET {"R", "W", "X", VALID} : new = r \cup {VALID}
      BY <1>1
    <3>2. \A p \in AllPages : p \in Range(start, len) /\ VALID \in new => k'[p].data # UNMAPPED
      BY <2>6
    <3>3. \A p \in AllPages : p \notin Range(start, len) /\ VALID \in flags[p] => k'[p].data # UNMAPPED
      BY <2>5 DEF MapInv, ValidIsMapped
    <3> QED BY <3>1, <3>2, <3>3, <2>3, SetRangeInv
  <2>8. Abstract!Next
    BY <2>4, <2>5, MapView
  <2> QED BY <2>7, <2>8 DEF GuestStep
<1> QED BY <1>3, <1>4

\* target_mmap with MAP_FIXED.
LEMMA FixedStep ==
  ASSUME HP = 1, MapInv, NEW start, NEW len, InSpace(start, len), NEW r \in Rights,
         NEW anon \in BOOLEAN, NEW shared, NEW offset \in 0 .. NFile,
         target_mmap_fixed(start, len, r, anon, shared, offset)
  PROVE  MapInv' /\ GuestStep
<1>1. start \in Int /\ len \in Nat \ {0} /\ offset \in Int
  BY DEF InSpace
<1>2. PICK st : st = MapFixed(k, start, len, r, anon, shared, offset)
  OBVIOUS
<1>3. st = Done(IF anon THEN KAnon(k, start, len, r) ELSE KFile(k, start, len, r, offset))
  BY <1>1, <1>2, FixedIsOneCall
<1>4. st.ok /\ st.m = IF anon THEN KAnon(k, start, len, r) ELSE KFile(k, start, len, r, offset)
  BY <1>3, DoneIs
<1>5. k' = st.m /\ flags' = page_set_flags(flags, start, len, r \cup {VALID})
  BY <1>2, <1>4 DEF target_mmap_fixed
<1>6. k' = IF anon THEN KAnon(k, start, len, r) ELSE KFile(k, start, len, r, offset)
  BY <1>4, <1>5
<1>7. PICK m : m = k
  OBVIOUS
<1>8. KTypeOK(m) /\ k' = IF anon THEN KAnon(m, start, len, r) ELSE KFile(m, start, len, r, offset)
  BY <1>6, <1>7 DEF MapInv
<1> QED BY <1>5, <1>7, <1>8, MappedStep

\* target_mmap where the kernel chooses the place.
LEMMA AnywhereStep ==
  ASSUME HP = 1, MapInv, NEW len \in Lens, NEW r \in Rights,
         NEW anon \in BOOLEAN, NEW offset \in 0 .. NFile,
         target_mmap_anywhere(len, r, anon, offset)
  PROVE  MapInv' /\ GuestStep
<1>1. len \in Nat \ {0} /\ offset \in Int /\ r \in SUBSET {"R", "W", "X"}
  BY Sizes
<1>2. HostStart(offset) = offset /\ HOST_PAGE_ALIGN(len + offset - HostStart(offset)) = len
  <2>1. HostStart(offset) = offset /\ HOST_PAGE_ALIGN(len) = len /\ len + offset - offset = len
    BY <1>1, OneHostPage
  <2> QED BY <2>1
<1>3. offset - HostStart(offset) = 0
  BY <1>1, <1>2
<1>4. CASE KFree(k, len) = {} /\ UNCHANGED <<flags, k>>
  BY <1>4, NothingDone
<1>5. ASSUME NEW a \in KFree(k, len),
             k' = IF anon THEN KAnon(k, a, len, r) ELSE KFile(KAnon(k, a, len, r), a, len, r, offset),
             flags' = page_set_flags(flags, a, len, r \cup {VALID})
      PROVE  MapInv' /\ GuestStep
  <2>1. InSpace(a, len) /\ a \in Int
    BY <1>1 DEF KFree, InSpace, AllPages
  <2>2. PICK m : m = IF anon THEN k ELSE KAnon(k, a, len, r)
    OBVIOUS
  <2>3. /\ KTypeOK(KAnon(k, a, len, r))
        /\ \A p \in AllPages : p \notin Range(a, len) => KAnon(k, a, len, r)[p] = k[p]
    <3>1. PICK k0 : k0 = k
      OBVIOUS
    <3>2. KTypeOK(k0)
      BY <3>1 DEF MapInv
    <3>3. len \in Int
      BY <1>1
    <3>4. /\ KTypeOK(KAnon(k0, a, len, r))
          /\ \A p \in AllPages : KAnon(k0, a, len, r)[p] =
               IF p \in Range(a, len) THEN [prot |-> r, data |-> ZERO, file |-> ANON] ELSE k0[p]
      BY <3>2, <3>3, <1>1, <2>1, KAnonIs
    <3> QED BY <3>1, <3>4
  <2>4. KTypeOK(m) /\ \A p \in AllPages : p \notin Range(a, len) /\ VALID \in flags[p] => m[p] = k[p]
    BY <2>2, <2>3 DEF MapInv
  <2>5. k' = IF anon THEN KAnon(m, a, len, r) ELSE KFile(m, a, len, r, offset)
    BY <1>5, <2>2
  <2> QED BY <1>5, <2>1, <2>4, <2>5, MappedStep
<1>6. \/ KFree(k, len) = {} /\ UNCHANGED <<flags, k>>
      \/ \E a \in KFree(k, len) :
           /\ k' = IF anon THEN KAnon(k, a, len, r) ELSE KFile(KAnon(k, a, len, r), a, len, r, offset)
           /\ flags' = page_set_flags(flags, a, len, r \cup {VALID})
  <2>1. \A a \in KFree(k, len) : a + 0 = a
    BY DEF KFree, AllPages
  <2>2. (IF anon THEN 0 ELSE offset - HostStart(offset)) = 0
    BY <1>3
  <2> QED BY <1>2, <2>1, <2>2 DEF target_mmap_anywhere
<1> QED BY <1>4, <1>5, <1>6

\* target_mprotect of a range that is mapped.
LEMMA MprotectStep ==
  ASSUME HP = 1, CarefulGuest, MapInv, NEW start, NEW len, InSpace(start, len), NEW r \in Rights,
         target_mprotect(start, len, r)
  PROVE  MapInv' /\ GuestStep
<1>1. start \in Nat /\ len \in Nat \ {0} /\ r \in SUBSET {"R", "W", "X"} /\ start \in Int
  BY Sizes DEF InSpace
<1>2. Range(start, len) \subseteq AllPages
  BY RangeInSpace
<1>3. \A p \in Range(start, len) : VALID \in flags[p]
  BY DEF target_mprotect
<1>4. PICK m : m = k
  OBVIOUS
<1>5. KTypeOK(m) /\ KMapped(m, Range(start, len))
  BY <1>2, <1>3, <1>4 DEF MapInv, ValidIsMapped, KMapped
<1>6. PICK st : st = KProtect(m, start, len, r)
  OBVIOUS
<1>7. /\ st.ok /\ KTypeOK(st.m)
      /\ \A p \in AllPages : st.m[p] = IF p \in Range(start, len) THEN [m[p] EXCEPT !.prot = r] ELSE m[p]
  BY <1>1, <1>5, <1>6, KProtectIs
<1>8. st = ProtectKernel(k, start, len, r)
  BY <1>1, <1>4, <1>6, ProtectIsOneCall
<1>9. k' = st.m /\ flags' = page_set_flags(flags, start, len, r \cup {VALID})
  BY <1>7, <1>8 DEF target_mprotect
<1>10. \A p \in AllPages : k'[p].data = k[p].data
  <2>1. TAKE p \in AllPages
  <2>2. m[p] \in Page
    BY <1>5 DEF KTypeOK
  <2>3. [m[p] EXCEPT !.prot = r].data = m[p].data
    BY <2>2 DEF Page
  <2> QED BY <2>3, <1>4, <1>7, <1>9
<1>11. KTypeOK(k)'
  BY <1>7, <1>9 DEF KTypeOK
<1>12. MapInv'
  <2>1. PICK new \in SUBSET {"R", "W", "X", VALID} : new = r \cup {VALID}
    BY <1>1
  <2>2. \A p \in AllPages : p \in Range(start, len) /\ VALID \in new => k'[p].data # UNMAPPED
    BY <1>3, <1>10 DEF MapInv, ValidIsMapped
  <2>3. \A p \in AllPages : p \notin Range(start, len) /\ VALID \in flags[p] => k'[p].data # UNMAPPED
    BY <1>10 DEF MapInv, ValidIsMapped
  <2> QED BY <2>1, <2>2, <2>3, <1>9, <1>11, SetRangeInv
<1>13. Abstract!Next
  BY <1>3, <1>9, <1>10, ProtectView DEF MapInv
<1> QED BY <1>12, <1>13 DEF GuestStep

\* target_munmap.
LEMMA MunmapStep ==
  ASSUME HP = 1, MapInv, NEW start, NEW len, InSpace(start, len), target_munmap(start, len)
  PROVE  MapInv' /\ GuestStep
<1>1. start \in Int /\ len \in Int
  BY DEF InSpace
<1>2. k' = [p \in AllPages |-> IF p \in Range(start, len) THEN NoMapping ELSE k[p]]
  BY <1>1, WholeIsRange DEF target_munmap
<1>3. flags' = page_set_flags(flags, start, len, {})
  BY DEF target_munmap
<1>4. NoMapping \in Page /\ NoMapping.file >= ANON
  BY DEF NoMapping, Page, UNMAPPED, ANON
<1>5. KTypeOK(k)'
  BY <1>2, <1>4 DEF MapInv, KTypeOK
<1>6. \A p \in AllPages : p \notin Range(start, len) => k'[p] = k[p]
  BY <1>2
<1>7. MapInv'
  <2>1. PICK new \in SUBSET {"R", "W", "X", VALID} : new = {}
    OBVIOUS
  <2>2. \A p \in AllPages : p \in Range(start, len) /\ VALID \in new => k'[p].data # UNMAPPED
    BY <2>1
  <2>3. \A p \in AllPages : p \notin Range(start, len) /\ VALID \in flags[p] => k'[p].data # UNMAPPED
    BY <1>6 DEF MapInv, ValidIsMapped
  <2> QED BY <2>1, <2>2, <2>3, <1>3, <1>5, SetRangeInv
<1>8. Abstract!Next
  BY <1>3, <1>6, UnmapView
<1> QED BY <1>7, <1>8 DEF GuestStep

\* A moved mapping: m is what the call of the kernel started from, which the old
\* range and the valid pages outside the new one have in common with k; what it left
\* may have been overwritten in the old range, where that is not the new one.
LEMMA MovedStep ==
  ASSUME MapInv, NEW old, NEW oldlen, NEW new, NEW newlen, InSpace(old, oldlen), InSpace(new, newlen),
         \A p \in Range(old, oldlen) : VALID \in flags[p] /\ flags[p] = flags[old],
         flags' = MoveFlags(old, oldlen, new, newlen),
         NEW m, KTypeOK(m),
         \A p \in Range(old, oldlen) : m[p] = k[p],
         \A p \in AllPages : p \notin Range(new, newlen) /\ VALID \in flags[p] => m[p] = k[p],
         KTypeOK(k)',
         \A p \in AllPages : p \in Range(new, newlen) \/ p \notin Range(old, oldlen) =>
            k'[p] = KMove(m, old, oldlen, new, newlen)[p]
  PROVE  MapInv' /\ GuestStep
<1>1. /\ Range(old, oldlen) \subseteq AllPages /\ Range(new, newlen) \subseteq AllPages
      /\ old \in Range(old, oldlen)
      /\ Range(old, oldlen) = old .. old + oldlen - 1 /\ Range(new, newlen) = new .. new + newlen - 1
  BY RangeInSpace
<1>2. /\ old \in Nat /\ oldlen \in Nat \ {0} /\ new \in Nat /\ newlen \in Nat \ {0}
  BY DEF InSpace
<1>2a. KTypeOK(m) /\ Range(old, oldlen) \subseteq AllPages
  BY <1>1
<1>3. /\ \A p \in AllPages : KMove(m, old, oldlen, new, newlen)[p] =
              IF p \in Range(new, newlen) THEN MovedPage(m, old, oldlen, p - new)
              ELSE IF p \in Range(old, oldlen) THEN NoMapping ELSE m[p]
      /\ \A i \in 0 .. newlen - 1 :
              i >= oldlen => MovedPage(m, old, oldlen, i).data \in 1 .. 10 + NFile
  BY ONLY <1>2, <1>2a, KMoveIs, SMTT(20)
<1>4. \A i \in 0 .. newlen - 1 : k'[new + i] = MovedPage(m, old, oldlen, i)
  <2>1. TAKE i \in 0 .. newlen - 1
  <2>2. new + i \in Range(new, newlen) /\ new + i \in AllPages /\ (new + i) - new = i
    BY <1>1, <1>2
  <2> QED BY <2>2, <1>3
<1>5. \A i \in 0 .. newlen - 1 : IF i < oldlen THEN k'[new + i].data = k[old + i].data
                                               ELSE k'[new + i].data \in 1 .. 10 + NFile
  <2>1. TAKE i \in 0 .. newlen - 1
  <2>2. CASE i < oldlen
    <3>1. old + i \in Range(old, oldlen)
      BY <2>2, <1>1, <1>2
    <3>2. k'[new + i] = k[old + i]
      BY <2>2, <3>1, <1>4 DEF MovedPage
    <3> QED BY <2>2, <3>2
  <2>3. CASE ~ (i < oldlen)
    <3>1. i >= oldlen
      BY <2>3, <1>2
    <3>2. MovedPage(m, old, oldlen, i).data \in 1 .. 10 + NFile
      BY <3>1, <1>3
    <3> QED BY <2>3, <3>2, <1>4
  <2> QED BY <2>2, <2>3
<1>6. \A p \in AllPages \ (Range(old, oldlen) \cup Range(new, newlen)) :
         VALID \in flags[p] => k'[p] = k[p]
  BY <1>3
<1>7. \A p \in Range(new, newlen) : k'[p].data # UNMAPPED
  <2>1. TAKE p \in Range(new, newlen)
  <2>2. PICK i \in 0 .. newlen - 1 : i = p - new /\ p = new + i
    <3>1. p \in new .. new + newlen - 1
      BY <1>1
    <3>2. p - new \in 0 .. newlen - 1 /\ p = new + (p - new)
      BY <3>1, <1>2
    <3> QED BY <3>2
  <2>3. CASE i < oldlen
    <3>1. old + i \in Range(old, oldlen) /\ old + i \in AllPages
      BY <2>3, <1>1, <1>2
    <3>2. k[old + i].data # UNMAPPED
      BY <3>1 DEF MapInv, ValidIsMapped
    <3> QED BY <2>2, <2>3, <3>2, <1>5
  <2>4. CASE ~ (i < oldlen)
    <3>1. k'[p].data \in 1 .. 10 + NFile
      BY <2>2, <2>4, <1>5
    <3> QED BY <3>1, Sizes DEF UNMAPPED
  <2> QED BY <2>3, <2>4
<1>8. flags[old] \cup {VALID} \in SUBSET {"R", "W", "X", VALID}
  <2>1. old \in AllPages
    BY <1>1
  <2> QED BY <2>1 DEF MapInv
<1>9. MapInv'
  <2>1. PICK f : f = page_set_flags(flags, old, oldlen, {})
    OBVIOUS
  <2>2. PICK w : w = flags[old] \cup {VALID}
    OBVIOUS
  <2>3. PICK g : g = page_set_flags(f, new, newlen, w)
    OBVIOUS
  <2>4. f \in [AllPages -> SUBSET {"R", "W", "X", VALID}]
    BY <2>1, SetFlagsType DEF MapInv
  <2>5. g \in [AllPages -> SUBSET {"R", "W", "X", VALID}]
    BY <2>2, <2>3, <2>4, <1>8, SetFlagsType
  <2>6. flags' = g
    BY <2>1, <2>2, <2>3 DEF MoveFlags
  <2>7. \A p \in AllPages : VALID \in g[p] => k'[p].data # UNMAPPED
    <3>1. TAKE p \in AllPages
    <3>2. CASE p \in Range(new, newlen)
      BY <3>2, <1>7
    <3>3. CASE p \notin Range(new, newlen) /\ p \in Range(old, oldlen)
      <4>1. g[p] = f[p] /\ f[p] = {}
        BY <3>3, <2>1, <2>3, SetFlagsIs
      <4> QED BY <4>1
    <3>4. CASE p \notin Range(new, newlen) /\ p \notin Range(old, oldlen)
      <4>1. g[p] = f[p] /\ f[p] = flags[p]
        BY <3>4, <2>1, <2>3, SetFlagsIs
      <4> QED BY <4>1, <3>4, <1>6 DEF MapInv, ValidIsMapped
    <3> QED BY <3>2, <3>3, <3>4
  <2> QED BY <2>5, <2>6, <2>7, NewFlagsInv
<1>10. Abstract!Next
  BY <1>5, <1>6, MoveView
<1> QED BY <1>9, <1>10 DEF GuestStep

\* What a careful guest moves is one mapping of valid pages with equal flags.
LEMMA CarefulMove ==
  ASSUME CarefulGuest, NEW old, NEW oldlen, Movable(old, oldlen)
  PROVE  /\ KMovable(k, old, oldlen)
         /\ \A p \in Range(old, oldlen) : VALID \in flags[p] /\ flags[p] = flags[old]
BY DEF Movable

\* A mapping moved by the kernel alone, to another place or in place.
LEMMA KernelMoveStep ==
  ASSUME CarefulGuest, MapInv, NEW old, NEW oldlen, NEW new, NEW newlen,
         InSpace(old, oldlen), InSpace(new, newlen), Movable(old, oldlen),
         k' = KMove(k, old, oldlen, new, newlen), flags' = MoveFlags(old, oldlen, new, newlen)
  PROVE  MapInv' /\ GuestStep
<1>1. Range(old, oldlen) \subseteq AllPages
  BY RangeInSpace
<1>2. old \in Nat /\ oldlen \in Nat \ {0} /\ new \in Nat /\ newlen \in Nat \ {0}
  BY DEF InSpace
<1>3. PICK m : m = k
  OBVIOUS
<1>4. KTypeOK(m)
  BY <1>3 DEF MapInv
<1>5. KTypeOK(KMove(m, old, oldlen, new, newlen))
  BY <1>1, <1>2, <1>4, KMoveIs
<1>6. k' = KMove(m, old, oldlen, new, newlen)
  BY <1>3
<1>7. KTypeOK(k)'
  BY <1>5, <1>6 DEF KTypeOK
<1> QED BY <1>1, <1>3, <1>4, <1>6, <1>7, CarefulMove, MovedStep

\* target_mremap with MREMAP_FIXED, and within the place the mapping has.
LEMMA MremapFixedStep ==
  ASSUME CarefulGuest, MapInv, NEW old, NEW oldlen, NEW new, NEW newlen,
         InSpace(old, oldlen), InSpace(new, newlen), target_mremap_fixed(old, oldlen, new, newlen)
  PROVE  MapInv' /\ GuestStep
<1>1. Movable(old, oldlen)
  BY DEF target_mremap_fixed
<1>2. CASE KMovable(k, old, oldlen) /\ Disjoint(old, oldlen, new, newlen)
  BY <1>1, <1>2, KernelMoveStep DEF target_mremap_fixed, Remapped
<1>3. CASE ~ (KMovable(k, old, oldlen) /\ Disjoint(old, oldlen, new, newlen))
  BY <1>3, NothingDone DEF target_mremap_fixed, Remapped
<1> QED BY <1>2, <1>3

LEMMA MremapInplaceStep ==
  ASSUME CarefulGuest, MapInv, NEW old, NEW oldlen, NEW newlen,
         InSpace(old, oldlen), InSpace(old, newlen), target_mremap_inplace(old, oldlen, newlen)
  PROVE  MapInv' /\ GuestStep
<1> DEFINE ok == /\ KMovable(k, old, oldlen)
                 /\ \A p \in Range(old, newlen) \ Range(old, oldlen) : k[p].data = UNMAPPED
<1>1. Movable(old, oldlen)
  BY DEF target_mremap_inplace
<1>2. /\ k' = IF ok THEN KMove(k, old, oldlen, old, newlen) ELSE k
      /\ flags' = IF ok THEN MoveFlags(old, oldlen, old, newlen) ELSE flags
  BY DEF target_mremap_inplace, Remapped
<1> HIDE DEF ok
<1>3. CASE ok
  BY <1>1, <1>2, <1>3, KernelMoveStep
<1>4. CASE ~ ok
  BY <1>2, <1>4, NothingDone
<1> QED BY <1>3, <1>4

\* target_mremap with MREMAP_MAYMOVE: through a place reserved for the mapping.
LEMMA MremapMaymoveStep ==
  ASSUME HP = 1, CarefulGuest, MapInv, NEW old, NEW oldlen, NEW newlen \in Lens,
         InSpace(old, oldlen), target_mremap_maymove(old, oldlen, newlen)
  PROVE  MapInv' /\ GuestStep
<1>1. Movable(old, oldlen) /\ newlen \in Nat \ {0} /\ newlen \in Int
  BY Sizes DEF target_mremap_maymove
<1>2. KMovable(k, old, oldlen) /\ \A p \in Range(old, oldlen) : VALID \in flags[p] /\ flags[p] = flags[old]
  BY <1>1, CarefulMove
<1>3. HOST_PAGE_ALIGN(newlen) = newlen
  BY <1>1, OneHostPage
<1>4. CASE KFree(k, newlen) = {} /\ UNCHANGED <<flags, k>>
  BY <1>4, NothingDone
<1>5. ASSUME NEW new \in KFree(k, newlen),
             k' = mmap_reserve(KMove(KAnon(k, new, newlen, {}), old, oldlen, new, newlen), old, oldlen),
             flags' = MoveFlags(old, oldlen, new, newlen)
      PROVE  MapInv' /\ GuestStep
  <2>1. InSpace(new, newlen) /\ new \in Int /\ new \in Nat
    BY <1>1 DEF KFree, InSpace, AllPages
  <2>2. /\ Range(old, oldlen) \subseteq AllPages /\ old \in Nat /\ old \in Int
        /\ oldlen \in Nat \ {0} /\ oldlen \in Int
    BY RangeInSpace DEF InSpace
  <2>3. PICK k0 : k0 = k
    OBVIOUS
  <2>4. PICK m : m = KAnon(k0, new, newlen, {})
    OBVIOUS
  <2>5. KTypeOK(k0)
    BY <2>3 DEF MapInv
  <2>6. /\ KTypeOK(m)
        /\ \A p \in AllPages : m[p] =
             IF p \in Range(new, newlen) THEN [prot |-> {}, data |-> ZERO, file |-> ANON] ELSE k0[p]
    <3>1. PICK none \in SUBSET {"R", "W", "X"} : none = {}
      OBVIOUS
    <3> QED BY <3>1, <2>1, <2>4, <2>5, <1>1, KAnonIs
  <2>7. \A p \in Range(old, oldlen) : p \notin Range(new, newlen) /\ m[p] = k[p]
    <3>1. TAKE p \in Range(old, oldlen)
    <3>2. k[p].data # UNMAPPED
      BY <1>2 DEF KMovable, KMapped
    <3>3. p \notin Range(new, newlen)
      BY <3>2, <1>5 DEF KFree
    <3> QED BY <3>3, <2>2, <2>3, <2>6
  <2>8. PICK moved : moved = KMove(m, old, oldlen, new, newlen)
    OBVIOUS
  <2>9. KTypeOK(moved)
    BY <2>1, <2>2, <2>6, <2>8, <1>1, KMoveIs
  <2>10. k' = [p \in AllPages |-> IF p \in Range(old, oldlen) THEN [NoMapping EXCEPT !.data = ZERO] ELSE moved[p]]
    <3>1. WholeHostPages(old, oldlen) = Range(old, oldlen)
      BY <2>2, WholeIsRange
    <3>2. k' = mmap_reserve(moved, old, oldlen)
      BY <1>5, <2>3, <2>4, <2>8
    <3> QED BY <3>1, <3>2 DEF mmap_reserve
  <2>11. [NoMapping EXCEPT !.data = ZERO] \in Page /\ [NoMapping EXCEPT !.data = ZERO].file >= ANON
    BY DEF NoMapping, Page, ZERO, ANON
  <2>12. KTypeOK(k)'
    BY <2>9, <2>10, <2>11 DEF KTypeOK
  <2>13. \A p \in AllPages : p \in Range(new, newlen) \/ p \notin Range(old, oldlen) =>
            k'[p] = KMove(m, old, oldlen, new, newlen)[p]
    BY <2>7, <2>8, <2>10
  <2>14. \A p \in AllPages : p \notin Range(new, newlen) /\ VALID \in flags[p] => m[p] = k[p]
    BY <2>3, <2>6
  <2>15. \A p \in Range(old, oldlen) : m[p] = k[p]
    BY <2>7
  <2> QED BY <1>2, <1>5, <2>1, <2>6, <2>12, <2>13, <2>14, <2>15, MovedStep
<1>6. \/ KFree(k, newlen) = {} /\ UNCHANGED <<flags, k>>
      \/ \E new \in KFree(k, newlen) :
           /\ k' = mmap_reserve(KMove(KAnon(k, new, newlen, {}), old, oldlen, new, newlen), old, oldlen)
           /\ flags' = MoveFlags(old, oldlen, new, newlen)
  BY <1>2, <1>3 DEF target_mremap_maymove, Remapped
<1> QED BY <1>4, <1>5, <1>6

\* A store of the guest.
LEMMA WriteStep ==
  ASSUME MapInv, NEW p \in AllPages, GuestWrite(p)
  PROVE  MapInv' /\ GuestStep
<1>1. /\ VALID \in flags[p] /\ "W" \in flags[p] /\ flags' = flags
      /\ k' = [k EXCEPT ![p].data = DIRTY]
  BY DEF GuestWrite
<1>2. /\ \A q \in AllPages : k[q] \in Page /\ k[q].file >= ANON
      /\ k \in [AllPages -> Page]
  BY DEF MapInv, KTypeOK
<1>3. /\ k'[p] = [k[p] EXCEPT !.data = DIRTY]
      /\ \A q \in AllPages : q # p => k'[q] = k[q]
      /\ k' = [q \in AllPages |-> k'[q]]
  BY <1>1, <1>2
<1>4. k'[p] \in Page /\ k'[p].file >= ANON /\ k'[p].data = DIRTY
  BY <1>2, <1>3 DEF Page, DIRTY
<1>5. KTypeOK(k)'
  <2>1. \A q \in AllPages : k'[q] \in Page /\ k'[q].file >= ANON
    BY <1>2, <1>3, <1>4
  <2> QED BY <2>1, <1>3 DEF KTypeOK
<1>6. MapInv'
  BY <1>1, <1>3, <1>4, <1>5 DEF MapInv, ValidIsMapped, DIRTY, UNMAPPED
<1>7. space[p] = [rights |-> Bits(flags[p]), data |-> k[p].data]
  BY <1>1, SpaceIs
<1>8. space'[p] = [rights |-> Bits(flags[p]), data |-> DIRTY]
  BY <1>1, <1>4, SpaceIs
<1>9. \A q \in AllPages : q # p => space'[q] = space[q]
  BY <1>1, <1>3, SameView
<1>10. "W" \in space[p].rights
  BY <1>1, <1>7 DEF Bits
<1>11. space'[p] = [space[p] EXCEPT !.data = DIRTY]
  BY <1>7, <1>8
<1>12. space' = [space EXCEPT ![p].data = DIRTY]
  BY <1>9, <1>11, SpaceIs
<1>13. Abstract!Write(p)
  BY <1>10, <1>12 DEF Abstract!Write, Abstract!DIRTY, DIRTY
<1>14. Abstract!Next
  BY <1>13 DEF Abstract!Next, Abstract!AllPages, AllPages
<1> QED BY <1>6, <1>14 DEF GuestStep

\* The empty address space.
LEMMA InitView == Init => MapInv /\ Abstract!Init
<1> SUFFICES ASSUME Init PROVE MapInv /\ Abstract!Init
  OBVIOUS
<1>1. NoMapping \in Page /\ NoMapping.file >= ANON
  BY DEF NoMapping, Page, UNMAPPED, ANON
<1>2. MapInv
  BY <1>1 DEF Init, MapInv, KTypeOK, ValidIsMapped
<1>3. \A p \in AllPages : space[p] = Abstract!NoPage
  BY SpaceIs DEF Init
<1>4. Abstract!Init
  BY <1>3, SpaceIs DEF Abstract!Init, Abstract!AllPages, AllPages
<1> QED BY <1>2, <1>4

\* Every step, with guest pages as large as host pages.
LEMMA NextView ==
  ASSUME HP = 1, CarefulGuest
  PROVE  MapInv /\ [Next]_vars => MapInv' /\ GuestStep
<1> SUFFICES ASSUME MapInv, [Next]_vars PROVE MapInv' /\ GuestStep
  OBVIOUS
<1>1. ASSUME NEW len \in Lens, NEW r \in Rights, target_mmap_anywhere(len, r, TRUE, 0)
      PROVE  MapInv' /\ GuestStep
  <2>1. 0 \in 0 .. NFile
    BY Sizes
  <2> QED BY <1>1, <2>1, AnywhereStep
<1>2. ASSUME NEW len \in Lens, NEW r \in Rights, NEW offset \in 0 .. NFile - len,
             target_mmap_anywhere(len, r, FALSE, offset)
      PROVE  MapInv' /\ GuestStep
  <2>1. offset \in 0 .. NFile
    BY Sizes
  <2> QED BY <1>2, <2>1, AnywhereStep
<1>3. ASSUME NEW len \in Lens, NEW start \in 0 .. NP - len
      PROVE  InSpace(start, len)
  BY Sizes DEF InSpace
<1>4. ASSUME NEW len \in Lens, NEW r \in Rights, NEW start \in 0 .. NP - len, MmapCall(start, len, r)
      PROVE  MapInv' /\ GuestStep
  <2>1. InSpace(start, len) /\ start \in Int /\ len \in Nat \ {0}
    BY <1>3, Sizes
  <2>2. CASE target_mmap_fixed(start, len, r, TRUE, FALSE, 0)
    <3>1. 0 \in 0 .. NFile
      BY Sizes
    <3> QED BY <2>1, <2>2, <3>1, FixedStep
  <2>3. ASSUME NEW offset \in 0 .. NFile - len, NEW shared \in BOOLEAN,
               target_mmap_fixed(start, len, r, FALSE, shared, offset)
        PROVE  MapInv' /\ GuestStep
    <3>1. offset \in 0 .. NFile
      BY Sizes
    <3> QED BY <2>1, <2>3, <3>1, FixedStep
  <2>4. ASSUME NEW offset \in 0 .. NFile - len, NEW shared \in BOOLEAN,
               target_mmap_read(start, len, r, shared, offset)
        PROVE  MapInv' /\ GuestStep
    <3>1. offset % HP = 0 /\ start % HP = 0
      BY <2>1, OneHostPage
    <3> QED BY <2>4, <3>1 DEF target_mmap_read
  <2> QED BY <1>4, <2>2, <2>3, <2>4 DEF MmapCall
<1>5. ASSUME NEW len \in Lens, NEW r \in Rights, NEW start \in 0 .. NP - len, target_mprotect(start, len, r)
      PROVE  MapInv' /\ GuestStep
  BY <1>3, <1>5, MprotectStep
<1>6. ASSUME NEW len \in Lens, NEW start \in 0 .. NP - len, target_munmap(start, len)
      PROVE  MapInv' /\ GuestStep
  BY <1>3, <1>6, MunmapStep
<1>7. ASSUME NEW len \in Lens, NEW start \in 0 .. NP - len, NEW newlen \in Lens,
             MremapCall(start, len, newlen)
      PROVE  MapInv' /\ GuestStep
  <2>1. InSpace(start, len)
    BY <1>3
  <2>2. CASE target_mremap_maymove(start, len, newlen)
    BY <2>1, <2>2, MremapMaymoveStep
  <2>3. CASE start + newlen <= NP /\ target_mremap_inplace(start, len, newlen)
    <3>1. InSpace(start, newlen)
      BY <2>3, Sizes DEF InSpace
    <3> QED BY <2>1, <2>3, <3>1, MremapInplaceStep
  <2>4. ASSUME NEW new \in 0 .. NP - newlen, target_mremap_fixed(start, len, new, newlen)
        PROVE  MapInv' /\ GuestStep
    <3>1. InSpace(new, newlen)
      BY <1>3
    <3> QED BY <2>1, <2>4, <3>1, MremapFixedStep
  <2> QED BY <1>7, <2>2, <2>3, <2>4 DEF MremapCall
<1>8. ASSUME NEW p \in AllPages, GuestWrite(p) PROVE MapInv' /\ GuestStep
  BY <1>8, WriteStep
<1>9. CASE UNCHANGED vars
  BY <1>9, NothingDone DEF vars
<1> QED BY <1>1, <1>2, <1>4, <1>5, <1>6, <1>7, <1>8, <1>9 DEF Next, Call

\* With guest pages as large as host pages (the default, without option -p), page
\* flags and kernel mappings implement the guest's address space, whatever a guest
\* that protects and moves only what it has mapped asks of mmap, mprotect, munmap
\* and mremap, for every size of the address space and of the file.
THEOREM AddressSpaceImplemented ==
  ASSUME HP = 1, CarefulGuest
  PROVE  Spec => ImplementsAddressSpace
<1>1. Init => MapInv /\ Abstract!Init
  BY InitView
<1>2. MapInv /\ [Next]_vars => MapInv' /\ [Abstract!Next]_space
  BY NextView DEF GuestStep
<1> QED BY <1>1, <1>2, PTL DEF Spec, ImplementsAddressSpace, Abstract!Spec

(***************************************************************************)
(* Host pages of any number of guest pages: arithmetic                     *)
(***************************************************************************)

\* An address where a host page starts.
HostMultiple(a) == \E x \in Int : a = x * HP

LEMMA MultiplesInOrder ==
  ASSUME NEW x \in Int, NEW y \in Int, x * HP < y * HP
  PROVE  x * HP + HP <= y * HP
<1>1. HP \in Nat \ {0}
  BY Sizes
<1>2. ASSUME y <= x PROVE FALSE
  <2>1. PICK d \in Nat : x = y + d
    BY <1>2
  <2>2. x * HP = y * HP + d * HP
    BY <1>1, <2>1
  <2>3. d * HP >= 0
    BY <1>1
  <2> QED BY <1>1, <2>2, <2>3
<1>3. PICK d \in Nat : y = x + 1 + d
  BY <1>2
<1>4. y * HP = x * HP + HP + d * HP
  BY <1>1, <1>3
<1>5. d * HP >= 0
  BY <1>1
<1> QED BY <1>1, <1>4, <1>5

\* Two host pages are the same or do not overlap.
LEMMA HostPagesApart ==
  ASSUME NEW a, NEW b, HostMultiple(a), HostMultiple(b), a < b
  PROVE  a \in Int /\ b \in Int /\ a + HP <= b
<1>1. PICK x \in Int : a = x * HP
  BY DEF HostMultiple
<1>2. PICK y \in Int : b = y * HP
  BY DEF HostMultiple
<1>3. HP \in Int
  BY Sizes
<1> QED BY <1>1, <1>2, <1>3, MultiplesInOrder

\* The host page that a page is in.
LEMMA HostStartIs ==
  ASSUME NEW p \in Nat
  PROVE  /\ HostStart(p) \in Nat /\ HostMultiple(HostStart(p))
         /\ HostStart(p) <= p /\ p < HostStart(p) + HP
<1>1. HP \in Nat \ {0}
  BY Sizes
<1>2. PICK q : q = p \div HP
  OBVIOUS
<1>3. q \in Nat /\ q * HP <= p /\ p < (q + 1) * HP
  BY <1>1, <1>2
<1>4. (q + 1) * HP = q * HP + HP /\ q * HP \in Nat
  BY <1>1, <1>3
<1>5. HostStart(p) = q * HP
  BY <1>2 DEF HostStart
<1> QED BY <1>1, <1>3, <1>4, <1>5 DEF HostMultiple

\* The end of the host page that ends at or behind p.
LEMMA HostAlignIs ==
  ASSUME NEW p \in Nat
  PROVE  /\ HOST_PAGE_ALIGN(p) \in Nat /\ HostMultiple(HOST_PAGE_ALIGN(p))
         /\ p <= HOST_PAGE_ALIGN(p) /\ HOST_PAGE_ALIGN(p) < p + HP
<1>1. HP \in Nat \ {0}
  BY Sizes
<1>2. PICK q : q = (p + HP - 1) \div HP
  OBVIOUS
<1>3. q \in Nat /\ q * HP <= p + HP - 1 /\ p + HP - 1 < (q + 1) * HP
  BY <1>1, <1>2
<1>4. (q + 1) * HP = q * HP + HP /\ q * HP \in Nat
  BY <1>1, <1>3
<1>5. HOST_PAGE_ALIGN(p) = q * HP
  BY <1>2 DEF HOST_PAGE_ALIGN
<1> QED BY <1>1, <1>3, <1>4, <1>5 DEF HostMultiple

\* What is a multiple of the host page size.
LEMMA MultipleIs ==
  ASSUME NEW p \in Nat, p % HP = 0
  PROVE  HostMultiple(p)
<1>1. HP \in Nat \ {0}
  BY Sizes
<1>2. PICK q : q = p \div HP
  OBVIOUS
<1>3. q \in Nat /\ p = q * HP + (p % HP)
  BY <1>1, <1>2
<1>4. q * HP \in Nat
  BY <1>1, <1>3
<1> QED BY <1>3, <1>4 DEF HostMultiple

LEMMA SumOfMultiples ==
  ASSUME NEW a, NEW b, HostMultiple(a), HostMultiple(b)
  PROVE  HostMultiple(a + b)
<1>1. PICK x \in Int : a = x * HP
  BY DEF HostMultiple
<1>2. PICK y \in Int : b = y * HP
  BY DEF HostMultiple
<1>3. HP \in Int
  BY Sizes
<1>4. (x + y) * HP = x * HP + y * HP /\ x + y \in Int
  BY <1>3
<1> QED BY <1>1, <1>2, <1>4 DEF HostMultiple

LEMMA HPIsMultiple == HostMultiple(HP)
<1>1. HP = 1 * HP /\ 1 \in Int
  BY Sizes
<1> QED BY <1>1 DEF HostMultiple

LEMMA NPIsMultiple == HostMultiple(NP)
<1>1. NP % HP = 0 /\ NP \in Nat
  BY MmapAssumption DEF MmapConstants
<1> QED BY <1>1, MultipleIs

\* Rounding leaves an address alone where a host page starts.
LEMMA MultipleStays ==
  ASSUME NEW a \in Nat, HostMultiple(a)
  PROVE  HostStart(a) = a /\ HOST_PAGE_ALIGN(a) = a
<1>1. HP \in Nat \ {0}
  BY Sizes
<1>2. /\ HostStart(a) \in Nat /\ HostMultiple(HostStart(a))
      /\ HostStart(a) <= a /\ a < HostStart(a) + HP
  BY HostStartIs
<1>3. /\ HOST_PAGE_ALIGN(a) \in Nat /\ HostMultiple(HOST_PAGE_ALIGN(a))
      /\ a <= HOST_PAGE_ALIGN(a) /\ HOST_PAGE_ALIGN(a) < a + HP
  BY HostAlignIs
<1>4. ~ (HostStart(a) < a)
  BY <1>1, <1>2, HostPagesApart
<1>5. ~ (a < HOST_PAGE_ALIGN(a))
  BY <1>1, <1>3, HostPagesApart
<1> QED BY <1>2, <1>3, <1>4, <1>5

\* The pages of a host page are those whose host page it is.
LEMMA InHostPage ==
  ASSUME NEW h \in Nat, HostMultiple(h), NEW p \in Nat
  PROVE  p \in Range(h, HP) <=> HostStart(p) = h
<1>1. HP \in Nat \ {0}
  BY Sizes
<1>2. /\ HostStart(p) \in Nat /\ HostMultiple(HostStart(p))
      /\ HostStart(p) <= p /\ p < HostStart(p) + HP
  BY HostStartIs
<1>3. ASSUME p \in Range(h, HP) PROVE HostStart(p) = h
  <2>1. h <= p /\ p < h + HP
    BY <1>1, <1>3 DEF Range
  <2>2. ~ (HostStart(p) < h)
    BY <1>1, <1>2, <2>1, HostPagesApart
  <2>3. ~ (h < HostStart(p))
    BY <1>1, <1>2, <2>1, HostPagesApart
  <2> QED BY <1>2, <2>2, <2>3
<1>4. ASSUME HostStart(p) = h PROVE p \in Range(h, HP)
  BY <1>1, <1>2, <1>4 DEF Range
<1> QED BY <1>3, <1>4

\* Every host page lies in the address space as a whole.
LEMMA HostPageInSpace ==
  ASSUME NEW p \in AllPages
  PROVE  /\ HostStart(p) \in Nat /\ HostStart(p) + HP <= NP /\ Range(HostStart(p), HP) \subseteq AllPages
<1>1. HP \in Nat \ {0} /\ NP \in Nat /\ p \in Nat /\ p < NP
  BY Sizes DEF AllPages
<1>2. /\ HostStart(p) \in Nat /\ HostMultiple(HostStart(p)) /\ HostStart(p) <= p
  BY <1>1, HostStartIs
<1>3. HostStart(p) + HP <= NP
  BY <1>1, <1>2, NPIsMultiple, HostPagesApart
<1> QED BY <1>1, <1>2, <1>3 DEF Range, AllPages

\* A set of whole host pages.
WholePages(S) == \A p, q \in AllPages : HostStart(p) = HostStart(q) => (p \in S <=> q \in S)

LEMMA WholeRangeIs ==
  ASSUME NEW a \in Nat, NEW b \in Nat, HostMultiple(a), HostMultiple(b)
  PROVE  WholePages(a .. b - 1)
<1> SUFFICES ASSUME NEW p \in AllPages, NEW q \in AllPages, HostStart(p) = HostStart(q), p \in a .. b - 1
             PROVE  q \in a .. b - 1
  BY DEF WholePages
<1>1. HP \in Nat \ {0} /\ p \in Nat /\ q \in Nat
  BY Sizes DEF AllPages
<1>2. PICK h : h = HostStart(p)
  OBVIOUS
<1>3. h \in Nat /\ HostMultiple(h) /\ h <= p /\ p < h + HP /\ h <= q /\ q < h + HP
  BY <1>1, <1>2, HostStartIs
<1>4. a <= p /\ h < b
  BY <1>1, <1>3
<1>5. ~ (h < a)
  <2>1. ASSUME h < a PROVE FALSE
    <3>1. h + HP <= a
      BY <2>1, <1>3, HostPagesApart
    <3> QED BY <3>1, <1>1, <1>3, <1>4
  <2> QED BY <2>1
<1>6. h + HP <= b
  BY <1>3, <1>4, HostPagesApart
<1> QED BY <1>1, <1>3, <1>5, <1>6


(***************************************************************************)
(* Host pages of any size: the invariant                                   *)
(***************************************************************************)

\* The kernel's mappings are the same all over a host page: there or not, and with
\* one set of rights.
HostUniform(m) ==
  \A p, q \in AllPages : HostStart(p) = HostStart(q) =>
     m[p].prot = m[q].prot /\ (m[p].data # UNMAPPED <=> m[q].data # UNMAPPED)

\* What is not valid has no flags.
PlainFlags == \A p \in AllPages : flags[p] # {} => VALID \in flags[p]

\* The inductive invariant of host pages of any size.
HostInv ==
  /\ flags \in [AllPages -> SUBSET {"R", "W", "X", VALID}]
  /\ KTypeOK(k) /\ HostUniform(k)
  /\ RightsGranted /\ PlainFlags

\* x is what a call on the pages S may leave: the valid pages outside S have their
\* contents, and the rights that their flags record.
KeepsOutside(x, S) ==
  /\ KTypeOK(x) /\ HostUniform(x)
  /\ \A p \in AllPages : p \notin S /\ VALID \in flags[p] =>
        x[p].data = k[p].data /\ x[p].data # UNMAPPED /\ Bits(flags[p]) \subseteq x[p].prot

LEMMA KeepsAtFirst ==
  ASSUME HostInv, NEW S
  PROVE  KeepsOutside(k, S)
BY DEF HostInv, KeepsOutside, RightsGranted

\* Whole host pages get new mappings of one kind.
LEMMA PatchKeeps ==
  ASSUME NEW x, NEW S, KeepsOutside(x, S), NEW y, KTypeOK(y), NEW A, WholePages(A), NEW prot,
         \A p \in AllPages : p \notin A => y[p] = x[p],
         \A p \in AllPages : p \in A => y[p].prot = prot /\ y[p].data # UNMAPPED,
         \A p \in AllPages : p \in A /\ p \notin S /\ VALID \in flags[p] =>
            y[p].data = x[p].data /\ Bits(flags[p]) \subseteq prot
  PROVE  KeepsOutside(y, S)
<1>1. HostUniform(y)
  <2> SUFFICES ASSUME NEW p \in AllPages, NEW q \in AllPages, HostStart(p) = HostStart(q)
               PROVE  y[p].prot = y[q].prot /\ (y[p].data # UNMAPPED <=> y[q].data # UNMAPPED)
    BY DEF HostUniform
  <2>1. p \in A <=> q \in A
    BY DEF WholePages
  <2>2. CASE p \in A
    BY <2>1, <2>2
  <2>3. CASE p \notin A
    BY <2>1, <2>3 DEF KeepsOutside, HostUniform
  <2> QED BY <2>2, <2>3
<1>2. ASSUME NEW p \in AllPages, p \notin S, VALID \in flags[p]
      PROVE  y[p].data = k[p].data /\ y[p].data # UNMAPPED /\ Bits(flags[p]) \subseteq y[p].prot
  <2>1. x[p].data = k[p].data /\ x[p].data # UNMAPPED /\ Bits(flags[p]) \subseteq x[p].prot
    BY <1>2 DEF KeepsOutside
  <2>2. CASE p \in A
    BY <1>2, <2>1, <2>2
  <2>3. CASE p \notin A
    BY <2>1, <2>3
  <2> QED BY <2>2, <2>3
<1> QED BY <1>1, <1>2 DEF KeepsOutside

\* Pages get new contents.
LEMMA AlikeKeeps ==
  ASSUME NEW x, NEW S, KeepsOutside(x, S), NEW y, KTypeOK(y),
         \A p \in AllPages : y[p].prot = x[p].prot /\ (y[p].data # UNMAPPED <=> x[p].data # UNMAPPED),
         \A p \in AllPages : p \notin S => y[p].data = x[p].data
  PROVE  KeepsOutside(y, S)
<1>1. HostUniform(y)
  BY DEF KeepsOutside, HostUniform
<1> QED BY <1>1 DEF KeepsOutside

\* A range of whole host pages.
WholeRange(a, b) ==
  a \in Nat /\ b \in Nat /\ a < b /\ b <= NP /\ HostMultiple(a) /\ HostMultiple(b)

LEMMA WholeRangeType ==
  ASSUME NEW a, NEW b, WholeRange(a, b)
  PROVE  /\ a \in Nat /\ b - a \in Nat \ {0} /\ Range(a, b - a) = a .. b - 1
         /\ a .. b - 1 \subseteq AllPages /\ WholePages(a .. b - 1)
<1>1. a \in Nat /\ b \in Nat /\ a < b /\ b <= NP /\ HostMultiple(a) /\ HostMultiple(b)
  BY DEF WholeRange
<1>2. WholePages(a .. b - 1)
  BY <1>1, WholeRangeIs
<1> QED BY <1>1, <1>2, Sizes DEF Range, AllPages

\* The pages of A are mapped, with rights r at least.
Granted(y, A, r) == \A p \in A : y[p].data # UNMAPPED /\ r \subseteq y[p].prot

\* mprotect on whole host pages that are mapped.
LEMMA ProtectStage ==
  ASSUME NEW x, NEW S, KeepsOutside(x, S), NEW a, NEW b, WholeRange(a, b),
         NEW rights \in SUBSET {"R", "W", "X"},
         \A p \in a .. b - 1 : x[p].data # UNMAPPED,
         \A p \in AllPages : p \in a .. b - 1 /\ p \notin S => Bits(flags[p]) \subseteq rights
  PROVE  LET y == KProtect(x, a, b - a, rights)
         IN  /\ y.ok /\ KeepsOutside(y.m, S)
             /\ \A p \in AllPages : /\ y.m[p].data = x[p].data
                                    /\ p \in a .. b - 1 => y.m[p].prot = rights
                                    /\ p \notin a .. b - 1 => y.m[p].prot = x[p].prot
<1>1. PICK st : st = KProtect(x, a, b - a, rights)
  OBVIOUS
<1>2. /\ a \in Nat /\ b - a \in Nat \ {0} /\ Range(a, b - a) = a .. b - 1
      /\ a .. b - 1 \subseteq AllPages /\ WholePages(a .. b - 1)
  BY WholeRangeType
<1>3. KTypeOK(x)
  BY DEF KeepsOutside
<1>4. KMapped(x, Range(a, b - a))
  BY <1>2 DEF KMapped
<1>5. /\ st.ok /\ KTypeOK(st.m)
      /\ \A p \in AllPages : st.m[p] = IF p \in Range(a, b - a) THEN [x[p] EXCEPT !.prot = rights] ELSE x[p]
  BY <1>1, <1>2, <1>3, <1>4, KProtectIs
<1>6. PICK y : y = st.m
  OBVIOUS
<1>7. /\ KTypeOK(y)
      /\ \A p \in AllPages : /\ p \notin a .. b - 1 => y[p] = x[p]
                             /\ p \in a .. b - 1 => y[p] = [x[p] EXCEPT !.prot = rights]
  BY <1>2, <1>5, <1>6
<1>8. \A p \in AllPages : p \in a .. b - 1 => y[p].prot = rights /\ y[p].data = x[p].data
  <2>1. TAKE p \in AllPages
  <2>2. HAVE p \in a .. b - 1
  <2>3. x[p] \in Page
    BY <1>3 DEF KTypeOK
  <2>4. [x[p] EXCEPT !.prot = rights].data = x[p].data /\ [x[p] EXCEPT !.prot = rights].prot = rights
    BY <2>3 DEF Page
  <2> QED BY <2>2, <2>4, <1>7
<1>9. KeepsOutside(y, S)
  <2>1. PICK A : A = a .. b - 1
    OBVIOUS
  <2>2. \A p \in AllPages : p \notin A => y[p] = x[p]
    BY <2>1, <1>7
  <2>3. \A p \in AllPages : p \in A => y[p].prot = rights /\ y[p].data # UNMAPPED
    BY <2>1, <1>8
  <2>4. \A p \in AllPages : p \in A /\ p \notin S /\ VALID \in flags[p] =>
            y[p].data = x[p].data /\ Bits(flags[p]) \subseteq rights
    BY <2>1, <1>8
  <2>5. KTypeOK(y) /\ WholePages(A) /\ KeepsOutside(x, S)
    BY <2>1, <1>2, <1>7
  <2> QED BY ONLY <2>2, <2>3, <2>4, <2>5, PatchKeeps
<1> QED BY <1>1, <1>5, <1>6, <1>7, <1>8, <1>9

\* An anonymous mapping of whole host pages in which nothing else is valid.
LEMMA AnonStage ==
  ASSUME NEW x, NEW S, KeepsOutside(x, S), NEW a, NEW b, WholeRange(a, b),
         NEW prot \in SUBSET {"R", "W", "X"},
         \A p \in AllPages : p \in a .. b - 1 /\ p \notin S => VALID \notin flags[p]
  PROVE  LET y == KAnon(x, a, b - a, prot)
         IN  /\ KeepsOutside(y, S)
             /\ \A p \in a .. b - 1 : y[p].data = ZERO /\ y[p].prot = prot
             /\ \A p \in AllPages : p \notin a .. b - 1 => y[p] = x[p]
<1>1. PICK y : y = KAnon(x, a, b - a, prot)
  OBVIOUS
<1>2. /\ a \in Nat /\ b - a \in Nat \ {0} /\ Range(a, b - a) = a .. b - 1
      /\ a .. b - 1 \subseteq AllPages /\ WholePages(a .. b - 1)
  BY WholeRangeType
<1>3. KTypeOK(x) /\ a \in Int /\ b - a \in Int
  BY <1>2 DEF KeepsOutside
<1>4. /\ KTypeOK(y)
      /\ \A p \in AllPages : y[p] =
           IF p \in Range(a, b - a) THEN [prot |-> prot, data |-> ZERO, file |-> ANON] ELSE x[p]
  BY <1>1, <1>3, KAnonIs
<1>5. PICK A : A = a .. b - 1
  OBVIOUS
<1>6. \A p \in AllPages : p \notin A => y[p] = x[p]
  BY <1>2, <1>4, <1>5
<1>7. \A p \in AllPages : p \in A => y[p].prot = prot /\ y[p].data = ZERO
  <2>1. TAKE p \in AllPages
  <2>2. HAVE p \in A
  <2>3. y[p] = [prot |-> prot, data |-> ZERO, file |-> ANON]
    BY <2>2, <1>2, <1>4, <1>5
  <2> QED BY <2>3
<1>8. \A p \in AllPages : p \in A => y[p].prot = prot /\ y[p].data # UNMAPPED
  BY <1>7 DEF ZERO, UNMAPPED
<1>9. \A p \in AllPages : p \in A /\ p \notin S /\ VALID \in flags[p] =>
            y[p].data = x[p].data /\ Bits(flags[p]) \subseteq prot
  BY <1>5
<1>10. KTypeOK(y) /\ WholePages(A) /\ KeepsOutside(x, S)
  BY <1>2, <1>4, <1>5
<1>11. KeepsOutside(y, S)
  BY ONLY <1>6, <1>8, <1>9, <1>10, PatchKeeps
<1> QED BY <1>1, <1>2, <1>5, <1>6, <1>7, <1>11

\* Two states of the kernel that differ within A at most.
SameBeside(y, x, A) == \A p \in AllPages : p \notin A => y[p] = x[p]

\* The same with pages of the file.
LEMMA FileStage ==
  ASSUME NEW x, NEW S, KeepsOutside(x, S), NEW a, NEW b, WholeRange(a, b),
         NEW prot \in SUBSET {"R", "W", "X"}, NEW offset \in Nat,
         \A p \in AllPages : p \in a .. b - 1 /\ p \notin S => VALID \notin flags[p]
  PROVE  LET y == KFile(x, a, b - a, prot, offset)
         IN  KeepsOutside(y, S) /\ Granted(y, a .. b - 1, prot) /\ SameBeside(y, x, a .. b - 1)
<1>1. PICK y : y = KFile(x, a, b - a, prot, offset)
  OBVIOUS
<1>2. /\ a \in Nat /\ b - a \in Nat \ {0} /\ Range(a, b - a) = a .. b - 1
      /\ a .. b - 1 \subseteq AllPages /\ WholePages(a .. b - 1)
  BY WholeRangeType
<1>3. KTypeOK(x) /\ a \in Int /\ b - a \in Int
  BY <1>2 DEF KeepsOutside
<1>4. KTypeOK(y)
  BY <1>1, <1>3, KFileIs
<1>5. PICK A : A = a .. b - 1
  OBVIOUS
<1>6. \A p \in AllPages : p \notin A => y[p] = x[p]
  BY <1>1, <1>2, <1>5 DEF KFile, KMap
<1>7. \A p \in AllPages : p \in A => y[p].prot = prot /\ y[p].data # UNMAPPED
  <2>1. TAKE p \in AllPages
  <2>2. HAVE p \in A
  <2>3. PICK i : i = offset + (p - a)
    OBVIOUS
  <2>4. i \in Nat
    BY <1>2, <1>5, <2>2, <2>3
  <2>5. y[p] = [prot |-> prot, data |-> FilePage(i), file |-> i]
    BY <1>1, <1>2, <1>5, <2>2, <2>3 DEF KFile, KMap
  <2>6. FilePage(i) \in 1 .. 10 + NFile
    BY <2>4, FilePageType
  <2>7. FilePage(i) # UNMAPPED
    BY <2>6, Sizes DEF UNMAPPED
  <2> QED BY <2>5, <2>7
<1>9. \A p \in AllPages : p \in A /\ p \notin S /\ VALID \in flags[p] =>
            y[p].data = x[p].data /\ Bits(flags[p]) \subseteq prot
  BY <1>5
<1>10. KTypeOK(y) /\ WholePages(A) /\ KeepsOutside(x, S)
  BY <1>2, <1>4, <1>5
<1>11. KeepsOutside(y, S)
  BY ONLY <1>6, <1>7, <1>9, <1>10, PatchKeeps
<1>12. Granted(y, a .. b - 1, prot)
  BY <1>2, <1>5, <1>7 DEF Granted
<1>13. SameBeside(y, x, a .. b - 1)
  BY <1>5, <1>6 DEF SameBeside
<1> QED BY <1>1, <1>11, <1>12, <1>13

\* Two states of the kernel that differ in contents at most.
SameRights(y, x) ==
  \A p \in AllPages : y[p].prot = x[p].prot /\ (y[p].data # UNMAPPED <=> x[p].data # UNMAPPED)

\* Reading the file into pages that are mapped and writable.
LEMMA ReadStage ==
  ASSUME NEW x, NEW S, KeepsOutside(x, S), NEW a \in Nat, NEW n \in Nat \ {0}, NEW offset \in Nat,
         Range(a, n) \subseteq AllPages, Range(a, n) \subseteq S,
         Granted(x, Range(a, n), {"W"})
  PROVE  LET y == KRead(x, a, n, offset)
         IN  y.ok /\ KeepsOutside(y.m, S) /\ SameRights(y.m, x)
<1>0. \A p \in Range(a, n) : x[p].data # UNMAPPED /\ "W" \in x[p].prot
  BY DEF Granted
<1>1. PICK st : st = KRead(x, a, n, offset)
  OBVIOUS
<1>2. \A p \in Range(a, n) : \A q \in a .. p : q \in Range(a, n)
  BY DEF Range
<1>3. {p \in Range(a, n) : \A q \in a .. p : "W" \in x[q].prot} = Range(a, n)
  BY <1>0, <1>2
<1>4. PICK y : y = st.m
  OBVIOUS
<1>5. /\ st.ok = (offset >= NFile \/ a \in Range(a, n))
      /\ y = [p \in AllPages |-> IF p \in Range(a, n) /\ offset + p - a < NFile
                                 THEN [x[p] EXCEPT !.data = FilePage(offset + p - a)] ELSE x[p]]
  BY <1>1, <1>3, <1>4 DEF KRead
<1>6. st.ok
  <2>1. a \in Range(a, n)
    BY DEF Range
  <2> QED BY <1>5, <2>1
<1>7. KTypeOK(x)
  BY DEF KeepsOutside
<1>8. \A p \in AllPages : /\ y[p] \in Page /\ y[p].file >= ANON /\ y[p].prot = x[p].prot
                          /\ (y[p].data # UNMAPPED <=> x[p].data # UNMAPPED)
                          /\ p \notin S => y[p].data = x[p].data
  <2>1. TAKE p \in AllPages
  <2>2. x[p] \in Page /\ x[p].file >= ANON
    BY <1>7 DEF KTypeOK
  <2>3. CASE p \in Range(a, n) /\ offset + p - a < NFile
    <3>1. PICK d : d = FilePage(offset + p - a)
      OBVIOUS
    <3>2. offset + p - a \in Nat
      BY <2>3 DEF Range
    <3>3. d \in 1 .. 10 + NFile
      BY <3>1, <3>2, FilePageType
    <3>4. d \in Nat /\ d # UNMAPPED
      BY <3>3, Sizes DEF UNMAPPED
    <3>5. y[p] = [x[p] EXCEPT !.data = d]
      BY <2>3, <3>1, <1>5
    <3>6. y[p] \in Page /\ y[p].file = x[p].file /\ y[p].prot = x[p].prot /\ y[p].data = d
      BY <2>2, <3>4, <3>5 DEF Page
    <3>7. p \in S /\ x[p].data # UNMAPPED
      BY <2>3, <1>0
    <3> QED BY <2>2, <3>4, <3>6, <3>7
  <2>4. CASE ~ (p \in Range(a, n) /\ offset + p - a < NFile)
    <3>1. y[p] = x[p]
      BY <2>4, <1>5
    <3> QED BY <3>1, <2>2
  <2> QED BY <2>3, <2>4
<1>9. KTypeOK(y)
  <2>1. y = [p \in AllPages |-> y[p]]
    BY <1>5
  <2> QED BY <2>1, <1>8 DEF KTypeOK
<1>10. KeepsOutside(y, S)
  <2>1. /\ \A p \in AllPages : y[p].prot = x[p].prot /\ (y[p].data # UNMAPPED <=> x[p].data # UNMAPPED)
        /\ \A p \in AllPages : p \notin S => y[p].data = x[p].data
    BY <1>8
  <2>2. KeepsOutside(x, S)
    OBVIOUS
  <2> QED BY ONLY <1>9, <2>1, <2>2, AlikeKeeps
<1>11. SameRights(y, x)
  BY <1>8 DEF SameRights
<1> QED BY <1>1, <1>4, <1>6, <1>10, <1>11

\* Flags of a page outside a range count among those outside.
LEMMA OutsideCounts ==
  ASSUME NEW h, NEW start, NEW end, NEW p \in AllPages, p \in Range(h, HP), p < start \/ p >= end
  PROVE  flags[p] \subseteq Outside(h, start, end) /\ Bits(flags[p]) \subseteq Bits(Outside(h, start, end))
BY DEF Outside, FlagsOf, Bits

\* And if there are any, some page outside has them.
LEMMA OutsideHasPage ==
  ASSUME NEW h, NEW start, NEW end, NEW b \in Outside(h, start, end)
  PROVE  \E p \in AllPages : p \in Range(h, HP) /\ (p < start \/ p >= end) /\ b \in flags[p]
BY DEF Outside, FlagsOf

LEMMA BitsType == \A f : Bits(f) \in SUBSET {"R", "W", "X"}
BY DEF Bits

\* The pages of one host page.
LEMMA OneHostPageRange ==
  ASSUME NEW h \in Nat, HostMultiple(h), h + HP <= NP
  PROVE  /\ WholeRange(h, h + HP) /\ Range(h, HP) = h .. h + HP - 1 /\ (h + HP) - h = HP
         /\ \A p \in h .. h + HP - 1 : p \in AllPages /\ HostStart(p) = h
<1>1. HP \in Nat \ {0} /\ NP \in Nat
  BY Sizes
<1>2. HostMultiple(h + HP)
  BY SumOfMultiples, HPIsMultiple
<1>3. WholeRange(h, h + HP)
  BY <1>1, <1>2 DEF WholeRange
<1>4. Range(h, HP) = h .. h + HP - 1 /\ (h + HP) - h = HP
  BY <1>1 DEF Range
<1>5. ASSUME NEW p \in h .. h + HP - 1
      PROVE  p \in AllPages /\ HostStart(p) = h
  <2>1. p \in Nat /\ p \in AllPages /\ p \in Range(h, HP)
    BY <1>1, <1>4 DEF AllPages
  <2> QED BY <2>1, InHostPage
<1> QED BY <1>3, <1>4, <1>5

\* A mapping S from start to end that starts in the host page from h to b.
FragAt(S, start, end, h, b) ==
  /\ start \in Nat /\ end \in Nat /\ S = start .. end - 1
  /\ h \in Nat /\ HostMultiple(h) /\ b = h + HP /\ b <= NP
  /\ h <= start /\ start < b /\ b <= end

\* The host page and its rights when the fragment is put there.
FragPage(x, h, start, b, prot) == IF Outside(h, start, b) = {} THEN KAnon(x, h, HP, prot) ELSE x
FragRights(h, start, b, prot) == IF Outside(h, start, b) = {} THEN prot ELSE Bits(Outside(h, start, b))

LEMMA FragAtIs ==
  ASSUME NEW S, NEW start, NEW end, NEW h, NEW b, FragAt(S, start, end, h, b)
  PROVE  /\ start \in Nat /\ end \in Nat /\ S = start .. end - 1 /\ h \in Nat /\ b \in Nat
         /\ h <= start /\ start < b /\ b <= end /\ b - h = HP /\ HP \in Nat \ {0}
         /\ WholeRange(h, b) /\ Range(h, HP) = h .. b - 1
         /\ \A p \in h .. b - 1 : p \in AllPages /\ HostStart(p) = h
<1>1. HP \in Nat \ {0} /\ NP \in Nat
  BY Sizes
<1>2. /\ start \in Nat /\ end \in Nat /\ S = start .. end - 1
      /\ h \in Nat /\ HostMultiple(h) /\ b = h + HP /\ b <= NP
      /\ h <= start /\ start < b /\ b <= end
  BY DEF FragAt
<1>3. /\ WholeRange(h, h + HP) /\ Range(h, HP) = h .. h + HP - 1 /\ (h + HP) - h = HP
      /\ \A p \in h .. h + HP - 1 : p \in AllPages /\ HostStart(p) = h
  BY <1>2, OneHostPageRange
<1> QED BY <1>1, <1>2, <1>3

\* What mmap_frag finds or makes: the host page is mapped, with all the rights that
\* its pages outside the mapping need.
LEMMA FragBase ==
  ASSUME PlainFlags, NEW start, NEW end, NEW S, NEW h, NEW b, FragAt(S, start, end, h, b),
         NEW x, KeepsOutside(x, S), NEW prot \in SUBSET {"R", "W", "X"}
  PROVE  LET m1 == FragPage(x, h, start, b, prot)
             prot1 == FragRights(h, start, b, prot)
         IN  /\ KeepsOutside(m1, S) /\ prot1 \in SUBSET {"R", "W", "X"} /\ Granted(m1, h .. b - 1, prot1)
             /\ \A p \in AllPages : p \in h .. b - 1 /\ p \notin S => Bits(flags[p]) \subseteq prot1
<1>1. /\ start \in Nat /\ end \in Nat /\ S = start .. end - 1 /\ h \in Nat /\ HP \in Nat \ {0} /\ NP \in Nat
  BY FragAtIs, Sizes
<1>3. b \in Nat /\ WholeRange(h, b) /\ Range(h, HP) = h .. b - 1 /\ b - h = HP /\ b <= end
  BY FragAtIs
<1>4. \A p \in h .. b - 1 : p \in AllPages /\ HostStart(p) = h
  BY FragAtIs
<1>5. PICK m1, prot1 : m1 = FragPage(x, h, start, b, prot) /\ prot1 = FragRights(h, start, b, prot)
  OBVIOUS
<1>6. KeepsOutside(x, S)
  OBVIOUS
<1>7. \A p \in h .. b - 1 : p \notin S => flags[p] \subseteq Outside(h, start, b) /\ Bits(flags[p]) \subseteq Bits(Outside(h, start, b))
  <2>1. TAKE p \in h .. b - 1
  <2>2. HAVE p \notin S
  <2>3. p \in AllPages /\ p \in Range(h, HP) /\ (p < start \/ p >= b)
    BY <2>2, <1>1, <1>3, <1>4
  <2> QED BY <2>3, OutsideCounts
<1>8. CASE Outside(h, start, b) = {}
  <2>1. m1 = KAnon(x, h, b - h, prot) /\ prot1 = prot
    BY <1>3, <1>5, <1>8 DEF FragPage, FragRights
  <2>2. \A p \in h .. b - 1 : p \notin S => flags[p] = {}
    BY <1>7, <1>8
  <2>3. \A p \in AllPages : p \in h .. b - 1 /\ p \notin S => VALID \notin flags[p]
    BY <2>2
  <2>4. /\ KeepsOutside(m1, S)
        /\ \A p \in h .. b - 1 : m1[p].data = ZERO /\ m1[p].prot = prot
    BY <1>3, <1>6, <2>1, <2>3, AnonStage
  <2>5. \A p \in h .. b - 1 : m1[p].data # UNMAPPED /\ prot \subseteq m1[p].prot
    BY <2>4 DEF ZERO, UNMAPPED
  <2>6. \A p \in AllPages : p \in h .. b - 1 /\ p \notin S => Bits(flags[p]) \subseteq prot
    BY <2>2 DEF Bits
  <2>7. Granted(m1, h .. b - 1, prot1)
    BY <2>1, <2>5 DEF Granted
  <2> QED BY <1>5, <2>1, <2>4, <2>6, <2>7
<1>9. CASE Outside(h, start, b) # {}
  <2>1. \A c \in Outside(h, start, b) :
           \E p \in AllPages : /\ p \in h .. b - 1 /\ p \notin S /\ c \in flags[p]
    <3>1. TAKE c \in Outside(h, start, b)
    <3>2. PICK p \in AllPages : p \in Range(h, HP) /\ (p < start \/ p >= b) /\ c \in flags[p]
      BY OutsideHasPage
    <3>3. p \in h .. b - 1 /\ p \notin S
      BY <3>2, <1>1, <1>3 DEF AllPages
    <3> QED BY <3>2, <3>3
  <2>2. \A p, q \in h .. b - 1 : x[p].prot = x[q].prot /\ (x[p].data # UNMAPPED <=> x[q].data # UNMAPPED)
    BY <1>4, <1>6 DEF KeepsOutside, HostUniform
  <2>3. \A p \in AllPages : p \notin S /\ flags[p] # {} =>
           x[p].data # UNMAPPED /\ Bits(flags[p]) \subseteq x[p].prot
    BY <1>6 DEF KeepsOutside, PlainFlags
  <2>4. \A p \in h .. b - 1 : x[p].data # UNMAPPED
    <3>1. PICK c : c \in Outside(h, start, b)
      BY <1>9
    <3>2. PICK q \in AllPages : q \in h .. b - 1 /\ q \notin S /\ c \in flags[q]
      BY <3>1, <2>1
    <3>3. x[q].data # UNMAPPED
      BY <3>2, <2>3
    <3> QED BY <3>2, <3>3, <2>2
  <2>5. \A p \in h .. b - 1 : Bits(Outside(h, start, b)) \subseteq x[p].prot
    <3>1. SUFFICES ASSUME NEW p \in h .. b - 1, NEW c \in Bits(Outside(h, start, b))
                   PROVE  c \in x[p].prot
      OBVIOUS
    <3>2. c \in Outside(h, start, b) /\ c \in {"R", "W", "X"}
      BY DEF Bits
    <3>3. PICK q \in AllPages : q \in h .. b - 1 /\ q \notin S /\ c \in flags[q]
      BY <3>2, <2>1
    <3>4. c \in Bits(flags[q])
      BY <3>2, <3>3 DEF Bits
    <3>5. c \in x[q].prot
      BY <3>3, <3>4, <2>3
    <3> QED BY <3>3, <3>5, <2>2
  <2>6. \A p \in AllPages : p \in h .. b - 1 /\ p \notin S => Bits(flags[p]) \subseteq Bits(Outside(h, start, b))
    BY <1>7
  <2>7. m1 = x /\ prot1 = Bits(Outside(h, start, b))
    BY <1>5, <1>9 DEF FragPage, FragRights
  <2>8. Granted(m1, h .. b - 1, prot1)
    BY <2>4, <2>5, <2>7 DEF Granted
  <2> QED BY <1>5, <1>6, <2>6, <2>7, <2>8, BitsType
<1> QED BY <1>8, <1>9

\* mmap_frag for the host page that a mapping starts in: the page is mapped with the
\* rights asked for, and what it has besides the mapping is kept.
LEMMA FragStage ==
  ASSUME PlainFlags, NEW start, NEW end, NEW S, NEW h, NEW b, FragAt(S, start, end, h, b),
         NEW x, KeepsOutside(x, S), NEW prot \in SUBSET {"R", "W", "X"},
         NEW anon \in BOOLEAN, NEW shared \in BOOLEAN, NEW offset \in Nat, anon \/ ~ (shared /\ "W" \in prot)
  PROVE  LET st == mmap_frag(x, h, start, b, prot, anon, shared, offset)
         IN  st.ok /\ KeepsOutside(st.m, S) /\ Granted(st.m, h .. b - 1, prot)
<1>1. PICK st : st = mmap_frag(x, h, start, b, prot, anon, shared, offset)
  OBVIOUS
<1>2. /\ start \in Nat /\ end \in Nat /\ S = start .. end - 1 /\ h \in Nat /\ b \in Nat
      /\ h <= start /\ start < b /\ b <= end /\ b - h = HP /\ WholeRange(h, b)
      /\ \A p \in h .. b - 1 : p \in AllPages
  BY FragAtIs
<1>3. PICK m1, prot1 : m1 = FragPage(x, h, start, b, prot) /\ prot1 = FragRights(h, start, b, prot)
  OBVIOUS
<1>4. /\ KeepsOutside(m1, S) /\ prot1 \in SUBSET {"R", "W", "X"} /\ Granted(m1, h .. b - 1, prot1)
      /\ \A p \in AllPages : p \in h .. b - 1 /\ p \notin S => Bits(flags[p]) \subseteq prot1
  BY <1>3, FragBase
<1>5. \A p \in h .. b - 1 : m1[p].data # UNMAPPED /\ prot1 \subseteq m1[p].prot
  BY <1>4 DEF Granted
<1>6. PICK new : new = prot \cup prot1
  OBVIOUS
<1>7. /\ new \in SUBSET {"R", "W", "X"} /\ prot1 \cup {"W"} \in SUBSET {"R", "W", "X"}
      /\ \A p \in AllPages : p \in h .. b - 1 /\ p \notin S =>
            Bits(flags[p]) \subseteq new /\ Bits(flags[p]) \subseteq prot1 \cup {"W"}
  BY <1>4, <1>6
<1>8. ASSUME NEW y, KeepsOutside(y, S), \A p \in h .. b - 1 : y[p].data # UNMAPPED,
             NEW rights \in SUBSET {"R", "W", "X"},
             \A p \in AllPages : p \in h .. b - 1 /\ p \notin S => Bits(flags[p]) \subseteq rights
      PROVE  /\ KeepsOutside(KProtect(y, h, HP, rights).m, S)
             /\ \A p \in h .. b - 1 : /\ KProtect(y, h, HP, rights).m[p].data # UNMAPPED
                                      /\ KProtect(y, h, HP, rights).m[p].prot = rights
  <2>1. /\ KeepsOutside(KProtect(y, h, b - h, rights).m, S)
        /\ \A p \in AllPages : /\ KProtect(y, h, b - h, rights).m[p].data = y[p].data
                               /\ p \in h .. b - 1 => KProtect(y, h, b - h, rights).m[p].prot = rights
    <3>1. rights \in SUBSET {"R", "W", "X"} /\ WholeRange(h, b) /\ KeepsOutside(y, S)
      BY <1>2, <1>8
    <3>2. \A p \in h .. b - 1 : y[p].data # UNMAPPED
      BY <1>8
    <3>3. \A p \in AllPages : p \in h .. b - 1 /\ p \notin S => Bits(flags[p]) \subseteq rights
      BY <1>8
    <3> QED BY ONLY <3>1, <3>2, <3>3, ProtectStage
  <2> QED BY <1>2, <1>8, <2>1
<1>9. CASE anon
  <2>1. PICK y : y = IF new = prot1 THEN m1 ELSE KProtect(m1, h, HP, new).m
    OBVIOUS
  <2>2. st = Done(y)
    BY <1>1, <1>3, <1>6, <1>9, <2>1 DEF mmap_frag, FragPage, FragRights
  <2>3. KeepsOutside(y, S) /\ \A p \in h .. b - 1 : y[p].data # UNMAPPED /\ prot \subseteq y[p].prot
    <3>1. CASE new = prot1
      BY <2>1, <3>1, <1>4, <1>5, <1>6
    <3>2. CASE new # prot1
      BY <2>1, <3>2, <1>4, <1>5, <1>6, <1>7, <1>8
    <3> QED BY <3>1, <3>2
  <2>4. Granted(y, h .. b - 1, prot)
    BY <2>3 DEF Granted
  <2> QED BY <1>1, <2>2, <2>3, <2>4, DoneIs
<1>10. CASE ~ anon
  <2>1. PICK m2 : m2 = IF "W" \in prot1 THEN m1 ELSE KProtect(m1, h, HP, prot1 \cup {"W"}).m
    OBVIOUS
  <2>2. PICK read : read = KRead(m2, start, b - start, offset)
    OBVIOUS
  <2>3. PICK m3 : m3 = IF new = prot1 \cup {"W"} THEN read.m ELSE KProtect(read.m, h, HP, new).m
    OBVIOUS
  <2>4. st = IF ~ read.ok THEN read ELSE Done(m3)
    BY <1>1, <1>3, <1>6, <1>10, <2>1, <2>2, <2>3 DEF mmap_frag, FragPage, FragRights
  <2>5. /\ KeepsOutside(m2, S)
        /\ \A p \in h .. b - 1 : m2[p].data # UNMAPPED /\ prot1 \cup {"W"} \subseteq m2[p].prot
    <3>1. CASE "W" \in prot1
      BY <2>1, <3>1, <1>4, <1>5
    <3>2. CASE "W" \notin prot1
      BY <2>1, <3>2, <1>4, <1>5, <1>7, <1>8
    <3> QED BY <3>1, <3>2
  <2>6. PICK n : n = b - start
    OBVIOUS
  <2>7. n \in Nat \ {0} /\ Range(start, n) = start .. b - 1
    BY <1>2, <2>6 DEF Range
  <2>8. \A p \in Range(start, n) : p \in h .. b - 1 /\ p \in S /\ p \in AllPages
    BY <2>7, <1>2
  <2>9. Range(start, n) \subseteq AllPages /\ Range(start, n) \subseteq S
    BY <2>8
  <2>10. Granted(m2, Range(start, n), {"W"})
    BY <2>8, <2>5 DEF Granted
  <2>11. read.ok /\ KeepsOutside(read.m, S) /\ SameRights(read.m, m2)
    <3>1. start \in Nat /\ offset \in Nat /\ read = KRead(m2, start, n, offset)
      BY <1>2, <2>2, <2>6
    <3> QED BY ONLY <3>1, <2>5, <2>7, <2>9, <2>10, ReadStage
  <2>12. PICK y : y = read.m
    OBVIOUS
  <2>14. /\ KeepsOutside(y, S)
         /\ \A p \in h .. b - 1 : y[p].data # UNMAPPED /\ prot1 \cup {"W"} \subseteq y[p].prot
    BY <1>2, <2>5, <2>11, <2>12 DEF SameRights
  <2>15. KeepsOutside(m3, S) /\ \A p \in h .. b - 1 : m3[p].data # UNMAPPED /\ prot \subseteq m3[p].prot
    <3>1. CASE new = prot1 \cup {"W"}
      <4>1. m3 = y /\ prot \subseteq prot1 \cup {"W"}
        BY <3>1, <2>3, <2>12, <1>6
      <4> QED BY <4>1, <2>14
    <3>2. CASE new # prot1 \cup {"W"}
      <4>1. m3 = KProtect(y, h, HP, new).m
        BY <2>3, <2>12, <3>2
      <4>2. \A p \in h .. b - 1 : y[p].data # UNMAPPED
        BY <2>14
      <4>3. /\ KeepsOutside(KProtect(y, h, HP, new).m, S)
            /\ \A p \in h .. b - 1 : /\ KProtect(y, h, HP, new).m[p].data # UNMAPPED
                                     /\ KProtect(y, h, HP, new).m[p].prot = new
        BY <4>2, <2>14, <1>7, <1>8
      <4> QED BY <4>1, <4>3, <1>6
    <3> QED BY <3>1, <3>2
  <2>16. Granted(m3, h .. b - 1, prot)
    BY <2>15 DEF Granted
  <2> QED BY <1>1, <2>4, <2>11, <2>15, <2>16, DoneIs
<1> QED BY <1>9, <1>10

\* The host pages between the fragments.
Middle(x, a, b, prot, anon, offset) ==
  IF anon THEN KAnon(x, a, b - a, prot) ELSE KFile(x, a, b - a, prot, offset)

LEMMA MiddleStage ==
  ASSUME NEW x, NEW S, KeepsOutside(x, S), NEW a, NEW b, WholeRange(a, b), a .. b - 1 \subseteq S,
         NEW prot \in SUBSET {"R", "W", "X"}, NEW anon \in BOOLEAN, NEW offset \in Nat
  PROVE  LET y == Middle(x, a, b, prot, anon, offset)
         IN  /\ KeepsOutside(y, S) /\ Granted(y, a .. b - 1, prot)
             /\ \A p \in AllPages : p \notin a .. b - 1 => y[p] = x[p]
<1>1. PICK y : y = Middle(x, a, b, prot, anon, offset)
  OBVIOUS
<1>2. \A p \in AllPages : p \in a .. b - 1 /\ p \notin S => VALID \notin flags[p]
  OBVIOUS
<1>3. CASE anon
  <2>1. y = KAnon(x, a, b - a, prot)
    BY <1>1, <1>3 DEF Middle
  <2>2. /\ KeepsOutside(y, S)
        /\ \A p \in a .. b - 1 : y[p].data = ZERO /\ y[p].prot = prot
        /\ \A p \in AllPages : p \notin a .. b - 1 => y[p] = x[p]
    BY <1>2, <2>1, AnonStage
  <2>3. Granted(y, a .. b - 1, prot)
    BY <2>2 DEF Granted, ZERO, UNMAPPED
  <2> QED BY <1>1, <2>2, <2>3
<1>4. CASE ~ anon
  <2>1. y = KFile(x, a, b - a, prot, offset)
    BY <1>1, <1>4 DEF Middle
  <2>2. /\ KeepsOutside(y, S) /\ Granted(y, a .. b - 1, prot)
        /\ \A p \in AllPages : p \notin a .. b - 1 => y[p] = x[p]
    <3>1. WholeRange(a, b) /\ KeepsOutside(x, S) /\ prot \in SUBSET {"R", "W", "X"} /\ offset \in Nat
      OBVIOUS
    <3>2. KeepsOutside(y, S) /\ Granted(y, a .. b - 1, prot) /\ SameBeside(y, x, a .. b - 1)
      BY ONLY <1>2, <2>1, <3>1, FileStage
    <3> QED BY <3>2 DEF SameBeside
  <2> QED BY <1>1, <2>2
<1> QED BY <1>3, <1>4

\* target_mmap with MAP_FIXED for a range that ends with a host page.
LEMMA MapFixedIs ==
  ASSUME PlainFlags, NEW start, NEW len, InSpace(start, len), HostMultiple(start + len),
         NEW x, KeepsOutside(x, Range(start, len)), NEW prot \in SUBSET {"R", "W", "X"},
         NEW anon \in BOOLEAN, NEW shared \in BOOLEAN, NEW offset \in Nat,
         anon \/ ~ (shared /\ "W" \in prot) \/ HostMultiple(start)
  PROVE  LET st == MapFixed(x, start, len, prot, anon, shared, offset)
         IN  st.ok /\ KeepsOutside(st.m, Range(start, len)) /\ Granted(st.m, Range(start, len), prot)
<1>1. PICK st : st = MapFixed(x, start, len, prot, anon, shared, offset)
  OBVIOUS
<1>2. PICK end, S, hs : end = start + len /\ S = Range(start, len) /\ hs = HostStart(start)
  OBVIOUS
<1>3. /\ start \in Nat /\ end \in Nat /\ start < end /\ end <= NP /\ HP \in Nat \ {0} /\ NP \in Nat
      /\ S = start .. end - 1 /\ HostMultiple(end) /\ KeepsOutside(x, S) /\ end - start = len
  BY <1>2, Sizes DEF InSpace, Range
<1>4. hs \in Nat /\ HostMultiple(hs) /\ hs <= start /\ start < hs + HP
  BY <1>2, <1>3, HostStartIs
<1>5. HOST_PAGE_ALIGN(end) = end
  BY <1>3, MultipleStays
<1>6. hs + HP <= end
  <2>1. hs < end
    BY <1>3, <1>4
  <2> QED BY <1>3, <1>4, <2>1, HostPagesApart
<1>7. st.ok /\ KeepsOutside(st.m, S) /\ Granted(st.m, S, prot)
  <2>1. CASE ~ (start > hs)
    <3>1. hs = start /\ HostMultiple(start) /\ start < end /\ offset + start - start = offset
      BY <2>1, <1>3, <1>4
    <3>2. PICK y : y = Middle(x, start, end, prot, anon, offset)
      OBVIOUS
    <3>3. st = Done(y)
      <4>1. /\ HostStart(start) = start /\ HOST_PAGE_ALIGN(start + len) = end /\ start + len = end
            /\ ~ (start > start) /\ ~ (end < end)
        BY <1>2, <1>3, <1>5, <3>1
      <4> QED BY <1>1, <3>1, <3>2, <4>1, DoneIs, ZenonT(30) DEF MapFixed, If, Then, Middle
    <3>4. WholeRange(start, end) /\ start .. end - 1 \subseteq S
      BY <1>3, <3>1 DEF WholeRange
    <3>5. KeepsOutside(y, S) /\ Granted(y, start .. end - 1, prot)
      BY <1>3, <3>2, <3>4, MiddleStage
    <3> QED BY <1>3, <3>3, <3>5, DoneIs
  <2>2. CASE start > hs
    <3>1. PICK b, f : b = hs + HP /\ f = mmap_frag(x, hs, start, b, prot, anon, shared, offset)
      OBVIOUS
    <3>2. FragAt(S, start, end, hs, b)
      BY <1>3, <1>4, <1>6, <3>1 DEF FragAt
    <3>3. anon \/ ~ (shared /\ "W" \in prot)
      <4>1. ~ HostMultiple(start)
        BY <1>2, <1>3, <2>2, MultipleStays
      <4> QED BY <4>1
    <3>4. f.ok /\ KeepsOutside(f.m, S) /\ Granted(f.m, hs .. b - 1, prot)
      BY <1>3, <3>1, <3>2, <3>3, FragStage
    <3>5. CASE end = b
      <4>1. st = f
        <5>1. /\ HostStart(start) = hs /\ HOST_PAGE_ALIGN(start + len) = b /\ start + len = b
              /\ b = hs + HP /\ start > hs
          BY <1>2, <1>5, <2>2, <3>1, <3>5
        <5> QED BY <1>1, <3>1, <5>1, ZenonT(30) DEF MapFixed
      <4>2. \A p \in S : p \in hs .. b - 1
        BY <1>3, <1>4, <3>5
      <4>3. Granted(f.m, S, prot)
        BY <3>4, <4>2 DEF Granted
      <4> QED BY <3>4, <4>1, <4>3
    <3>6. CASE end # b
      <4>1. b \in Nat /\ b < end /\ start < b /\ HostMultiple(b)
        BY <1>3, <1>4, <1>6, <3>1, <3>6, SumOfMultiples, HPIsMultiple
      <4>2. PICK o : o = offset + b - start
        OBVIOUS
      <4>3. o \in Nat
        BY <1>3, <4>1, <4>2
      <4>4. PICK m, y : m = f.m /\ y = Middle(m, b, end, prot, anon, o)
        OBVIOUS
      <4>5. st = Done(y)
        <5>1. /\ HostStart(start) = hs /\ HOST_PAGE_ALIGN(start + len) = end /\ start + len = end
              /\ hs + HP = b /\ start > hs /\ ~ (end < end) /\ end # b /\ b < end
          BY <1>2, <1>5, <2>2, <3>1, <3>6, <4>1, <1>3
        <5>2. f.ok /\ f.m = m /\ f = mmap_frag(x, hs, start, b, prot, anon, shared, offset)
          BY <3>1, <3>4, <4>4
        <5> QED BY <1>1, <4>2, <4>4, <5>1, <5>2, DoneIs, ZenonT(60) DEF MapFixed, If, Then, Middle
      <4>6. WholeRange(b, end) /\ b .. end - 1 \subseteq S
        BY <1>3, <4>1 DEF WholeRange
      <4>7. KeepsOutside(m, S) /\ Granted(m, hs .. b - 1, prot)
        BY <3>4, <4>4
      <4>8. /\ KeepsOutside(y, S) /\ Granted(y, b .. end - 1, prot)
            /\ \A p \in AllPages : p \notin b .. end - 1 => y[p] = m[p]
        <5>1. prot \in SUBSET {"R", "W", "X"} /\ anon \in BOOLEAN
          OBVIOUS
        <5> QED BY ONLY <4>3, <4>4, <4>6, <4>7, <5>1, MiddleStage
      <4>9. \A p \in S : p \in AllPages /\ (p \in b .. end - 1 \/ (p \in hs .. b - 1 /\ p \notin b .. end - 1))
        BY <1>3, <1>4, <4>1 DEF AllPages
      <4>10. Granted(y, S, prot)
        BY <4>7, <4>8, <4>9 DEF Granted
      <4> QED BY <4>5, <4>8, <4>10, DoneIs
    <3> QED BY <3>5, <3>6
  <2> QED BY <2>1, <2>2
<1> QED BY <1>1, <1>2, <1>7

\* x protected, so far in the pages A, to y: contents stay.
Protecting(y, x, A, S, prot) ==
  /\ KeepsOutside(y, S)
  /\ \A p \in AllPages : y[p].data = x[p].data /\ (p \in A => prot \subseteq y[p].prot)

\* One call of mprotect among those that protect S.
LEMMA ProtectMore ==
  ASSUME NEW y, NEW x, NEW A, NEW S, NEW prot, Protecting(y, x, A, S, prot), NEW a, NEW b, WholeRange(a, b),
         NEW rights \in SUBSET {"R", "W", "X"}, prot \subseteq rights,
         \A p \in a .. b - 1 : x[p].data # UNMAPPED,
         \A p \in AllPages : p \in a .. b - 1 /\ p \notin S => Bits(flags[p]) \subseteq rights
  PROVE  LET z == KProtect(y, a, b - a, rights)
         IN  z.ok /\ Protecting(z.m, x, A \cup a .. b - 1, S, prot)
<1>1. PICK z : z = KProtect(y, a, b - a, rights)
  OBVIOUS
<1>2. /\ KeepsOutside(y, S)
      /\ \A p \in AllPages : y[p].data = x[p].data /\ (p \in A => prot \subseteq y[p].prot)
  BY DEF Protecting
<1>3. \A p \in a .. b - 1 : y[p].data # UNMAPPED
  BY <1>2, WholeRangeType
<1>4. /\ z.ok /\ KeepsOutside(z.m, S)
      /\ \A p \in AllPages : /\ z.m[p].data = y[p].data
                             /\ p \in a .. b - 1 => z.m[p].prot = rights
                             /\ p \notin a .. b - 1 => z.m[p].prot = y[p].prot
  <2>1. WholeRange(a, b) /\ rights \in SUBSET {"R", "W", "X"}
    OBVIOUS
  <2>2. \A p \in AllPages : p \in a .. b - 1 /\ p \notin S => Bits(flags[p]) \subseteq rights
    OBVIOUS
  <2> QED BY ONLY <1>1, <1>2, <1>3, <2>1, <2>2, ProtectStage
<1>5. PICK m : m = z.m
  OBVIOUS
<1>6. ASSUME NEW p \in AllPages
      PROVE  m[p].data = x[p].data /\ (p \in A \cup a .. b - 1 => prot \subseteq m[p].prot)
  BY <1>2, <1>4, <1>5
<1>7. Protecting(m, x, A \cup a .. b - 1, S, prot)
  BY <1>4, <1>5, <1>6 DEF Protecting
<1> QED BY <1>1, <1>4, <1>5, <1>7

\* The host page from h to b.
IsHostPage(h, b) == h \in Nat /\ HostMultiple(h) /\ b = h + HP /\ b <= NP

\* The same for the host page that a range starts or ends in.
LEMMA ProtectHostPageMore ==
  ASSUME NEW start \in Nat, NEW end \in Nat, NEW S, S = start .. end - 1,
         NEW y, NEW x, NEW A, NEW prot \in SUBSET {"R", "W", "X"}, Protecting(y, x, A, S, prot),
         NEW h, NEW b, IsHostPage(h, b), \A p \in h .. b - 1 : x[p].data # UNMAPPED
  PROVE  LET z == ProtectHostPage(y, h, start, end, prot)
         IN  z.ok /\ Protecting(z.m, x, A \cup h .. b - 1, S, prot)
<1>1. h \in Nat /\ HostMultiple(h) /\ b = h + HP /\ h + HP <= NP
  BY DEF IsHostPage
<1>2. /\ WholeRange(h, b) /\ Range(h, HP) = h .. b - 1 /\ b - h = HP /\ HP \in Nat \ {0} /\ b \in Nat
      /\ \A p \in h .. b - 1 : p \in AllPages
  BY <1>1, OneHostPageRange, Sizes
<1>3. PICK rights : rights = prot \cup Bits(Outside(h, start, end))
  OBVIOUS
<1>4. rights \in SUBSET {"R", "W", "X"} /\ prot \subseteq rights
  BY <1>3, BitsType
<1>5. \A p \in AllPages : p \in h .. b - 1 /\ p \notin S => Bits(flags[p]) \subseteq rights
  <2>1. TAKE p \in AllPages
  <2>2. HAVE p \in h .. b - 1 /\ p \notin S
  <2>3. p \in Range(h, HP) /\ (p < start \/ p >= end)
    BY <2>2, <1>2 DEF AllPages
  <2> QED BY <2>3, <1>3, OutsideCounts
<1>6. PICK z : z = KProtect(y, h, b - h, rights)
  OBVIOUS
<1>7. ProtectHostPage(y, h, start, end, prot) = z
  BY <1>2, <1>3, <1>6 DEF ProtectHostPage
<1>8. z.ok /\ Protecting(z.m, x, A \cup h .. b - 1, S, prot)
  <2>1. Protecting(y, x, A, S, prot) /\ \A p \in h .. b - 1 : x[p].data # UNMAPPED
    OBVIOUS
  <2> QED BY ONLY <1>2, <1>4, <1>5, <1>6, <2>1, ProtectMore
<1> QED BY <1>7, <1>8

\* The host pages from hs to he that the pages from start to end are in.
Borders(start, end, hs, he) ==
  /\ start \in Nat /\ end \in Nat /\ start < end
  /\ hs \in Nat /\ HostMultiple(hs) /\ hs <= start /\ start < hs + HP
  /\ he \in Nat /\ HostMultiple(he) /\ end <= he /\ he < end + HP /\ he <= NP
  /\ hs + HP <= he /\ HostMultiple(he - HP) /\ HP \in Nat \ {0}

LEMMA BordersAre ==
  ASSUME NEW start, NEW len, InSpace(start, len)
  PROVE  \E end, hs, he : /\ end = start + len /\ hs = HostStart(start) /\ he = HOST_PAGE_ALIGN(end)
                          /\ Borders(start, end, hs, he) /\ Range(start, len) = start .. end - 1
<1>1. PICK end : end = start + len
  OBVIOUS
<1>2. /\ start \in Nat /\ end \in Nat /\ start < end /\ end <= NP /\ HP \in Nat \ {0} /\ NP \in Nat
      /\ Range(start, len) = start .. end - 1
  BY <1>1, Sizes DEF InSpace, Range
<1>3. PICK hs : hs = HostStart(start)
  OBVIOUS
<1>4. PICK he : he = HOST_PAGE_ALIGN(end)
  OBVIOUS
<1>5. hs \in Nat /\ HostMultiple(hs) /\ hs <= start /\ start < hs + HP
  BY <1>2, <1>3, HostStartIs
<1>6. he \in Nat /\ HostMultiple(he) /\ end <= he /\ he < end + HP
  BY <1>2, <1>4, HostAlignIs
<1>7. he <= NP
  <2>1. ASSUME NP < he PROVE FALSE
    <3>1. NP + HP <= he
      BY <2>1, <1>6, NPIsMultiple, HostPagesApart
    <3> QED BY <3>1, <1>2, <1>6
  <2> QED BY <2>1, <1>2, <1>6
<1>8. hs + HP <= he
  <2>1. hs < he
    BY <1>2, <1>5, <1>6
  <2> QED BY <2>1, <1>5, <1>6, HostPagesApart
<1>9. HostMultiple(he - HP)
  <2>1. PICK x \in Int : he = x * HP
    BY <1>6 DEF HostMultiple
  <2>2. he - HP = (x - 1) * HP /\ x - 1 \in Int
    BY <2>1, <1>2
  <2> QED BY <2>2 DEF HostMultiple
<1>10. Borders(start, end, hs, he)
  BY <1>2, <1>5, <1>6, <1>7, <1>8, <1>9 DEF Borders
<1> QED BY <1>1, <1>2, <1>3, <1>4, <1>10

\* target_mprotect on host pages that are mapped: the range gets the rights, and the
\* pages that share a host page with it keep theirs.
LEMMA ProtectKernelIs ==
  ASSUME NEW start, NEW len, InSpace(start, len), NEW x, KeepsOutside(x, Range(start, len)),
         NEW prot \in SUBSET {"R", "W", "X"},
         \A p \in HostStart(start) .. HOST_PAGE_ALIGN(start + len) - 1 : x[p].data # UNMAPPED
  PROVE  LET st == ProtectKernel(x, start, len, prot)
         IN  st.ok /\ KeepsOutside(st.m, Range(start, len)) /\ Granted(st.m, Range(start, len), prot)
<1>0. PICK end, hs, he : /\ end = start + len /\ hs = HostStart(start) /\ he = HOST_PAGE_ALIGN(end)
                         /\ Borders(start, end, hs, he) /\ Range(start, len) = start .. end - 1
  BY BordersAre
<1>1. PICK S : /\ S = Range(start, len)
               /\ end = start + len /\ hs = HostStart(start) /\ he = HOST_PAGE_ALIGN(end)
  BY <1>0
<1>2. Borders(start, end, hs, he) /\ S = start .. end - 1 /\ KeepsOutside(x, S)
  BY <1>0, <1>1
<1>3. /\ start \in Nat /\ end \in Nat /\ start < end
      /\ hs \in Nat /\ HostMultiple(hs) /\ hs <= start /\ start < hs + HP
      /\ he \in Nat /\ HostMultiple(he) /\ end <= he /\ he < end + HP /\ he <= NP
      /\ hs + HP <= he /\ HostMultiple(he - HP) /\ HP \in Nat \ {0} /\ NP \in Nat
  BY <1>2, Sizes DEF Borders
<1>4. \A p \in hs .. he - 1 : x[p].data # UNMAPPED
  BY <1>1
<1>5. PICK frag1 \in BOOLEAN : frag1 <=> start > hs
  OBVIOUS
<1>6. PICK frag2 \in BOOLEAN : frag2 <=> end < he /\ ~ (frag1 /\ he = hs + HP)
  OBVIOUS
<1>7. PICK from, to : /\ from = (IF frag1 THEN hs + HP ELSE hs)
                      /\ to = (IF frag2 THEN he - HP ELSE he)
  OBVIOUS
<1>8. PICK st1 : st1 = IF frag1 THEN ProtectHostPage(x, hs, start, end, prot) ELSE Done(x)
  OBVIOUS
<1>9. PICK st2 : st2 = IF frag2 /\ st1.ok THEN ProtectHostPage(st1.m, he - HP, start, end, prot) ELSE st1
  OBVIOUS
<1>10. PICK st3 : st3 = IF from < to /\ st2.ok THEN KProtect(st2.m, from, to - from, prot) ELSE st2
  OBVIOUS
<1>11. ProtectKernel(x, start, len, prot) = st3
  BY <1>1, <1>5, <1>6, <1>7, <1>8, <1>9, <1>10, DoneIs DEF ProtectKernel, If, Then
<1>12. Protecting(x, x, {}, S, prot)
  BY <1>2 DEF Protecting
<1>12b. PICK b : b = hs + HP
  OBVIOUS
<1>13. PICK A1 : A1 = IF frag1 THEN hs .. b - 1 ELSE {}
  OBVIOUS
<1>14. st1.ok /\ Protecting(st1.m, x, A1, S, prot)
  <2>1. CASE frag1
    <3>2. IsHostPage(hs, b) /\ \A p \in hs .. b - 1 : x[p].data # UNMAPPED
      BY <1>3, <1>4, <1>12b DEF IsHostPage
    <3>3. st1 = ProtectHostPage(x, hs, start, end, prot) /\ A1 = {} \cup hs .. b - 1
      <4>1. A1 = hs .. b - 1
        BY <2>1, <1>13
      <4> QED BY <2>1, <4>1, <1>8
    <3>4. start \in Nat /\ end \in Nat /\ S = start .. end - 1 /\ prot \in SUBSET {"R", "W", "X"}
      BY <1>2, <1>3
    <3> QED BY ONLY <3>2, <3>3, <3>4, <1>12, ProtectHostPageMore
  <2>2. CASE ~ frag1
    BY <2>2, <1>8, <1>12, <1>13, DoneIs
  <2> QED BY <2>1, <2>2
<1>15. PICK A2 : A2 = IF frag2 THEN A1 \cup he - HP .. he - 1 ELSE A1
  OBVIOUS
<1>16. st2.ok /\ Protecting(st2.m, x, A2, S, prot)
  <2>1. CASE frag2
    <3>1. PICK h, y : h = he - HP /\ y = st1.m
      OBVIOUS
    <3>2. IsHostPage(h, he) /\ \A p \in h .. he - 1 : x[p].data # UNMAPPED
      BY <3>1, <1>3, <1>4 DEF IsHostPage
    <3>3. /\ st2 = ProtectHostPage(y, h, start, end, prot) /\ A2 = A1 \cup h .. he - 1
          /\ Protecting(y, x, A1, S, prot)
      BY <2>1, <3>1, <1>9, <1>14, <1>15
    <3>4. start \in Nat /\ end \in Nat /\ S = start .. end - 1 /\ prot \in SUBSET {"R", "W", "X"}
      BY <1>2, <1>3
    <3> QED BY ONLY <3>2, <3>3, <3>4, ProtectHostPageMore
  <2>2. CASE ~ frag2
    BY <2>2, <1>9, <1>14, <1>15
  <2> QED BY <2>1, <2>2
<1>17. PICK A3 : A3 = IF from < to THEN A2 \cup from .. to - 1 ELSE A2
  OBVIOUS
<1>18. st3.ok /\ Protecting(st3.m, x, A3, S, prot)
  <2>1. CASE from < to
    <3>1. PICK y : y = st2.m
      OBVIOUS
    <3>2. from \in Nat /\ to \in Nat /\ hs <= from /\ to <= he /\ HostMultiple(from) /\ HostMultiple(to)
      <4>1. HostMultiple(hs + HP)
        BY <1>3, SumOfMultiples, HPIsMultiple
      <4> QED BY <4>1, <1>3, <1>7
    <3>3. from >= start /\ to <= end
      BY <2>1, <1>3, <1>5, <1>6, <1>7
    <3>4. WholeRange(from, to) /\ (\A p \in from .. to - 1 : x[p].data # UNMAPPED)
      BY <2>1, <3>2, <1>3, <1>4 DEF WholeRange
    <3>5. \A p \in AllPages : p \in from .. to - 1 /\ p \notin S => Bits(flags[p]) \subseteq prot
      BY <3>2, <3>3, <1>2, <1>3
    <3>6. st3 = KProtect(y, from, to - from, prot) /\ A3 = A2 \cup from .. to - 1 /\ Protecting(y, x, A2, S, prot)
      BY <2>1, <3>1, <1>10, <1>16, <1>17
    <3>7. prot \in SUBSET {"R", "W", "X"} /\ prot \subseteq prot
      OBVIOUS
    <3> QED BY ONLY <3>4, <3>5, <3>6, <3>7, ProtectMore
  <2>2. CASE ~ (from < to)
    BY <2>2, <1>10, <1>16, <1>17
  <2> QED BY <2>1, <2>2
<1>19. \A p \in S : p \in A3 /\ p \in AllPages /\ p \in hs .. he - 1
  <2>1. TAKE p \in S
  <2>2. start <= p /\ p < end /\ p \in Nat
    BY <1>2, <1>3
  <2>3. p \in AllPages /\ p \in hs .. he - 1
    BY <2>2, <1>3 DEF AllPages
  <2>4. \/ frag1 /\ p \in hs .. b - 1
        \/ frag2 /\ p \in he - HP .. he - 1
        \/ from < to /\ p \in from .. to - 1
    BY <2>2, <1>3, <1>5, <1>6, <1>7, <1>12b
  <2> QED BY <2>3, <2>4, <1>13, <1>15, <1>17
<1>20. Granted(st3.m, S, prot)
  BY <1>4, <1>18, <1>19 DEF Granted, Protecting
<1>21. KeepsOutside(st3.m, S)
  BY <1>18 DEF Protecting
<1> QED BY <1>1, <1>11, <1>18, <1>20, <1>21

(***************************************************************************)
(* Host pages of any size: the calls                                       *)
(***************************************************************************)

\* A step that keeps the invariant, and the contents outside its range.
HostStep ==
  /\ HostInv'
  /\ \A p \in AllPages : last'.ok /\ Untouched(p) => k'[p].data = k[p].data

\* The flags agree with what a call on S left.
LEMMA NewInv ==
  ASSUME HostInv, NEW x, NEW S, KeepsOutside(x, S), k' = x, S \cap AllPages \subseteq last'.touched,
         flags' \in [AllPages -> SUBSET {"R", "W", "X", VALID}],
         \A p \in AllPages : p \notin S => flags'[p] = flags[p],
         \A p \in AllPages : p \in S /\ flags'[p] # {} =>
            VALID \in flags'[p] /\ x[p].data # UNMAPPED /\ Bits(flags'[p]) \subseteq x[p].prot
  PROVE  HostStep
<1>1. KTypeOK(k)' /\ HostUniform(k)'
  BY DEF KeepsOutside, KTypeOK, HostUniform
<1>2. RightsGranted'
  BY DEF KeepsOutside, RightsGranted
<1>3. PlainFlags'
  BY DEF HostInv, PlainFlags
<1>4. \A p \in AllPages : Untouched(p) => k'[p].data = k[p].data
  BY DEF KeepsOutside, Untouched
<1> QED BY <1>1, <1>2, <1>3, <1>4 DEF HostStep, HostInv

\* A call that changes nothing.
LEMMA NothingChanged ==
  ASSUME HostInv, k' = k, flags' = flags
  PROVE  HostStep
BY DEF HostInv, HostStep, KTypeOK, HostUniform, RightsGranted, PlainFlags, Untouched

\* A call that sets the flags of one range.
LEMMA SetRangeStep ==
  ASSUME HostInv, NEW start, NEW len, InSpace(start, len), NEW new \in SUBSET {"R", "W", "X", VALID},
         new # {} => VALID \in new,
         flags' = page_set_flags(flags, start, len, new), last'.touched = Range(start, len),
         NEW x, KeepsOutside(x, Range(start, len)), k' = x,
         VALID \in new => Granted(x, Range(start, len), Bits(new))
  PROVE  HostStep
<1>1. PICK S : S = Range(start, len)
  OBVIOUS
<1>2. S \cap AllPages \subseteq last'.touched /\ KeepsOutside(x, S)
  BY <1>1
<1>3. \A p \in AllPages : /\ p \in S => flags'[p] = new
                          /\ p \notin S => flags'[p] = flags[p]
  BY <1>1, SetFlagsIs
<1>4. flags' \in [AllPages -> SUBSET {"R", "W", "X", VALID}]
  <2>1. flags' = [p \in AllPages |-> flags'[p]]
    BY SetFlagsIs
  <2> QED BY <2>1, <1>3 DEF HostInv
<1>5. \A p \in AllPages : p \in S /\ flags'[p] # {} =>
         VALID \in flags'[p] /\ x[p].data # UNMAPPED /\ Bits(flags'[p]) \subseteq x[p].prot
  BY <1>1, <1>3 DEF Granted
<1> QED BY <1>2, <1>3, <1>4, <1>5, NewInv

\* Where a range is mapped, so are the host pages that it is in.
LEMMA HostPagesMapped ==
  ASSUME NEW start, NEW len, InSpace(start, len), NEW x, HostUniform(x),
         \A p \in Range(start, len) : x[p].data # UNMAPPED
  PROVE  \A p \in HostStart(start) .. HOST_PAGE_ALIGN(start + len) - 1 : x[p].data # UNMAPPED
<1>0. PICK end, hs, he : /\ end = start + len /\ hs = HostStart(start) /\ he = HOST_PAGE_ALIGN(end)
                         /\ Borders(start, end, hs, he) /\ Range(start, len) = start .. end - 1
  BY BordersAre
<1>1. /\ start \in Nat /\ end \in Nat /\ start < end
      /\ hs \in Nat /\ HostMultiple(hs) /\ hs <= start /\ start < hs + HP
      /\ he \in Nat /\ HostMultiple(he) /\ end <= he /\ he < end + HP /\ he <= NP
      /\ hs + HP <= he /\ HostMultiple(he - HP) /\ HP \in Nat \ {0} /\ NP \in Nat
  BY <1>0, Sizes DEF Borders
<1>2. \A p \in AllPages : \A q \in start .. end - 1 :
         HostStart(p) = HostStart(q) => x[p].data # UNMAPPED
  <2>1. TAKE p \in AllPages
  <2>2. TAKE q \in start .. end - 1
  <2>3. q \in AllPages
    BY <1>1 DEF AllPages
  <2>4. x[q].data # UNMAPPED
    BY <1>0
  <2> QED BY <2>3, <2>4 DEF HostUniform
<1>3. ASSUME NEW p \in hs .. he - 1 PROVE x[p].data # UNMAPPED
  <2>1. p \in AllPages /\ p \in Nat
    BY <1>1 DEF AllPages
  <2>2. CASE p \in start .. end - 1
    BY <2>1, <2>2, <1>2
  <2>3. CASE p < start
    <3>1. p \in Range(hs, HP) /\ start \in Range(hs, HP)
      BY <2>3, <1>1 DEF Range
    <3>2. HostStart(p) = HostStart(start) /\ start \in start .. end - 1
      BY <3>1, <2>1, <1>1, InHostPage
    <3> QED BY <3>2, <2>1, <1>2
  <2>4. CASE p >= end
    <3>1. PICK h, q : h = he - HP /\ q = end - 1
      OBVIOUS
    <3>2. h \in Nat /\ HostMultiple(h) /\ q \in Nat /\ p \in Range(h, HP) /\ q \in Range(h, HP) /\ q \in start .. end - 1
      BY <3>1, <2>4, <1>1 DEF Range
    <3>3. HostStart(p) = h /\ HostStart(q) = h
      BY <3>2, <2>1, InHostPage
    <3> QED BY <3>2, <3>3, <2>1, <1>2
  <2> QED BY <2>1, <2>2, <2>3, <2>4, <1>1
<1> QED BY <1>0, <1>3

\* What HostAligned says of an address.
LEMMA AlignedIs ==
  ASSUME HostAligned, NEW p \in Nat, WholeHost(p)
  PROVE  HostMultiple(p)
BY MultipleIs DEF WholeHost

LEMMA RightsType == ASSUME NEW prot \in Rights PROVE prot \in SUBSET {"R", "W", "X"}
BY Sizes

\* The flags of a mapping.
LEMMA MappedFlags ==
  ASSUME NEW prot \in SUBSET {"R", "W", "X"}
  PROVE  /\ prot \cup {VALID} \in SUBSET {"R", "W", "X", VALID} /\ VALID \in prot \cup {VALID}
         /\ Bits(prot \cup {VALID}) = prot
BY BitsOfRights

LEMMA HostFixed ==
  ASSUME HostInv, NEW start, NEW len, InSpace(start, len), HostMultiple(start + len),
         NEW prot \in SUBSET {"R", "W", "X"}, NEW anon \in BOOLEAN, NEW shared \in BOOLEAN, NEW offset \in Nat,
         anon \/ ~ (shared /\ "W" \in prot) \/ HostMultiple(start),
         target_mmap_fixed(start, len, prot, anon, shared, offset)
  PROVE  HostStep
<1>1. PICK x : x = k
  OBVIOUS
<1>2. PlainFlags /\ KeepsOutside(x, Range(start, len))
  BY <1>1, KeepsAtFirst DEF HostInv
<1>3. PICK st : st = MapFixed(x, start, len, prot, anon, shared, offset)
  OBVIOUS
<1>4. st.ok /\ KeepsOutside(st.m, Range(start, len)) /\ Granted(st.m, Range(start, len), prot)
  BY <1>2, <1>3, MapFixedIs
<1>5. /\ k' = st.m /\ flags' = page_set_flags(flags, start, len, prot \cup {VALID})
      /\ last'.touched = Range(start, len)
  BY <1>1, <1>3, <1>4 DEF target_mmap_fixed, Called
<1>6. PICK y, new : y = st.m /\ new = prot \cup {VALID}
  OBVIOUS
<1>7. /\ new \in SUBSET {"R", "W", "X", VALID} /\ VALID \in new /\ Bits(new) = prot
  BY <1>6, MappedFlags
<1>8. /\ k' = y /\ flags' = page_set_flags(flags, start, len, new)
      /\ KeepsOutside(y, Range(start, len)) /\ Granted(y, Range(start, len), Bits(new))
  BY <1>4, <1>5, <1>6, <1>7
<1> QED BY <1>5, <1>7, <1>8, SetRangeStep

LEMMA HostMprotect ==
  ASSUME HostInv, CarefulGuest, NEW start, NEW len, InSpace(start, len),
         NEW prot \in SUBSET {"R", "W", "X"}, target_mprotect(start, len, prot)
  PROVE  HostStep
<1>1. PICK x : x = k
  OBVIOUS
<1>2. HostUniform(x) /\ KeepsOutside(x, Range(start, len))
  BY <1>1, KeepsAtFirst DEF HostInv
<1>3. PICK st : st = ProtectKernel(x, start, len, prot)
  OBVIOUS
<1>4. \A p \in Range(start, len) : x[p].data # UNMAPPED
  <2>1. Range(start, len) \subseteq AllPages
    BY RangeInSpace
  <2> QED BY <2>1, <1>1 DEF target_mprotect, HostInv, RightsGranted
<1>5. \A p \in HostStart(start) .. HOST_PAGE_ALIGN(start + len) - 1 : x[p].data # UNMAPPED
  BY <1>2, <1>4, HostPagesMapped
<1>6. st.ok /\ KeepsOutside(st.m, Range(start, len)) /\ Granted(st.m, Range(start, len), prot)
  BY <1>2, <1>3, <1>5, ProtectKernelIs
<1>7. /\ k' = st.m /\ flags' = page_set_flags(flags, start, len, prot \cup {VALID})
      /\ last'.touched = Range(start, len)
  BY <1>1, <1>3, <1>6 DEF target_mprotect, Called
<1>8. PICK y, new : y = st.m /\ new = prot \cup {VALID}
  OBVIOUS
<1>9. /\ new \in SUBSET {"R", "W", "X", VALID} /\ VALID \in new /\ Bits(new) = prot
  BY <1>8, MappedFlags
<1>10. /\ k' = y /\ flags' = page_set_flags(flags, start, len, new)
       /\ KeepsOutside(y, Range(start, len)) /\ Granted(y, Range(start, len), Bits(new))
  BY <1>6, <1>7, <1>8, <1>9
<1> QED BY <1>7, <1>9, <1>10, SetRangeStep

LEMMA HostRead ==
  ASSUME HostInv, NEW start, NEW len, InSpace(start, len), HostMultiple(start + len),
         NEW prot \in SUBSET {"R", "W", "X"}, NEW shared \in BOOLEAN, NEW offset \in Nat,
         target_mmap_read(start, len, prot, shared, offset)
  PROVE  HostStep
<1>1. CASE shared /\ "W" \in prot
  <2>1. k' = k /\ flags' = flags
    BY <1>1 DEF target_mmap_read
  <2> QED BY <2>1, NothingChanged
<1>2. CASE ~ (shared /\ "W" \in prot)
  <2>1. PICK x, S, wprot : x = k /\ S = Range(start, len) /\ wprot = prot \cup {"W"}
    OBVIOUS
  <2>2. PlainFlags /\ KeepsOutside(x, S) /\ wprot \in SUBSET {"R", "W", "X"}
    BY <2>1, KeepsAtFirst DEF HostInv
  <2>3. PICK st1 : st1 = MapFixed(x, start, len, wprot, TRUE, FALSE, 0)
    OBVIOUS
  <2>4. st1.ok /\ KeepsOutside(st1.m, S) /\ Granted(st1.m, S, wprot)
    BY <2>1, <2>2, <2>3, MapFixedIs
  <2>5. PICK y, st2 : y = st1.m /\ st2 = KRead(y, start, len, offset)
    OBVIOUS
  <2>6. KeepsOutside(y, S) /\ Granted(y, S, wprot)
    BY <2>4, <2>5
  <2>7. start \in Nat /\ len \in Nat \ {0} /\ S \subseteq AllPages
    BY <2>1, RangeInSpace DEF InSpace
  <2>8. Granted(y, Range(start, len), {"W"})
    BY <2>1, <2>6 DEF Granted
  <2>9. st2.ok /\ KeepsOutside(st2.m, S) /\ SameRights(st2.m, y)
    <3>1. offset \in Nat /\ Range(start, len) \subseteq AllPages /\ Range(start, len) \subseteq S
      BY <2>1, <2>7
    <3> QED BY ONLY <2>5, <2>6, <2>7, <2>8, <3>1, ReadStage
  <2>10. PICK z : z = st2.m
    OBVIOUS
  <2>11. KeepsOutside(z, S) /\ Granted(z, S, wprot)
    BY <2>6, <2>7, <2>9, <2>10 DEF Granted, SameRights
  <2>12. PICK st3 : st3 = IF "W" \notin prot THEN ProtectKernel(z, start, len, prot) ELSE st2
    OBVIOUS
  <2>13. st3.ok /\ KeepsOutside(st3.m, S) /\ Granted(st3.m, S, prot)
    <3>1. CASE "W" \in prot
      BY <3>1, <2>1, <2>9, <2>10, <2>11, <2>12 DEF Granted
    <3>2. CASE "W" \notin prot
      <4>1. HostUniform(z) /\ \A p \in Range(start, len) : z[p].data # UNMAPPED
        BY <2>1, <2>11 DEF KeepsOutside, Granted
      <4>2. \A p \in HostStart(start) .. HOST_PAGE_ALIGN(start + len) - 1 : z[p].data # UNMAPPED
        BY <4>1, HostPagesMapped
      <4>3. st3 = ProtectKernel(z, start, len, prot) /\ KeepsOutside(z, Range(start, len))
        BY <3>2, <2>1, <2>11, <2>12
      <4> QED BY <4>2, <4>3, <2>1, ProtectKernelIs
    <3> QED BY <3>1, <3>2
  <2>14. /\ k' = st3.m /\ flags' = page_set_flags(flags, start, len, prot \cup {VALID})
         /\ last'.touched = Range(start, len)
    BY <1>2, <2>1, <2>3, <2>4, <2>5, <2>9, <2>10, <2>12, <2>13 DEF target_mmap_read, Called, If, Then
  <2>15. PICK m, new : m = st3.m /\ new = prot \cup {VALID}
    OBVIOUS
  <2>16. /\ new \in SUBSET {"R", "W", "X", VALID} /\ VALID \in new /\ Bits(new) = prot
    BY <2>15, MappedFlags
  <2>17. /\ k' = m /\ flags' = page_set_flags(flags, start, len, new)
         /\ KeepsOutside(m, Range(start, len)) /\ Granted(m, Range(start, len), Bits(new))
    BY <2>1, <2>13, <2>14, <2>15, <2>16
  <2> QED BY <2>14, <2>16, <2>17, SetRangeStep
<1> QED BY <1>1, <1>2

\* Whole host pages in which nothing else is valid get one kind of page.
LEMMA ReplaceKeeps ==
  ASSUME NEW x, NEW S, KeepsOutside(x, S), NEW A, WholePages(A), NEW page \in Page, page.file >= ANON,
         \A p \in AllPages : p \in A /\ p \notin S => VALID \notin flags[p],
         NEW y, y = [p \in AllPages |-> IF p \in A THEN page ELSE x[p]]
  PROVE  KeepsOutside(y, S)
<1>1. \A p \in AllPages : (p \in A => y[p] = page) /\ (p \notin A => y[p] = x[p])
  OBVIOUS
<1>2. KTypeOK(y)
  BY DEF KeepsOutside, KTypeOK
<1>3. HostUniform(y)
  <2> SUFFICES ASSUME NEW p \in AllPages, NEW q \in AllPages, HostStart(p) = HostStart(q)
               PROVE  y[p].prot = y[q].prot /\ (y[p].data # UNMAPPED <=> y[q].data # UNMAPPED)
    BY DEF HostUniform
  <2>1. p \in A <=> q \in A
    BY DEF WholePages
  <2>2. CASE p \in A
    BY <2>1, <2>2, <1>1
  <2>3. CASE p \notin A
    BY <2>1, <2>3, <1>1 DEF KeepsOutside, HostUniform
  <2> QED BY <2>2, <2>3
<1> QED BY <1>1, <1>2, <1>3 DEF KeepsOutside

\* The host pages that munmap and mmap_reserve replace: whole, and nothing outside
\* the range is valid in them.
LEMMA WholeHostPagesAre ==
  ASSUME NEW start, NEW len, InSpace(start, len)
  PROVE  /\ WholePages(WholeHostPages(start, len))
         /\ \A p \in AllPages : p \in WholeHostPages(start, len) /\ p \notin Range(start, len) => VALID \notin flags[p]
<1>0. PICK end, hs, he : /\ end = start + len /\ hs = HostStart(start) /\ he = HOST_PAGE_ALIGN(end)
                         /\ Borders(start, end, hs, he) /\ Range(start, len) = start .. end - 1
  BY BordersAre
<1>1. /\ start \in Nat /\ end \in Nat /\ hs \in Nat /\ HostMultiple(hs) /\ he \in Nat /\ HostMultiple(he)
      /\ HP \in Nat \ {0}
  BY <1>0 DEF Borders
<1>2. WholePages(hs .. he - 1)
  BY <1>1, WholeRangeIs
<1>3. PICK A : A = WholeHostPages(start, len)
  OBVIOUS
<1>4. A = {p \in hs .. he - 1 : Outside(HostStart(p), start, end) = {}}
  BY <1>0, <1>3 DEF WholeHostPages
<1>5. WholePages(A)
  BY <1>2, <1>4 DEF WholePages
<1>6. ASSUME NEW p \in AllPages, p \in A, p \notin start .. end - 1 PROVE VALID \notin flags[p]
  <2>1. p \in Nat /\ Outside(HostStart(p), start, end) = {}
    BY <1>4, <1>6 DEF AllPages
  <2>2. HostStart(p) \in Nat /\ HostStart(p) <= p /\ p < HostStart(p) + HP
    BY <2>1, HostStartIs
  <2>3. p \in Range(HostStart(p), HP) /\ (p < start \/ p >= end)
    BY <2>1, <2>2, <1>1, <1>6 DEF Range
  <2>4. flags[p] \subseteq Outside(HostStart(p), start, end)
    BY <2>3, OutsideCounts
  <2> QED BY <2>1, <2>4
<1> QED BY <1>0, <1>3, <1>5, <1>6

LEMMA NoMappingType == NoMapping \in Page /\ NoMapping.file >= ANON
BY DEF NoMapping, Page, UNMAPPED, ANON

LEMMA HostMunmap ==
  ASSUME HostInv, NEW start, NEW len, InSpace(start, len), target_munmap(start, len)
  PROVE  HostStep
<1>1. PICK x, A, S : x = k /\ A = WholeHostPages(start, len) /\ S = Range(start, len)
  OBVIOUS
<1>2. KeepsOutside(x, S)
  BY <1>1, KeepsAtFirst
<1>3. PICK y : y = [p \in AllPages |-> IF p \in A THEN NoMapping ELSE x[p]]
  OBVIOUS
<1>4. WholePages(A) /\ \A p \in AllPages : p \in A /\ p \notin S => VALID \notin flags[p]
  BY <1>1, WholeHostPagesAre
<1>5. KeepsOutside(y, S)
  BY ONLY <1>2, <1>3, <1>4, NoMappingType, ReplaceKeeps
<1>6. PICK new : new = {}
  OBVIOUS
<1>7. k' = y /\ flags' = page_set_flags(flags, start, len, new) /\ last'.touched = Range(start, len)
  BY <1>1, <1>3, <1>6 DEF target_munmap, Called
<1>8. new \in SUBSET {"R", "W", "X", VALID} /\ ~ (new # {}) /\ VALID \notin new /\ KeepsOutside(y, Range(start, len))
  BY <1>1, <1>5, <1>6
<1> QED BY <1>7, <1>8, SetRangeStep

\* Places that the kernel has for whole host pages.
LEMMA FreePlace ==
  ASSUME HostInv, HostAligned, NEW n \in Nat \ {0}, HostMultiple(n), NEW a \in KFree(k, n)
  PROVE  /\ WholeRange(a, a + n) /\ Range(a, n) = a .. a + n - 1
         /\ \A p \in a .. a + n - 1 : p \in AllPages /\ k[p].data = UNMAPPED /\ VALID \notin flags[p]
<1>1. /\ a \in Nat /\ a + n <= NP /\ WholeHost(a) /\ \A p \in Range(a, n) : k[p].data = UNMAPPED
  BY DEF KFree, AllPages
<1>2. HostMultiple(a)
  BY <1>1, AlignedIs
<1>3. HostMultiple(a + n)
  BY <1>2, SumOfMultiples
<1>4. WholeRange(a, a + n) /\ Range(a, n) = a .. a + n - 1
  BY <1>1, <1>2, <1>3 DEF WholeRange, Range
<1>5. ASSUME NEW p \in a .. a + n - 1
      PROVE  p \in AllPages /\ k[p].data = UNMAPPED /\ VALID \notin flags[p]
  <2>1. p \in AllPages
    BY <1>1, Sizes DEF AllPages
  <2> QED BY <2>1, <1>1, <1>4 DEF HostInv, RightsGranted
<1> QED BY <1>4, <1>5

\* What the kernel's own choice of a place leaves there: an anonymous mapping, with
\* pages of the file over its start.
Placed(x, a, n, len, prot, anon, offset) ==
  IF anon THEN KAnon(x, a, n, prot) ELSE KFile(KAnon(x, a, n, prot), a, len, prot, offset)

\* The pages of A are mapped, with these rights.
AllWith(y, A, prot) == \A p \in AllPages : p \in A => y[p].prot = prot /\ y[p].data # UNMAPPED

LEMMA PlacedIs ==
  ASSUME NEW x, KTypeOK(x), NEW a \in Nat, NEW n \in Nat, NEW len \in Nat, len <= n,
         NEW prot \in SUBSET {"R", "W", "X"}, NEW anon \in BOOLEAN, NEW offset \in Nat
  PROVE  LET y == Placed(x, a, n, len, prot, anon, offset)
         IN  KTypeOK(y) /\ SameBeside(y, x, Range(a, n)) /\ AllWith(y, Range(a, n), prot)
<1>1. PICK z : z = KAnon(x, a, n, prot)
  OBVIOUS
<1>2. PICK y : y = IF anon THEN z ELSE KFile(z, a, len, prot, offset)
  OBVIOUS
<1>3. /\ KTypeOK(z)
      /\ \A p \in AllPages : z[p] =
           IF p \in Range(a, n) THEN [prot |-> prot, data |-> ZERO, file |-> ANON] ELSE x[p]
  BY <1>1, KAnonIs
<1>4. \A p \in AllPages : p \notin Range(a, n) => z[p] = x[p]
  BY <1>3
<1>5. \A p \in AllPages : p \in Range(a, n) => z[p].prot = prot /\ z[p].data # UNMAPPED
  <2>1. TAKE p \in AllPages
  <2>2. HAVE p \in Range(a, n)
  <2>3. z[p] = [prot |-> prot, data |-> ZERO, file |-> ANON]
    BY <2>2, <1>3
  <2> QED BY <2>3 DEF ZERO, UNMAPPED
<1>6. CASE anon
  <2>1. Placed(x, a, n, len, prot, anon, offset) = z
    BY <1>1, <1>6 DEF Placed
  <2> QED BY <1>3, <1>4, <1>5, <2>1 DEF SameBeside, AllWith
<1>7. CASE ~ anon
  <2>1. y = KFile(z, a, len, prot, offset)
    BY <1>2, <1>7
  <2>2. KTypeOK(y)
    BY <1>3, <2>1, KFileIs
  <2>3. \A p \in Range(a, len) : p \in Range(a, n)
    BY DEF Range
  <2>4. \A p \in AllPages : p \notin Range(a, len) => y[p] = z[p]
    BY <2>1 DEF KFile, KMap
  <2>5. \A p \in AllPages : p \in Range(a, len) => y[p].prot = prot /\ y[p].data # UNMAPPED
    <3>1. TAKE p \in AllPages
    <3>2. HAVE p \in Range(a, len)
    <3>3. PICK i : i = offset + (p - a)
      OBVIOUS
    <3>4. i \in Nat
      BY <3>2, <3>3 DEF Range
    <3>5. y[p] = [prot |-> prot, data |-> FilePage(i), file |-> i]
      BY <2>1, <3>2, <3>3 DEF KFile, KMap
    <3>6. FilePage(i) \in 1 .. 10 + NFile
      BY <3>4, FilePageType
    <3>7. FilePage(i) # UNMAPPED
      BY <3>6, Sizes DEF UNMAPPED
    <3> QED BY <3>5, <3>7
  <2>6. \A p \in AllPages : p \notin Range(a, n) => y[p] = x[p]
    BY <2>3, <2>4, <1>4
  <2>7. \A p \in AllPages : p \in Range(a, n) => y[p].prot = prot /\ y[p].data # UNMAPPED
    BY <2>4, <2>5, <1>5
  <2>8. Placed(x, a, n, len, prot, anon, offset) = y
    BY <1>1, <1>7, <2>1 DEF Placed
  <2> QED BY <2>2, <2>6, <2>7, <2>8 DEF SameBeside, AllWith
<1> QED BY <1>6, <1>7

LEMMA HostAnywhere ==
  ASSUME HostInv, HostAligned, NEW len \in Nat \ {0}, NEW prot \in SUBSET {"R", "W", "X"},
         NEW anon \in BOOLEAN, NEW offset \in Nat, anon => offset = 0,
         target_mmap_anywhere(len, prot, anon, offset)
  PROVE  HostStep
<1>1. PICK ho : ho = HostStart(offset)
  OBVIOUS
<1>2. ho \in Nat /\ ho <= offset
  BY <1>1, HostStartIs
<1>3. PICK n : n = HOST_PAGE_ALIGN(len + offset - ho)
  OBVIOUS
<1>4. n \in Nat \ {0} /\ len + (offset - ho) <= n /\ HostMultiple(n)
  <2>1. PICK need : need = len + offset - ho
    OBVIOUS
  <2>2. need \in Nat \ {0} /\ need = len + (offset - ho)
    BY <1>2, <2>1
  <2> QED BY <1>3, <2>1, <2>2, HostAlignIs
<1>5. PICK delta : delta = IF anon THEN 0 ELSE offset - ho
  OBVIOUS
<1>6. delta \in Nat /\ delta + len <= n /\ len <= n
  BY <1>2, <1>4, <1>5
<1>7. CASE ~ (k' = k /\ flags' = flags)
  <2>1. PICK a \in KFree(k, n) :
           /\ k' = Placed(k, a, n, len, prot, anon, ho)
           /\ flags' = page_set_flags(flags, a + delta, len, prot \cup {VALID})
           /\ last'.touched = Range(a + delta, len)
    <3>1. \E a \in KFree(k, n) :
            /\ k' = IF anon THEN KAnon(k, a, n, prot) ELSE KFile(KAnon(k, a, n, prot), a, len, prot, ho)
            /\ flags' = page_set_flags(flags, a + delta, len, prot \cup {VALID})
            /\ Called(Op(anon), Range(a + delta, len), TRUE)
      BY <1>1, <1>3, <1>5, <1>7, ZenonT(20) DEF target_mmap_anywhere
    <3> QED BY <3>1 DEF Called, Placed
  <2>2. PICK b, start, x, y, S, A : /\ b = a + n /\ start = a + delta /\ x = k
                                    /\ y = Placed(x, a, n, len, prot, anon, ho)
                                    /\ S = Range(start, len) /\ A = Range(a, n)
    OBVIOUS
  <2>3. /\ WholeRange(a, b) /\ A = a .. b - 1
        /\ \A p \in A : p \in AllPages /\ VALID \notin flags[p]
    <3>1. /\ WholeRange(a, a + n) /\ Range(a, n) = a .. a + n - 1
          /\ \A p \in a .. a + n - 1 : p \in AllPages /\ k[p].data = UNMAPPED /\ VALID \notin flags[p]
      BY <1>4, FreePlace
    <3>2. b = a + n /\ A = Range(a, n)
      BY <2>2
    <3>3. WholeRange(a, b) /\ A = a .. b - 1
      BY <1>4, <3>1, <3>2 DEF KFree, AllPages
    <3>4. \A p \in A : p \in AllPages /\ VALID \notin flags[p]
      BY ONLY <3>1, <3>2
    <3> QED BY <3>3, <3>4
  <2>4. a \in Nat /\ b \in Nat /\ b <= NP /\ NP \in Nat
    BY <2>3, Sizes DEF WholeRange
  <2>5. InSpace(start, len) /\ \A p \in S : p \in A
    BY <1>4, <1>6, <2>2, <2>4 DEF InSpace, Range
  <2>6. KTypeOK(x) /\ KeepsOutside(x, S)
    BY <2>2, KeepsAtFirst DEF HostInv
  <2>7. /\ KTypeOK(y)
        /\ \A p \in AllPages : p \notin A => y[p] = x[p]
        /\ \A p \in AllPages : p \in A => y[p].prot = prot /\ y[p].data # UNMAPPED
    <3>1. prot \in SUBSET {"R", "W", "X"} /\ anon \in BOOLEAN /\ n \in Nat /\ len \in Nat
      BY <1>4
    <3>2. PICK z : z = Placed(x, a, n, len, prot, anon, ho)
      OBVIOUS
    <3>3. KTypeOK(z) /\ SameBeside(z, x, Range(a, n)) /\ AllWith(z, Range(a, n), prot)
      BY ONLY <3>1, <3>2, <1>2, <1>6, <2>4, <2>6, PlacedIs
    <3>4. KTypeOK(y) /\ SameBeside(y, x, A) /\ AllWith(y, A, prot)
      BY ONLY <3>2, <3>3, <2>2
    <3> QED BY <3>4 DEF SameBeside, AllWith
  <2>8. WholePages(A)
    BY <2>3, WholeRangeType
  <2>9. \A p \in AllPages : p \in A /\ p \notin S /\ VALID \in flags[p] =>
            y[p].data = x[p].data /\ Bits(flags[p]) \subseteq prot
    BY <2>3
  <2>10. KeepsOutside(y, S)
    BY ONLY <2>6, <2>7, <2>8, <2>9, PatchKeeps
  <2>11. Granted(y, S, prot)
    BY <2>3, <2>5, <2>7 DEF Granted
  <2>12. PICK new : new = prot \cup {VALID}
    OBVIOUS
  <2>13. new \in SUBSET {"R", "W", "X", VALID} /\ VALID \in new /\ Bits(new) = prot
    BY <2>12, MappedFlags
  <2>14. /\ k' = y /\ flags' = page_set_flags(flags, start, len, new) /\ last'.touched = Range(start, len)
         /\ KeepsOutside(y, Range(start, len)) /\ Granted(y, Range(start, len), Bits(new))
    BY <2>1, <2>2, <2>10, <2>11, <2>12, <2>13
  <2> QED BY <2>5, <2>13, <2>14, SetRangeStep
<1>8. CASE k' = k /\ flags' = flags
  BY <1>8, NothingChanged
<1>9. KFree(k, n) = {} => k' = k /\ flags' = flags
  BY <1>1, <1>3 DEF target_mmap_anywhere
<1> QED BY <1>7, <1>8, <1>9

\* A range that the guest moves: whole host pages.
MovedRange(start, len) == InSpace(start, len) /\ WholeRange(start, start + len)

LEMMA MovedRangeIs ==
  ASSUME HostAligned, NEW start, NEW len, InSpace(start, len), WholeHost(start), WholeHost(len)
  PROVE  MovedRange(start, len)
<1>1. start \in Nat /\ len \in Nat \ {0} /\ start + len <= NP
  BY DEF InSpace
<1>2. HostMultiple(start) /\ HostMultiple(len)
  BY <1>1, AlignedIs
<1>3. HostMultiple(start + len)
  BY <1>2, SumOfMultiples
<1> QED BY <1>1, <1>2, <1>3 DEF MovedRange, WholeRange

LEMMA MovedRangeType ==
  ASSUME NEW start, NEW len, MovedRange(start, len)
  PROVE  /\ start \in Nat /\ len \in Nat \ {0} /\ start \in Range(start, len)
         /\ Range(start, len) \subseteq AllPages /\ WholePages(Range(start, len))
<1>1. InSpace(start, len) /\ WholeRange(start, start + len)
  BY DEF MovedRange
<1>2. start \in Nat /\ len \in Nat \ {0}
  BY <1>1 DEF InSpace
<1>3. Range(start, len) \subseteq AllPages /\ start \in Range(start, len)
  BY <1>1, RangeInSpace
<1>4. PICK end : end = start + len
  OBVIOUS
<1>5. WholePages(start .. end - 1)
  BY <1>1, <1>4, WholeRangeType
<1>6. Range(start, len) = start .. end - 1
  BY <1>2, <1>4 DEF Range
<1> QED BY <1>2, <1>3, <1>5, <1>6

\* The kernel's part of mremap: the pages of the new range have the rights that those
\* of the old one had.
LEMMA MoveStage ==
  ASSUME NEW x, NEW S, KeepsOutside(x, S), NEW old, NEW oldlen, NEW new, NEW newlen,
         MovedRange(old, oldlen), MovedRange(new, newlen),
         Range(old, oldlen) \subseteq S, Range(new, newlen) \subseteq S, KMovable(x, old, oldlen)
  PROVE  LET y == KMove(x, old, oldlen, new, newlen)
         IN  KeepsOutside(y, S) /\ Granted(y, Range(new, newlen), x[old].prot)
<1>1. PICK A, B, y : A = Range(old, oldlen) /\ B = Range(new, newlen) /\ y = KMove(x, old, oldlen, new, newlen)
  OBVIOUS
<1>2. /\ old \in Nat /\ oldlen \in Nat \ {0} /\ old \in A /\ A \subseteq AllPages /\ WholePages(A)
      /\ new \in Nat /\ newlen \in Nat \ {0} /\ B \subseteq AllPages /\ WholePages(B)
  BY <1>1, MovedRangeType
<1>3. KTypeOK(x)
  BY DEF KeepsOutside
<1>4. /\ KTypeOK(y)
      /\ \A p \in AllPages : y[p] = IF p \in B THEN MovedPage(x, old, oldlen, p - new)
                                    ELSE IF p \in A THEN NoMapping ELSE x[p]
      /\ \A i \in 0 .. newlen - 1 :
              i >= oldlen => MovedPage(x, old, oldlen, i).data \in 1 .. 10 + NFile
  <2>1. Range(old, oldlen) \subseteq AllPages
    BY <1>1, <1>2
  <2> QED BY <1>1, <1>2, <1>3, <2>1, KMoveIs, SMTT(20)
<1>5. PICK z : z = [p \in AllPages |-> IF p \in A THEN NoMapping ELSE x[p]]
  OBVIOUS
<1>6. KeepsOutside(z, S)
  <2>1. \A p \in AllPages : p \in A /\ p \notin S => VALID \notin flags[p]
    BY <1>1
  <2>2. KeepsOutside(x, S)
    OBVIOUS
  <2> QED BY ONLY <1>2, <1>5, <2>1, <2>2, NoMappingType, ReplaceKeeps
<1>7. PICK prot : prot = x[old].prot
  OBVIOUS
<1>8. \A p \in A : x[p].prot = prot /\ x[p].data # UNMAPPED
  BY <1>1, <1>7 DEF KMovable, KMapped
<1>9. ASSUME NEW i \in 0 .. newlen - 1
      PROVE  MovedPage(x, old, oldlen, i).prot = prot /\ MovedPage(x, old, oldlen, i).data # UNMAPPED
  <2>1. CASE i < oldlen
    <3>1. old + i \in A
      BY <2>1, <1>1, <1>2 DEF Range
    <3>2. MovedPage(x, old, oldlen, i) = x[old + i]
      BY <2>1 DEF MovedPage
    <3> QED BY <3>1, <3>2, <1>8
  <2>2. CASE ~ (i < oldlen)
    <3>1. MovedPage(x, old, oldlen, i).data \in 1 .. 10 + NFile
      BY <2>2, <1>2, <1>4
    <3>2. MovedPage(x, old, oldlen, i).data # UNMAPPED
      BY <3>1, Sizes DEF UNMAPPED
    <3>3. x[old] \in Page
      BY <1>2, <1>3 DEF KTypeOK
    <3>4. [x[old] EXCEPT !.data = ZERO].prot = x[old].prot
      BY <3>3 DEF Page
    <3>5. MovedPage(x, old, oldlen, i).prot = x[old].prot
      BY <2>2, <3>4 DEF MovedPage
    <3> QED BY <3>2, <3>5, <1>7
  <2> QED BY <2>1, <2>2
<1>10. \A p \in AllPages : p \in B => y[p].prot = prot /\ y[p].data # UNMAPPED
  <2>1. TAKE p \in AllPages
  <2>2. HAVE p \in B
  <2>3. p - new \in 0 .. newlen - 1
    BY <2>2, <1>1, <1>2 DEF Range
  <2>4. y[p] = MovedPage(x, old, oldlen, p - new)
    BY <2>2, <1>4
  <2> QED BY <2>3, <2>4, <1>9
<1>11. \A p \in AllPages : p \notin B => y[p] = z[p]
  BY <1>4, <1>5
<1>12. \A p \in AllPages : p \in B /\ p \notin S /\ VALID \in flags[p] =>
            y[p].data = z[p].data /\ Bits(flags[p]) \subseteq prot
  BY <1>1
<1>13. KeepsOutside(y, S)
  <2>1. KTypeOK(y) /\ WholePages(B)
    BY <1>2, <1>4
  <2> QED BY ONLY <1>6, <1>10, <1>11, <1>12, <2>1, PatchKeeps
<1>14. Granted(y, B, prot)
  BY <1>2, <1>10 DEF Granted
<1> QED BY <1>1, <1>7, <1>13, <1>14

\* The flags that mremap leaves agree with what the kernel has.
LEMMA MovedInv ==
  ASSUME HostInv, CarefulGuest, NEW old, NEW oldlen, NEW new, NEW newlen,
         MovedRange(old, oldlen), MovedRange(new, newlen), Movable(old, oldlen),
         NEW S, S = Range(old, oldlen) \cup Range(new, newlen), NEW y, KeepsOutside(y, S),
         NEW prot, prot = k[old].prot, Granted(y, Range(new, newlen), prot),
         k' = y, flags' = MoveFlags(old, oldlen, new, newlen), last'.touched = S
  PROVE  HostStep
<1>1. /\ old \in AllPages /\ VALID \in flags[old] /\ flags[old] \in SUBSET {"R", "W", "X", VALID}
      /\ Bits(flags[old]) \subseteq prot
  <2>1. old \in Range(old, oldlen) /\ old \in AllPages
    BY MovedRangeType
  <2>2. VALID \in flags[old]
    BY <2>1, CarefulMove
  <2> QED BY <2>1, <2>2 DEF HostInv, RightsGranted
<1>2. PICK f, w : f = page_set_flags(flags, old, oldlen, {}) /\ w = flags[old] \cup {VALID}
  OBVIOUS
<1>3. PICK g : g = page_set_flags(f, new, newlen, w)
  OBVIOUS
<1>4. flags' = g
  BY <1>2, <1>3 DEF MoveFlags
<1>5. w \in SUBSET {"R", "W", "X", VALID} /\ VALID \in w /\ Bits(w) \subseteq prot
  BY <1>1, <1>2 DEF Bits, VALID
<1>6. \A p \in AllPages : /\ p \in Range(new, newlen) => g[p] = w
                          /\ p \notin Range(new, newlen) => g[p] = f[p]
                          /\ p \in Range(old, oldlen) => f[p] = {}
                          /\ p \notin Range(old, oldlen) => f[p] = flags[p]
  BY <1>2, <1>3, SetFlagsIs
<1>7. g \in [AllPages -> SUBSET {"R", "W", "X", VALID}]
  <2>1. f \in [AllPages -> SUBSET {"R", "W", "X", VALID}]
    BY <1>2, SetFlagsType DEF HostInv
  <2> QED BY <1>3, <1>5, <2>1, SetFlagsType
<1>8. \A p \in AllPages : p \notin S => flags'[p] = flags[p]
  BY <1>4, <1>6
<1>9. \A p \in AllPages : p \in S /\ flags'[p] # {} =>
         VALID \in flags'[p] /\ y[p].data # UNMAPPED /\ Bits(flags'[p]) \subseteq y[p].prot
  <2>1. TAKE p \in AllPages
  <2>2. HAVE p \in S /\ flags'[p] # {}
  <2>3. p \in Range(new, newlen) /\ flags'[p] = w
    BY <2>2, <1>4, <1>6
  <2> QED BY <2>3, <1>5 DEF Granted
<1>10. flags' \in [AllPages -> SUBSET {"R", "W", "X", VALID}] /\ S \cap AllPages \subseteq last'.touched
  BY <1>4, <1>7
<1> QED BY <1>8, <1>9, <1>10, NewInv

\* A mapping moved by the kernel alone.
LEMMA HostMove ==
  ASSUME HostInv, CarefulGuest, NEW old, NEW oldlen, NEW new, NEW newlen,
         MovedRange(old, oldlen), MovedRange(new, newlen), Movable(old, oldlen),
         k' = KMove(k, old, oldlen, new, newlen), flags' = MoveFlags(old, oldlen, new, newlen),
         last'.touched = Range(old, oldlen) \cup Range(new, newlen)
  PROVE  HostStep
<1>1. PICK x, S, prot : x = k /\ S = Range(old, oldlen) \cup Range(new, newlen) /\ prot = x[old].prot
  OBVIOUS
<1>2. KeepsOutside(x, S) /\ KMovable(x, old, oldlen)
  BY <1>1, KeepsAtFirst, CarefulMove
<1>3. PICK y : y = KMove(x, old, oldlen, new, newlen)
  OBVIOUS
<1>4. Range(old, oldlen) \subseteq S /\ Range(new, newlen) \subseteq S
  BY <1>1
<1>5. KeepsOutside(y, S) /\ Granted(y, Range(new, newlen), prot)
  BY <1>1, <1>2, <1>3, <1>4, MoveStage
<1>6. k' = y /\ prot = k[old].prot /\ last'.touched = S
  BY <1>1, <1>3
<1> QED BY <1>1, <1>5, <1>6, MovedInv

LEMMA HostMremapFixed ==
  ASSUME HostInv, CarefulGuest, NEW old, NEW oldlen, NEW new, NEW newlen,
         MovedRange(old, oldlen), MovedRange(new, newlen), target_mremap_fixed(old, oldlen, new, newlen)
  PROVE  HostStep
<1>1. Movable(old, oldlen)
  BY DEF target_mremap_fixed
<1>2. CASE KMovable(k, old, oldlen) /\ Disjoint(old, oldlen, new, newlen)
  BY <1>1, <1>2, HostMove DEF target_mremap_fixed, Remapped, Called
<1>3. CASE ~ (KMovable(k, old, oldlen) /\ Disjoint(old, oldlen, new, newlen))
  BY <1>3, NothingChanged DEF target_mremap_fixed, Remapped
<1> QED BY <1>2, <1>3

LEMMA HostMremapInplace ==
  ASSUME HostInv, CarefulGuest, NEW old, NEW oldlen, NEW newlen,
         MovedRange(old, oldlen), MovedRange(old, newlen), target_mremap_inplace(old, oldlen, newlen)
  PROVE  HostStep
<1> DEFINE ok == /\ KMovable(k, old, oldlen)
                 /\ \A p \in Range(old, newlen) \ Range(old, oldlen) : k[p].data = UNMAPPED
<1>1. Movable(old, oldlen)
  BY DEF target_mremap_inplace
<1>2. /\ k' = IF ok THEN KMove(k, old, oldlen, old, newlen) ELSE k
      /\ flags' = IF ok THEN MoveFlags(old, oldlen, old, newlen) ELSE flags
      /\ last'.touched = IF ok THEN Range(old, oldlen) \cup Range(old, newlen) ELSE {}
  BY DEF target_mremap_inplace, Remapped, Called
<1> HIDE DEF ok
<1>3. CASE ok
  BY <1>1, <1>2, <1>3, HostMove
<1>4. CASE ~ ok
  BY <1>2, <1>4, NothingChanged
<1> QED BY <1>3, <1>4

\* With MREMAP_MAYMOVE: through a place reserved for the mapping; the old range is
\* reserved without rights.
LEMMA HostMremapMaymove ==
  ASSUME HostInv, CarefulGuest, HostAligned, NEW old, NEW oldlen, NEW newlen \in Nat \ {0},
         MovedRange(old, oldlen), WholeHost(newlen), target_mremap_maymove(old, oldlen, newlen)
  PROVE  HostStep
<1>1. Movable(old, oldlen) /\ KMovable(k, old, oldlen)
  BY CarefulMove DEF target_mremap_maymove
<1>2. HostMultiple(newlen) /\ HOST_PAGE_ALIGN(newlen) = newlen
  BY AlignedIs, MultipleStays
<1>3. CASE k' = k /\ flags' = flags
  BY <1>3, NothingChanged
<1>4. ASSUME NEW new \in KFree(k, newlen),
             k' = mmap_reserve(KMove(KAnon(k, new, newlen, {}), old, oldlen, new, newlen), old, oldlen),
             flags' = MoveFlags(old, oldlen, new, newlen),
             last'.touched = Range(old, oldlen) \cup Range(new, newlen)
      PROVE  HostStep
  <2>1. PICK end : end = new + newlen
    OBVIOUS
  <2>2. /\ WholeRange(new, new + newlen) /\ Range(new, newlen) = new .. new + newlen - 1
        /\ \A p \in new .. new + newlen - 1 : p \in AllPages /\ k[p].data = UNMAPPED /\ VALID \notin flags[p]
    BY <1>2, FreePlace
  <2>3. new \in Nat /\ end \in Nat /\ end - new = newlen /\ new + newlen <= NP
    BY <2>1, <2>2 DEF WholeRange
  <2>4. MovedRange(new, newlen)
    BY <2>2, <2>3 DEF MovedRange, InSpace
  <2>5. PICK A, B, S : A = Range(old, oldlen) /\ B = Range(new, newlen) /\ S = A \cup B
    OBVIOUS
  <2>6. B = new .. end - 1 /\ WholeRange(new, end) /\ \A p \in B : p \in AllPages /\ k[p].data = UNMAPPED
    BY <2>1, <2>2, <2>3, <2>5 DEF Range
  <2>7. /\ old \in A /\ A \subseteq AllPages /\ WholePages(A)
    BY <2>5, MovedRangeType
  <2>8. A \cap B = {}
    BY <2>5, <2>6, <1>1 DEF KMovable, KMapped
  <2>9. PICK k0, none : k0 = k /\ none = {}
    OBVIOUS
  <2>10. KeepsOutside(k0, S) /\ none \in SUBSET {"R", "W", "X"}
    BY <2>9, KeepsAtFirst
  <2>11. PICK x : x = KAnon(k0, new, newlen, none)
    OBVIOUS
  <2>12. KeepsOutside(x, S) /\ \A p \in AllPages : p \notin B => x[p] = k0[p]
    <3>1. \A p \in AllPages : p \in new .. end - 1 /\ p \notin S => VALID \notin flags[p]
      BY <2>5, <2>6
    <3>2. x = KAnon(k0, new, end - new, none)
      BY <2>3, <2>11
    <3>3. KeepsOutside(x, S) /\ \A p \in AllPages : p \notin new .. end - 1 => x[p] = k0[p]
      <4>1. WholeRange(new, end)
        BY <2>6
      <4> QED BY ONLY <2>10, <3>1, <3>2, <4>1, AnonStage
    <3> QED BY <3>3, <2>6
  <2>13. \A p \in A : x[p] = k[p]
    BY <2>7, <2>8, <2>9, <2>12
  <2>14. KMovable(x, old, oldlen)
    BY <1>1, <2>5, <2>7, <2>13 DEF KMovable, KMapped
  <2>15. PICK moved, prot : moved = KMove(x, old, oldlen, new, newlen) /\ prot = x[old].prot
    OBVIOUS
  <2>16. KeepsOutside(moved, S) /\ Granted(moved, B, prot)
    <3>1. Range(old, oldlen) \subseteq S /\ Range(new, newlen) \subseteq S
      BY <2>5
    <3>2. MovedRange(old, oldlen)
      OBVIOUS
    <3> QED BY <2>4, <2>5, <2>12, <2>14, <2>15, <3>1, <3>2, MoveStage
  <2>17. PICK W, page : W = WholeHostPages(old, oldlen) /\ page = [NoMapping EXCEPT !.data = ZERO]
    OBVIOUS
  <2>18. page \in Page /\ page.file >= ANON
    BY <2>17 DEF NoMapping, Page, ZERO, ANON
  <2>19. WholePages(W) /\ (\A p \in AllPages : p \in W /\ p \notin A => VALID \notin flags[p]) /\ W \cap B = {}
    <3>1. InSpace(old, oldlen) /\ WholeRange(old, old + oldlen)
      BY DEF MovedRange
    <3>2. /\ WholePages(W)
          /\ \A p \in AllPages : p \in W /\ p \notin A => VALID \notin flags[p]
      BY <2>5, <2>17, <3>1, WholeHostPagesAre
    <3>3. HostStart(old) = old /\ HOST_PAGE_ALIGN(old + oldlen) = old + oldlen
      BY <3>1, MultipleStays DEF WholeRange
    <3>4. W \subseteq old .. old + oldlen - 1
      <4>1. old \in Nat /\ oldlen \in Nat
        BY <3>1 DEF InSpace
      <4> QED BY <2>17, <3>3, <4>1 DEF WholeHostPages
    <3>5. W \subseteq A
      BY <3>4, <2>5 DEF Range
    <3> QED BY <3>2, <3>5, <2>8
  <2>20. PICK y : y = [p \in AllPages |-> IF p \in W THEN page ELSE moved[p]]
    OBVIOUS
  <2>21. KeepsOutside(y, S)
    <3>1. \A p \in AllPages : p \in W /\ p \notin S => VALID \notin flags[p]
      BY <2>5, <2>19
    <3>2. KeepsOutside(moved, S) /\ WholePages(W)
      BY <2>16, <2>19
    <3> QED BY ONLY <2>18, <2>20, <3>1, <3>2, ReplaceKeeps
  <2>22. Granted(y, B, prot)
    BY <2>6, <2>16, <2>19, <2>20 DEF Granted
  <2>23. k' = y
    BY <1>4, <2>9, <2>11, <2>15, <2>17, <2>20 DEF mmap_reserve
  <2>24. prot = k[old].prot
    BY <2>7, <2>13, <2>15
  <2>25. S = Range(old, oldlen) \cup Range(new, newlen) /\ Granted(y, Range(new, newlen), prot) /\ last'.touched = S
    BY <1>4, <2>5, <2>22
  <2> QED BY <1>1, <1>4, <2>4, <2>21, <2>23, <2>24, <2>25, MovedInv
<1>5. \/ k' = k /\ flags' = flags
      \/ \E new \in KFree(k, newlen) :
           /\ k' = mmap_reserve(KMove(KAnon(k, new, newlen, {}), old, oldlen, new, newlen), old, oldlen)
           /\ flags' = MoveFlags(old, oldlen, new, newlen)
           /\ last'.touched = Range(old, oldlen) \cup Range(new, newlen)
  BY <1>1, <1>2 DEF target_mremap_maymove, Remapped, Called
<1> QED BY <1>3, <1>4, <1>5

LEMMA HostWrite ==
  ASSUME HostInv, NEW p \in AllPages, GuestWrite(p)
  PROVE  HostStep
<1>1. /\ VALID \in flags[p] /\ flags' = flags /\ last'.touched = {p}
      /\ k' = [k EXCEPT ![p].data = DIRTY]
  BY DEF GuestWrite
<1>2. PICK x, y, S : x = k /\ y = [x EXCEPT ![p].data = DIRTY] /\ S = {p}
  OBVIOUS
<1>3. KTypeOK(x) /\ KeepsOutside(x, S)
  BY <1>2, KeepsAtFirst DEF HostInv
<1>4. x \in [AllPages -> Page] /\ \A q \in AllPages : x[q] \in Page /\ x[q].file >= ANON
  BY <1>3 DEF KTypeOK
<1>5. /\ y[p] = [x[p] EXCEPT !.data = DIRTY] /\ \A q \in AllPages : q # p => y[q] = x[q]
      /\ y = [q \in AllPages |-> y[q]]
  BY <1>2, <1>4
<1>6. y[p] \in Page /\ y[p].file = x[p].file /\ y[p].data = DIRTY /\ y[p].prot = x[p].prot
  BY <1>4, <1>5 DEF Page, DIRTY
<1>7. KTypeOK(y)
  <2>1. \A q \in AllPages : y[q] \in Page /\ y[q].file >= ANON
    BY <1>4, <1>5, <1>6
  <2> QED BY <2>1, <1>5 DEF KTypeOK
<1>8. x[p].data # UNMAPPED /\ Bits(flags[p]) \subseteq x[p].prot
  BY <1>1, <1>2 DEF HostInv, RightsGranted
<1>9. DIRTY # UNMAPPED
  BY DEF DIRTY, UNMAPPED
<1>10. KeepsOutside(y, S)
  <2>1. /\ \A q \in AllPages : y[q].prot = x[q].prot /\ (y[q].data # UNMAPPED <=> x[q].data # UNMAPPED)
        /\ \A q \in AllPages : q \notin S => y[q].data = x[q].data
    BY <1>2, <1>5, <1>6, <1>8, <1>9
  <2> QED BY ONLY <1>3, <1>7, <2>1, AlikeKeeps
<1>11. k' = y /\ S \cap AllPages \subseteq last'.touched
  BY <1>1, <1>2
<1>12. flags' \in [AllPages -> SUBSET {"R", "W", "X", VALID}]
  BY <1>1 DEF HostInv
<1>13. /\ \A q \in AllPages : q \notin S => flags'[q] = flags[q]
       /\ \A q \in AllPages : q \in S /\ flags'[q] # {} =>
            VALID \in flags'[q] /\ y[q].data # UNMAPPED /\ Bits(flags'[q]) \subseteq y[q].prot
  BY <1>1, <1>2, <1>6, <1>8, <1>9
<1> QED BY <1>10, <1>11, <1>12, <1>13, NewInv

LEMMA HostInit == Init => HostInv
<1> SUFFICES ASSUME Init PROVE HostInv
  OBVIOUS
<1>1. KTypeOK(k)
  BY NoMappingType DEF Init, KTypeOK
<1> QED BY <1>1 DEF Init, HostInv, HostUniform, RightsGranted, PlainFlags

\* Every step, with host pages of any size.
LEMMA HostNext ==
  ASSUME CarefulGuest, HostAligned
  PROVE  HostInv /\ [Next]_vars => HostStep
<1> SUFFICES ASSUME HostInv, [Next]_vars PROVE HostStep
  OBVIOUS
<1>1. ASSUME NEW len \in Lens, NEW r \in Rights PROVE len \in Nat \ {0} /\ r \in SUBSET {"R", "W", "X"}
  BY Sizes
<1>2. ASSUME NEW len \in Lens, NEW r \in Rights, target_mmap_anywhere(len, r, TRUE, 0) PROVE HostStep
  BY <1>1, <1>2, HostAnywhere
<1>3. ASSUME NEW len \in Lens, NEW r \in Rights, NEW offset \in 0 .. NFile - len,
             target_mmap_anywhere(len, r, FALSE, offset)
      PROVE  HostStep
  <2>1. offset \in Nat
    BY <1>1, Sizes
  <2> QED BY <1>1, <1>3, <2>1, HostAnywhere
<1>4. ASSUME NEW len \in Lens, NEW start \in 0 .. NP - len PROVE InSpace(start, len)
  BY Sizes DEF InSpace
<1>5. ASSUME NEW len \in Lens, NEW r \in Rights, NEW start \in 0 .. NP - len, MmapCall(start, len, r)
      PROVE  HostStep
  <2>1. InSpace(start, len) /\ start \in Nat /\ len \in Nat /\ start + len \in Nat
    BY <1>1, <1>4
  <2>2. HostMultiple(start + len)
    BY <1>5, <2>1, AlignedIs DEF MmapCall
  <2>3. CASE target_mmap_fixed(start, len, r, TRUE, FALSE, 0)
    BY <1>1, <2>1, <2>2, <2>3, HostFixed
  <2>4. ASSUME NEW offset \in 0 .. NFile - len, NEW shared \in BOOLEAN,
               shared /\ "W" \in r => WholeHost(start),
               target_mmap_fixed(start, len, r, FALSE, shared, offset)
        PROVE  HostStep
    <3>1. offset \in Nat
      BY <1>1, Sizes
    <3>2. ~ (shared /\ "W" \in r) \/ HostMultiple(start)
      BY <2>1, <2>4, AlignedIs
    <3> QED BY <1>1, <2>1, <2>2, <2>4, <3>1, <3>2, HostFixed
  <2>5. ASSUME NEW offset \in 0 .. NFile - len, NEW shared \in BOOLEAN,
               target_mmap_read(start, len, r, shared, offset)
        PROVE  HostStep
    <3>1. offset \in Nat
      BY <1>1, Sizes
    <3> QED BY <1>1, <2>1, <2>2, <2>5, <3>1, HostRead
  <2> QED BY <1>5, <2>3, <2>4, <2>5 DEF MmapCall
<1>6. ASSUME NEW len \in Lens, NEW r \in Rights, NEW start \in 0 .. NP - len, target_mprotect(start, len, r)
      PROVE  HostStep
  BY <1>1, <1>4, <1>6, HostMprotect
<1>7. ASSUME NEW len \in Lens, NEW start \in 0 .. NP - len, target_munmap(start, len)
      PROVE  HostStep
  BY <1>4, <1>7, HostMunmap
<1>8. ASSUME NEW len \in Lens, NEW start \in 0 .. NP - len, NEW newlen \in Lens,
             MremapCall(start, len, newlen)
      PROVE  HostStep
  <2>1. WholeHost(start) /\ WholeHost(len) /\ WholeHost(newlen) /\ newlen \in Nat \ {0}
    BY <1>8, Sizes DEF MremapCall
  <2>2. MovedRange(start, len)
    BY <1>4, <2>1, MovedRangeIs
  <2>3. CASE target_mremap_maymove(start, len, newlen)
    BY <2>1, <2>2, <2>3, HostMremapMaymove
  <2>4. CASE start + newlen <= NP /\ target_mremap_inplace(start, len, newlen)
    <3>1. InSpace(start, newlen)
      BY <2>1, <2>4 DEF InSpace
    <3>2. MovedRange(start, newlen)
      BY <2>1, <3>1, MovedRangeIs
    <3> QED BY <2>2, <2>4, <3>2, HostMremapInplace
  <2>5. ASSUME NEW new \in 0 .. NP - newlen, WholeHost(new), target_mremap_fixed(start, len, new, newlen)
        PROVE  HostStep
    <3>1. MovedRange(new, newlen)
      BY <1>4, <2>1, <2>5, MovedRangeIs
    <3> QED BY <2>2, <2>5, <3>1, HostMremapFixed
  <2> QED BY <1>8, <2>3, <2>4, <2>5 DEF MremapCall
<1>9. ASSUME NEW p \in AllPages, GuestWrite(p) PROVE HostStep
  BY <1>9, HostWrite
<1>10. CASE UNCHANGED vars
  BY <1>10, NothingChanged DEF vars
<1> QED BY <1>2, <1>3, <1>5, <1>6, <1>7, <1>8, <1>9, <1>10 DEF Next, Call

\* With host pages of any number of guest pages (option -p), what the guest maps,
\* protects, unmaps or moves never takes a right or the contents from a page that
\* shares a host page with the range: a valid page is mapped with the rights its
\* flags record, and a call that succeeds leaves the contents outside its range
\* alone.  The guest protects and moves only what is mapped, and its ranges meet host
\* pages as HostAligned says.
THEOREM HalfPages ==
  ASSUME CarefulGuest, HostAligned
  PROVE  Spec => []RightsGranted /\ OutsideKeepsContents
<1>1. Init => HostInv
  BY HostInit
<1>2. HostInv /\ [Next]_vars => HostInv'
  BY HostNext DEF HostStep
<1>3. HostInv => RightsGranted
  BY DEF HostInv
<1>4. HostInv /\ [Next]_vars =>
        [\A p \in AllPages : last'.ok /\ Untouched(p) => k'[p].data = k[p].data]_vars
  BY HostNext DEF HostStep
<1> QED BY <1>1, <1>2, <1>3, <1>4, PTL DEF Spec, OutsideKeepsContents
=============================================================================
