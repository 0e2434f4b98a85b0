---------------------------- MODULE PageMapProofs ----------------------------
(***************************************************************************)
(* Proofs about PageMap, for every page size and every shape of the map:   *)
(* the two-level map behaves as the flat map from page to flags that Mmap  *)
(* and SysMem keep.                                                        *)
(***************************************************************************)
EXTENDS PageMap, TLAPS

(***************************************************************************)
(* Division                                                                *)
(***************************************************************************)

\* Quotient and remainder, by what they are.
LEMMA DivMod ==
  ASSUME NEW a \in Nat, NEW m \in Nat \ {0}
  PROVE  /\ a \div m \in Nat /\ a % m \in 0 .. m - 1
         /\ a = (a \div m) * m + (a % m)
         /\ (a \div m) * m <= a /\ a < (a \div m) * m + m
OBVIOUS

\* Multiples of m come in the order of their factors, and m apart.
LEMMA FactorsInOrder ==
  ASSUME NEW x \in Int, NEW y \in Int, NEW m \in Nat \ {0}, x < y
  PROVE  x * m + m <= y * m
<1>1. PICK d \in Nat : y = x + 1 + d
  OBVIOUS
<1>2. y * m = x * m + m + d * m
  BY <1>1
<1>3. d * m \in Nat
  OBVIOUS
<1> QED BY <1>2, <1>3

\* A number lies in one multiple's stretch only.
LEMMA DivIs ==
  ASSUME NEW a \in Nat, NEW m \in Nat \ {0}, NEW q \in Int, q * m <= a, a < q * m + m
  PROVE  a \div m = q
<1>1. PICK r \in Nat : r = a \div m
  BY DivMod
<1>2. r * m <= a /\ a < r * m + m
  BY <1>1, DivMod
<1>3. q * m \in Int /\ r * m \in Int
  OBVIOUS
<1>4. ~ (r < q)
  <2>1. r < q => r * m + m <= q * m
    BY FactorsInOrder
  <2> QED BY <2>1, <1>2, <1>3
<1>5. ~ (q < r)
  <2>1. q < r => q * m + m <= r * m
    BY FactorsInOrder
  <2> QED BY <2>1, <1>2, <1>3
<1> QED BY <1>1, <1>4, <1>5

LEMMA SmallMod ==
  ASSUME NEW a \in Nat, NEW m \in Nat \ {0}
  PROVE  /\ a < m => a % m = a
         /\ m <= a /\ a < m + m => a % m = a - m
<1>1. ASSUME a < m PROVE a % m = a
  BY <1>1
<1>2. ASSUME m <= a, a < m + m PROVE a % m = a - m
  <2>1. 1 * m <= a /\ a < 1 * m + m
    BY <1>2
  <2>2. a \div m = 1
    BY <2>1, DivIs
  <2>3. a = (a \div m) * m + (a % m)
    BY DivMod
  <2>4. a % m \in Int /\ 1 * m = m
    BY DivMod
  <2> QED BY <2>2, <2>3, <2>4
<1> QED BY <1>1, <1>2

(***************************************************************************)
(* The pages that page_set_flags visits                                    *)
(***************************************************************************)

LEMMA Sizes ==
  ASSUME PageMapAssumption
  PROVE  /\ TARGET_PAGE_SIZE \in Nat \ {0} /\ L1_SIZE \in Nat \ {0} /\ L2_SIZE \in Nat \ {0}
         /\ NPages \in Nat \ {0} /\ Space \in Nat \ {0}
<1>1. TARGET_PAGE_SIZE \in Nat \ {0} /\ L1_SIZE \in Nat \ {0} /\ L2_SIZE \in Nat \ {0}
  BY DEF PageMapAssumption
<1>2. NPages \in Nat \ {0}
  BY <1>1 DEF NPages
<1>3. Space \in Nat \ {0}
  BY <1>1, <1>2 DEF Space
<1> QED BY <1>1, <1>2, <1>3

\* The page of an address.
LEMMA PageOfAddr ==
  ASSUME PageMapAssumption, NEW a \in Addrs
  PROVE  /\ a \in Nat /\ PageOf(a) \in Pages
         /\ PageOf(a) * TARGET_PAGE_SIZE <= a /\ a < PageOf(a) * TARGET_PAGE_SIZE + TARGET_PAGE_SIZE
<1>1. TARGET_PAGE_SIZE \in Nat \ {0} /\ NPages \in Nat \ {0} /\ Space \in Nat \ {0}
  BY Sizes
<1>2. a \in Nat /\ a < NPages * TARGET_PAGE_SIZE
  BY <1>1 DEF Addrs, Space
<1>3. PICK q \in Nat : q = PageOf(a)
  BY <1>1, <1>2, DivMod DEF PageOf
<1>4. q * TARGET_PAGE_SIZE <= a /\ a < q * TARGET_PAGE_SIZE + TARGET_PAGE_SIZE
  BY <1>1, <1>2, <1>3, DivMod DEF PageOf
<1>5. ~ (NPages <= q)
  <2>1. CASE q = NPages
    BY <2>1, <1>1, <1>2, <1>4
  <2>2. CASE NPages < q
    <3>1. NPages * TARGET_PAGE_SIZE + TARGET_PAGE_SIZE <= q * TARGET_PAGE_SIZE
      BY <2>2, <1>1, FactorsInOrder
    <3>2. NPages * TARGET_PAGE_SIZE \in Int /\ q * TARGET_PAGE_SIZE \in Int
      BY <1>1
    <3> QED BY <3>1, <3>2, <1>1, <1>2, <1>4
  <2> QED BY <2>1, <2>2, <1>1
<1> QED BY <1>1, <1>2, <1>3, <1>4, <1>5 DEF Pages

\* Rounding up the end of a range: to the page behind the last byte, or to 0 behind
\* the last page.
LEMMA AlignEnd ==
  ASSUME PageMapAssumption, NEW end \in Addrs, 0 < end
  PROVE  LET q == PageOf(end - 1) + 1
         IN  /\ q \in 1 .. NPages
             /\ TARGET_PAGE_ALIGN(end) = IF q = NPages THEN 0 ELSE q * TARGET_PAGE_SIZE
<1>1. TARGET_PAGE_SIZE \in Nat \ {0} /\ NPages \in Nat \ {0} /\ Space \in Nat \ {0}
  BY Sizes
<1>2. end - 1 \in Addrs /\ end \in Nat
  BY <1>1 DEF Addrs
<1>3. PICK p, b : p = PageOf(end - 1) /\ b = p * TARGET_PAGE_SIZE
  OBVIOUS
<1>4. p \in Pages /\ b <= end - 1 /\ end - 1 < b + TARGET_PAGE_SIZE
  BY <1>2, <1>3, PageOfAddr
<1>5. p \in Nat /\ p + 1 \in 1 .. NPages /\ b \in Int
  BY <1>1, <1>3, <1>4 DEF Pages
<1>6. (p + 1) * TARGET_PAGE_SIZE = b + TARGET_PAGE_SIZE
  BY <1>1, <1>3, <1>5
<1>7. PICK a : a = end + TARGET_PAGE_SIZE - 1
  OBVIOUS
<1>8. a \in Nat /\ (p + 1) * TARGET_PAGE_SIZE <= a /\ a < (p + 1) * TARGET_PAGE_SIZE + TARGET_PAGE_SIZE
  BY <1>1, <1>2, <1>4, <1>5, <1>6, <1>7
<1>9. a \div TARGET_PAGE_SIZE = p + 1
  BY <1>1, <1>5, <1>8, DivIs
<1>10. TARGET_PAGE_ALIGN(end) = ((p + 1) * TARGET_PAGE_SIZE) % Space
  BY <1>7, <1>9 DEF TARGET_PAGE_ALIGN
<1>11. CASE p + 1 = NPages
  <2>1. TARGET_PAGE_ALIGN(end) = Space % Space
    BY <1>10, <1>11 DEF Space
  <2>2. Space % Space = 0
    BY <1>1, SmallMod
  <2> QED BY <2>1, <2>2, <1>3, <1>5, <1>11
<1>12. CASE p + 1 < NPages
  <2>1. (p + 1) * TARGET_PAGE_SIZE + TARGET_PAGE_SIZE <= Space
    BY <1>1, <1>5, <1>12, FactorsInOrder DEF Space
  <2>2. PICK c \in Nat : c = (p + 1) * TARGET_PAGE_SIZE
    BY <1>1, <1>5
  <2>3. c < Space
    BY <1>1, <2>1, <2>2
  <2>4. c % Space = c
    BY <1>1, <2>3, SmallMod
  <2> QED BY <2>2, <2>4, <1>3, <1>5, <1>10, <1>12
<1> QED BY <1>1, <1>5, <1>11, <1>12

\* What the loop visits: the pages of the range, or nothing if they are all pages.
LEMMA VisitedPages ==
  ASSUME PageMapAssumption, NEW start \in Addrs, NEW end \in Addrs, start < end
  PROVE  LET touched == PageOf(start) .. PageOf(end - 1)
         IN  PagesFrom(start, end) = IF touched = Pages THEN {} ELSE touched
<1>1. TARGET_PAGE_SIZE \in Nat \ {0} /\ NPages \in Nat \ {0} /\ Space \in Nat \ {0}
  BY Sizes
<1>2. end - 1 \in Addrs /\ start \in Nat /\ end \in Nat /\ 0 < end
  BY <1>1 DEF Addrs
<1>3. PICK s, q, T : s = PageOf(start) /\ q = PageOf(end - 1) + 1 /\ T = TARGET_PAGE_SIZE
  OBVIOUS
<1>4. /\ s \in Nat /\ s < NPages /\ s * T <= start /\ start < s * T + T
      /\ q \in 1 .. NPages
      /\ (q - 1) * T <= end - 1 /\ end - 1 < (q - 1) * T + T
      /\ TARGET_PAGE_ALIGN(end) = IF q = NPages THEN 0 ELSE q * T
  <2>1. s \in Pages /\ s * T <= start /\ start < s * T + T
    BY <1>3, PageOfAddr
  <2>2. q \in 1 .. NPages /\ TARGET_PAGE_ALIGN(end) = IF q = NPages THEN 0 ELSE q * T
    BY <1>2, <1>3, AlignEnd
  <2>3. PICK r : r = PageOf(end - 1)
    OBVIOUS
  <2>4. r \in Pages /\ r * T <= end - 1 /\ end - 1 < r * T + T
    BY <1>2, <1>3, <2>3, PageOfAddr
  <2>5. r = q - 1
    BY <1>1, <1>3, <2>3, <2>4 DEF Pages
  <2> QED BY <1>1, <2>1, <2>2, <2>4, <2>5 DEF Pages
<1>5. T \in Nat \ {0} /\ q \in Nat /\ Space = NPages * T
  BY <1>1, <1>3, <1>4 DEF Space
<1>6. s < q
  <2>1. q - 1 < s => (q - 1) * T + T <= s * T
    BY <1>4, <1>5, FactorsInOrder
  <2>2. (q - 1) * T \in Int /\ s * T \in Int
    BY <1>4, <1>5
  <2> QED BY <2>1, <2>2, <1>2, <1>4, <1>5
<1>7. PICK first, n, all : first = s * T /\ n = (q - s) * T /\ all = NPages * T
  OBVIOUS
<1>8. /\ first \in Nat /\ n \in Nat \ {0} /\ all \in Nat \ {0} /\ first + n = q * T
      /\ q < NPages => q * T + T <= all
      /\ q * T <= all
  <2>1. first \in Nat /\ all \in Nat \ {0}
    BY <1>1, <1>4, <1>5, <1>7
  <2>2. PICK d \in Nat \ {0} : d = q - s
    BY <1>4, <1>5, <1>6
  <2>3. n \in Nat \ {0}
    BY <1>5, <1>7, <2>2
  <2>4. q = s + d
    BY <2>2, <1>4, <1>5
  <2>5. q * T = s * T + d * T
    BY <2>4, <1>4, <1>5, <2>2
  <2>6. q < NPages => q * T + T <= all
    BY <1>1, <1>5, <1>7, FactorsInOrder
  <2>7. q * T \in Int
    BY <1>5
  <2>8. q * T <= all
    <3>1. q = NPages => q * T = all
      BY <1>7
    <3>2. q < NPages => q * T <= all
      BY <2>1, <2>6, <2>7, <1>5
    <3>3. q = NPages \/ q < NPages
      BY <1>1, <1>4
    <3> QED BY <3>1, <3>2, <3>3, <2>1, <2>7
  <2> QED BY <1>7, <2>1, <2>2, <2>3, <2>5, <2>6, <2>8
<1>9. PICK len : len = (all + TARGET_PAGE_ALIGN(end) - first) % all
  OBVIOUS
<1>10. PagesFrom(start, end) = {PageOf((first + i) % all) : i \in 0 .. len - 1}
  BY <1>3, <1>5, <1>7, <1>9 DEF PagesFrom
<1>11. len = IF s = 0 /\ q = NPages THEN 0 ELSE n
  <2>1. CASE q < NPages
    <3>1. all + TARGET_PAGE_ALIGN(end) - first = all + n
      BY <2>1, <1>4, <1>5, <1>8
    <3>2. n < all
      BY <2>1, <1>5, <1>8
    <3>3. PICK c \in Nat : c = all + n
      BY <1>8
    <3>4. all <= c /\ c < all + all
      BY <3>2, <3>3, <1>8
    <3>5. c % all = c - all
      BY <3>4, <1>8, SmallMod
    <3>6. c - all = n /\ len = c % all
      BY <3>1, <3>3, <1>8, <1>9
    <3> QED BY <3>5, <3>6, <2>1, <1>1, <1>4
  <2>2. CASE q = NPages /\ s = 0
    <3>1. first = 0 /\ TARGET_PAGE_ALIGN(end) = 0
      BY <2>2, <1>4, <1>5, <1>7
    <3>2. all % all = 0
      BY <1>8, SmallMod
    <3> QED BY <3>1, <3>2, <2>2, <1>8, <1>9
  <2>3. CASE q = NPages /\ s # 0
    <3>1. all + TARGET_PAGE_ALIGN(end) - first = n
      BY <2>3, <1>4, <1>5, <1>7, <1>8
    <3>2. 0 < first
      BY <2>3, <1>4, <1>5, <1>7
    <3>3. n < all
      BY <3>2, <2>3, <1>7, <1>8
    <3>4. n % all = n
      BY <3>3, <1>8, SmallMod
    <3> QED BY <3>1, <3>4, <2>3, <1>9
  <2> QED BY <2>1, <2>2, <2>3, <1>1, <1>4
<1>12. PICK touched : touched = PageOf(start) .. PageOf(end - 1)
  OBVIOUS
<1>13. touched = s .. q - 1
  <2>1. PageOf(end - 1) = q - 1
    <3>1. PageOf(end - 1) \in Pages
      BY <1>2, PageOfAddr
    <3> QED BY <3>1, <1>1, <1>3 DEF Pages
  <2> QED BY <2>1, <1>3, <1>12
<1>14. touched = Pages <=> s = 0 /\ q = NPages
  BY <1>1, <1>4, <1>5, <1>6, <1>13 DEF Pages
<1>15. CASE s = 0 /\ q = NPages
  BY <1>10, <1>11, <1>12, <1>14, <1>15
<1>16. CASE ~ (s = 0 /\ q = NPages)
  <2>1. PagesFrom(start, end) = {PageOf((first + i) % all) : i \in 0 .. n - 1}
    BY <1>10, <1>11, <1>16
  <2>2. ASSUME NEW i \in 0 .. n - 1
        PROVE  (first + i) % all = first + i
    <3>1. first + i \in Nat /\ first + i < all
      BY <1>8
    <3> QED BY <3>1, <1>8, SmallMod
  <2>3. ASSUME NEW i \in 0 .. n - 1
        PROVE  PageOf((first + i) % all) \in s .. q - 1
    <3>1. PICK a \in Nat : a = first + i
      BY <1>8
    <3>2. s * T <= a /\ a < q * T
      BY <3>1, <1>7, <1>8
    <3>3. PICK r \in Nat : r = a \div T
      BY <1>5, DivMod
    <3>4. r * T <= a /\ a < r * T + T
      BY <3>3, <1>5, DivMod
    <3>5. r * T \in Int /\ s * T \in Int /\ q * T \in Int
      BY <1>4, <1>5
    <3>6. ~ (r < s)
      <4>1. r < s => r * T + T <= s * T
        BY <1>4, <1>5, FactorsInOrder
      <4> QED BY <4>1, <3>2, <3>4, <3>5, <1>5
    <3>7. ~ (q <= r)
      <4>1. q < r => q * T + T <= r * T
        BY <1>5, FactorsInOrder
      <4> QED BY <4>1, <3>2, <3>4, <3>5, <1>5
    <3>8. PageOf((first + i) % all) = r
      BY <2>2, <3>1, <3>3, <1>3 DEF PageOf
    <3> QED BY <3>6, <3>7, <3>8, <1>4, <1>5
  <2>4. ASSUME NEW p \in s .. q - 1
        PROVE  \E i \in 0 .. n - 1 : PageOf((first + i) % all) = p
    <3>1. p \in Nat /\ s <= p /\ p < q
      BY <1>4, <1>5
    <3>2. PICK a \in Nat : a = p * T
      BY <3>1, <1>5
    <3>3. first <= a
      <4>1. s < p => s * T + T <= p * T
        BY <3>1, <1>4, <1>5, FactorsInOrder
      <4>2. s * T \in Int
        BY <1>4, <1>5
      <4> QED BY <4>1, <4>2, <3>1, <3>2, <1>4, <1>5, <1>7
    <3>4. a + T <= q * T
      BY <3>1, <3>2, <1>5, FactorsInOrder
    <3>5. PICK i : i = a - first
      OBVIOUS
    <3>6. i \in 0 .. n - 1 /\ first + i = a
      BY <3>2, <3>3, <3>4, <3>5, <1>5, <1>8
    <3>7. a \div T = p
      <4>1. p * T <= a /\ a < p * T + T
        BY <3>2, <1>5
      <4> QED BY <4>1, <3>1, <1>5, DivIs
    <3>8. PageOf((first + i) % all) = p
      BY <2>2, <3>6, <3>7, <1>3 DEF PageOf
    <3> QED BY <3>6, <3>8
  <2>5. PagesFrom(start, end) = s .. q - 1
    BY <2>1, <2>3, <2>4
  <2> QED BY <2>5, <1>12, <1>13, <1>14, <1>16
<1> QED BY <1>15, <1>16

(***************************************************************************)
(* The flat map                                                            *)
(***************************************************************************)

\* The entry of a page, and its place there.
LEMMA EntryOf ==
  ASSUME PageMapAssumption, NEW p \in Pages
  PROVE  /\ p \in Nat /\ p \div L2_SIZE \in 0 .. L1_SIZE - 1 /\ p % L2_SIZE \in 0 .. L2_SIZE - 1
         /\ (p \div L2_SIZE) * L2_SIZE + (p % L2_SIZE) = p
<1>1. L1_SIZE \in Nat \ {0} /\ L2_SIZE \in Nat \ {0} /\ NPages \in Nat \ {0}
  BY Sizes
<1>2. p \in Nat /\ p < L1_SIZE * L2_SIZE
  BY <1>1 DEF Pages, NPages
<1>3. PICK e \in Nat : e = p \div L2_SIZE
  BY <1>1, <1>2, DivMod
<1>4. /\ e * L2_SIZE <= p /\ p % L2_SIZE \in 0 .. L2_SIZE - 1 /\ p = e * L2_SIZE + (p % L2_SIZE)
  BY <1>1, <1>2, <1>3, DivMod
<1>5. ~ (L1_SIZE <= e)
  <2>1. CASE e = L1_SIZE
    BY <2>1, <1>1, <1>2, <1>4
  <2>2. CASE L1_SIZE < e
    <3>1. L1_SIZE * L2_SIZE + L2_SIZE <= e * L2_SIZE
      BY <2>2, <1>1, FactorsInOrder
    <3>2. L1_SIZE * L2_SIZE \in Int /\ e * L2_SIZE \in Int
      BY <1>1
    <3> QED BY <3>1, <3>2, <1>1, <1>2, <1>4
  <2> QED BY <2>1, <2>2, <1>1
<1> QED BY <1>1, <1>2, <1>3, <1>4, <1>5

\* A leaf that exists is not the missing one.
LEMMA LeafExists ==
  ASSUME PageMapAssumption, NEW leaf, DOMAIN leaf = 0 .. L2_SIZE - 1
  PROVE  leaf # NULL
<1>1. 0 \in DOMAIN leaf
  BY Sizes
<1>2. DOMAIN NULL = {}
  BY DEF NULL
<1> QED BY <1>1, <1>2

\* What page_set_flags leaves at every page.
LEMMA FlagsAfter ==
  ASSUME PageMapAssumption, NEW start, NEW end, NEW flags, NEW p \in Pages
  PROVE  FlagsIn(MapWith(start, end, flags), p) =
           IF p \in PagesFrom(start, end) THEN WithWriteOrg(flags) ELSE FlagsIn(l1_map, p)
<1>1. PICK e, i : e = p \div L2_SIZE /\ i = p % L2_SIZE
  OBVIOUS
<1>2. e \in 0 .. L1_SIZE - 1 /\ i \in 0 .. L2_SIZE - 1 /\ e * L2_SIZE + i = p
  BY <1>1, EntryOf
<1>3. PICK visited, after, new : /\ visited = PagesFrom(start, end) /\ after = MapWith(start, end, flags)
                                 /\ new = WithWriteOrg(flags)
  OBVIOUS
<1>4. after[e] = IF \E q \in visited : q \div L2_SIZE = e
                 THEN SetLeaf(l1_map[e], e, visited, new) ELSE l1_map[e]
  BY <1>2, <1>3 DEF MapWith
<1>5. FlagsIn(after, p) = (IF after[e] = NULL THEN {} ELSE after[e][i])
  BY <1>1 DEF FlagsIn
<1>6. FlagsIn(l1_map, p) = (IF l1_map[e] = NULL THEN {} ELSE l1_map[e][i])
  BY <1>1 DEF FlagsIn
<1>7. CASE \E q \in visited : q \div L2_SIZE = e
  <2>1. after[e] = SetLeaf(l1_map[e], e, visited, new)
    BY <1>4, <1>7
  <2>2. DOMAIN after[e] = 0 .. L2_SIZE - 1
    BY <2>1 DEF SetLeaf
  <2>3. after[e] # NULL
    BY <2>2, LeafExists
  <2>4. after[e][i] = IF p \in visited THEN new ELSE (IF l1_map[e] = NULL THEN NewLeaf ELSE l1_map[e])[i]
    BY <2>1, <1>2 DEF SetLeaf
  <2>5. NewLeaf[i] = {}
    BY <1>2 DEF NewLeaf
  <2> QED BY <2>3, <2>4, <2>5, <1>3, <1>5, <1>6
<1>8. CASE ~ \E q \in visited : q \div L2_SIZE = e
  <2>1. p \notin visited /\ after[e] = l1_map[e]
    BY <1>1, <1>4, <1>8
  <2> QED BY <2>1, <1>3, <1>5, <1>6
<1> QED BY <1>7, <1>8

LEMMA ExactHere == PageMapAssumption => SetIsExact
<1> SUFFICES ASSUME PageMapAssumption, NEW start \in Addrs, NEW end \in Addrs, NEW f \in FlagSets, start < end,
                    NEW p \in Pages
             PROVE  FlagsIn(MapWith(start, end, f), p) =
                      IF p \in PageOf(start) .. PageOf(end - 1) /\ PageOf(start) .. PageOf(end - 1) # Pages
                      THEN WithWriteOrg(f) ELSE FlagsIn(l1_map, p)
  BY DEF SetIsExact
<1>1. PagesFrom(start, end) = IF PageOf(start) .. PageOf(end - 1) = Pages THEN {}
                              ELSE PageOf(start) .. PageOf(end - 1)
  BY VisitedPages
<1>2. FlagsIn(MapWith(start, end, f), p) =
        IF p \in PagesFrom(start, end) THEN WithWriteOrg(f) ELSE FlagsIn(l1_map, p)
  BY FlagsAfter
<1> QED BY <1>1, <1>2

\* PAGE_WRITE and PAGE_WRITE_ORG stand together on every page: page_set_flags adds
\* the one to the other, and nothing else sets flags.
WriteWithOrg == \A p \in Pages : "PAGE_WRITE" \in FlagsIn(l1_map, p) <=> "PAGE_WRITE_ORG" \in FlagsIn(l1_map, p)

LEMMA OrgStep ==
  ASSUME PageMapAssumption
  PROVE  WriteWithOrg /\ [Next]_vars => WriteWithOrg'
<1> SUFFICES ASSUME WriteWithOrg, [Next]_vars PROVE WriteWithOrg'
  OBVIOUS
<1>1. CASE l1_map' = l1_map
  BY <1>1 DEF WriteWithOrg, FlagsIn
<1>2. ASSUME NEW start \in Addrs, NEW end \in Addrs, NEW flags \in FlagSets,
             l1_map' = MapWith(start, end, flags)
      PROVE  WriteWithOrg'
  <2> SUFFICES ASSUME NEW p \in Pages
               PROVE  "PAGE_WRITE" \in FlagsIn(l1_map', p) <=> "PAGE_WRITE_ORG" \in FlagsIn(l1_map', p)
    BY DEF WriteWithOrg
  <2>1. PICK map : map = MapWith(start, end, flags)
    OBVIOUS
  <2>2. FlagsIn(map, p) = IF p \in PagesFrom(start, end) THEN WithWriteOrg(flags) ELSE FlagsIn(l1_map, p)
    BY <2>1, FlagsAfter
  <2>3. "PAGE_WRITE" \in WithWriteOrg(flags) <=> "PAGE_WRITE_ORG" \in WithWriteOrg(flags)
    <3>1. "PAGE_WRITE_ORG" \notin flags
      BY DEF FlagSets, PageMapAssumption
    <3> QED BY <3>1 DEF WithWriteOrg
  <2>4. "PAGE_WRITE" \in FlagsIn(map, p) <=> "PAGE_WRITE_ORG" \in FlagsIn(map, p)
    BY <2>2, <2>3 DEF WriteWithOrg
  <2> QED BY <2>1, <2>4, <1>2
<1> QED BY <1>1, <1>2 DEF Next, page_set_flags, vars

\* The two-level map with its leaves made on demand is the flat map of flags that
\* mmap, brk and shmat are modelled with: for every page size and every shape of the
\* map, page_set_flags sets exactly the pages that its range touches, a range of the
\* whole address space excepted, whose length is 0 after rounding; and page_unprotect
\* never comes to the invalidation, which is abort().
THEOREM FlagsAreFlat ==
  ASSUME PageMapAssumption
  PROVE  Spec => [](SetIsExact /\ \A a \in Addrs : page_unprotect(a) = "no")
<1>1. Init => WriteWithOrg
  <2> SUFFICES ASSUME Init, NEW p \in Pages PROVE FlagsIn(l1_map, p) = {}
    BY DEF WriteWithOrg
  <2>1. l1_map[p \div L2_SIZE] = NULL
    BY EntryOf DEF Init
  <2> QED BY <2>1 DEF FlagsIn
<1>2. WriteWithOrg /\ [Next]_vars => WriteWithOrg'
  BY OrgStep
<1>3. WriteWithOrg => SetIsExact /\ \A a \in Addrs : page_unprotect(a) = "no"
  <2> SUFFICES ASSUME WriteWithOrg, NEW a \in Addrs PROVE page_unprotect(a) = "no"
    BY ExactHere
  <2>1. PageOf(a) \in Pages
    BY PageOfAddr
  <2> QED BY <2>1 DEF WriteWithOrg, page_unprotect, page_get_flags
<1> QED BY <1>1, <1>2, <1>3, PTL DEF Spec
=============================================================================
