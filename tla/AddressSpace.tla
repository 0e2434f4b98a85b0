---------------------------- MODULE AddressSpace ----------------------------
(***************************************************************************)
(* The guest's address space as the guest sees it: each page is unmapped or *)
(* has rights and contents.  Every operation changes one range of pages and *)
(* no other page.                                                          *)
(***************************************************************************)
EXTENDS Integers

CONSTANTS
  NP,       \* pages of the address space
  Rights,   \* sets of rights a page may have
  NFile     \* pages of the file

VARIABLE space    \* page -> [rights, data]

AllPages == 0 .. NP - 1
UNMAPPED == 0       \* contents of a page that is not there
ZERO == 1           \* of a fresh anonymous page
DIRTY == 2          \* of a page the guest has written
BEYOND == 3         \* of a page past the end of the file
FilePage(n) == IF n < NFile THEN 10 + n ELSE BEYOND   \* of page n of the file

NoPage == [rights |-> {}, data |-> UNMAPPED]
Within(start, len) == len > 0 /\ start + len <= NP

Init == space = [p \in AllPages |-> NoPage]

\* The pages of the range get what page(i), i = 0 .. len - 1, says.
SetRange(start, len, page(_)) ==
  space' = [p \in AllPages |-> IF p \in start .. start + len - 1 THEN page(p - start) ELSE space[p]]

Map(start, len, r) ==
  \/ SetRange(start, len, LAMBDA i : [rights |-> r, data |-> ZERO])
  \/ \E n \in 0 .. NFile : SetRange(start, len, LAMBDA i : [rights |-> r, data |-> FilePage(n + i)])

Unmap(start, len) == SetRange(start, len, LAMBDA i : NoPage)

Protect(start, len, r) ==
  /\ \A p \in start .. start + len - 1 : space[p].data # UNMAPPED
  /\ SetRange(start, len, LAMBDA i : [space[start + i] EXCEPT !.rights = r])

\* Contents and rights move; what is added at the end is new.
Move(old, oldlen, new, newlen) ==
  LET kept == IF oldlen < newlen THEN oldlen ELSE newlen
      more == {d \in 1 .. 10 + NFile : TRUE}
  IN  \E fill \in [kept .. newlen - 1 -> more] :
        space' = [p \in AllPages |->
          IF p \in new .. new + kept - 1 THEN space[old + p - new]
          ELSE IF p \in new .. new + newlen - 1
               THEN [rights |-> space[old].rights, data |-> fill[p - new]]
          ELSE IF p \in old .. old + oldlen - 1 THEN NoPage ELSE space[p]]

Write(p) ==
  /\ "W" \in space[p].rights
  /\ space' = [space EXCEPT ![p].data = DIRTY]

Next ==
  \/ \E p \in AllPages : Write(p)
  \/ \E start, len \in 0 .. NP :
        /\ Within(start, len)
        /\ Unmap(start, len) \/ \E r \in Rights : Map(start, len, r) \/ Protect(start, len, r)
  \/ \E old, oldlen, new, newlen \in 0 .. NP :
        Within(old, oldlen) /\ Within(new, newlen) /\ Move(old, oldlen, new, newlen)

Spec == Init /\ [][Next]_space
=============================================================================
