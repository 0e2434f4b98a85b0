------------------------------- MODULE TBMap -------------------------------
(***************************************************************************)
(* What the translation-block store promises to the translator and to the  *)
(* dispatcher: a partial map from guest program counters to translation    *)
(* blocks that only ever grows.  Hash chains, the per-CPU lookup cache and  *)
(* the allocation array of the code are absent; TBCache implements this.   *)
(***************************************************************************)
EXTENDS Naturals

CONSTANTS
  PCs,                  \* guest program counters
  Blocks                \* names a translation block can have; 0 is not one

NULL == 0               \* the NULL TranslationBlock pointer

VARIABLES
  map,                  \* pc -> its block, NULL while it has none
  asked,                \* the pc the last caller asked for
  found                 \* the block it got

vars == <<map, asked, found>>

Init ==
  \E entry \in PCs, b \in Blocks :
     /\ map = [pc \in PCs |-> IF pc = entry THEN b ELSE NULL]
     /\ asked = entry
     /\ found = b

\* A lookup answers with the block of pc and changes nothing.
Find(pc) ==
  /\ asked' = pc
  /\ found' = map[pc]
  /\ UNCHANGED map

\* A pc without a block gets a block that no other pc has.
Make(pc) ==
  /\ map[pc] = NULL
  /\ asked' = pc
  /\ \E b \in Blocks :
        /\ \A q \in PCs : map[q] # b
        /\ map' = [map EXCEPT ![pc] = b]
        /\ found' = b

Next == \E pc \in PCs : Find(pc) \/ Make(pc)

Spec == Init /\ [][Next]_vars
=============================================================================
