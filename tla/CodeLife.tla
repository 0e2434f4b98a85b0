------------------------------ MODULE CodeLife ------------------------------
(***************************************************************************)
(* Translated blocks and the guest memory they were translated from: the    *)
(* block store of TBCache together with the page flags that target_mmap,    *)
(* target_munmap and target_mprotect set (exec.c: page_set_flags), while    *)
(* the guest maps, unmaps and overwrites pages that hold code.              *)
(*                                                                         *)
(* The bytes of a page are a version number, raised by every change.  A     *)
(* block lies in the page of its pc.                                       *)
(***************************************************************************)
EXTENDS TBCache

CONSTANTS
  PageOf,         \* pc -> page
  Falls,          \* pc -> pc of the code behind it, or 0
  MaxVersion      \* bound: changes of one page

ASSUME CodeLifeAssumption ==
  /\ DOMAIN PageOf = PCs
  /\ Falls \in [PCs -> PCs \cup {0}]
  /\ MaxVersion \in Nat \ {0}

VARIABLES
  flags,      \* page -> subset of {"VALID", "WRITE"}
  first_tb,   \* page -> head of the list of its blocks
  bytes,      \* page -> version
  made_from,  \* block -> version it was translated from, or NOT_TRANS_YET
  ahead       \* where the translation under way goes on, or NULL

mem == <<flags, first_tb, bytes>>
lifevars == <<vars, mem, made_from, ahead>>

Pages == {PageOf[pc] : pc \in PCs}
NOT_TRANS_YET == 0
Now(pc) == bytes[PageOf[pc]]
HasCode(pc) == \E t \in DOMAIN made_from : tbs[t].pc = pc /\ made_from[t] # NOT_TRANS_YET

(***************************************************************************)
(* Blocks                                                                  *)
(***************************************************************************)

\* The calls of tb_alloc_page in tb_link_page are compiled out.
FileUnderPage(tb, pc) == UNCHANGED first_tb

NewBlock(pc, version) ==
  /\ FindOrMakeTB(pc, pc)
  /\ \/ /\ status' = "running"
        /\ made_from' = Append(made_from, version)
        /\ FileUnderPage(Len(tbs'), pc)
     \/ /\ status' = "aborted"
        /\ UNCHANGED <<made_from, first_tb>>
  /\ UNCHANGED <<flags, bytes>>

\* lazy_patch, when a translation is complete, makes the blocks of the targets of
\* the jumps in it, to be translated when they are first reached.
AnnounceTarget(pc) == ahead = NULL /\ NewBlock(pc, NOT_TRANS_YET) /\ UNCHANGED ahead

\* The code of pc ends the translation, or goes on behind a call or a branch.
GoesOn(pc) == ahead' \in {NULL, Falls[pc]}

\* The block of pc is made, or found and not yet translated.  Reading code from a
\* page that is not mapped is a fault of the translator's, and the handler of the host's
\* signal aborts (cpu_signal_handler).
Translate(pc) ==
  \/ /\ "VALID" \in flags[PageOf[pc]]
     /\ \/ NewBlock(pc, Now(pc))
        \/ /\ FindTB(pc)
           /\ found' # NULL /\ made_from[found'] = NOT_TRANS_YET
           /\ made_from' = [made_from EXCEPT ![found'] = Now(pc)]
           /\ UNCHANGED mem
     /\ GoesOn(pc)
  \/ /\ "VALID" \notin flags[PageOf[pc]]
     /\ ~ HasCode(pc)
     /\ status' = "aborted"
     /\ UNCHANGED <<tbs, tb_phys_hash, tb_jmp_cache, code_size, asked, found, mem, made_from, ahead>>

FindTranslated(pc) ==
  /\ FindTB(pc)
  /\ found' # NULL /\ made_from[found'] # NOT_TRANS_YET
  /\ ahead' = NULL
  /\ UNCHANGED <<mem, made_from>>

\* On the way to running pc.
get_next_tb(pc) ==
  /\ status = "running" /\ ahead = NULL
  /\ Translate(pc) \/ FindTranslated(pc)

\* The translation reaches the next block: a translated one is jumped to, any
\* other is translated in place.
trans_next ==
  /\ status = "running" /\ ahead # NULL
  /\ Translate(ahead) \/ FindTranslated(ahead)

(***************************************************************************)
(* Memory                                                                  *)
(***************************************************************************)

\* The condition of page_set_flags: a page that gets writable has blocks.
InvalidatesCode(p, new) == "WRITE" \notin flags[p] /\ "WRITE" \in new /\ first_tb[p] # NULL

\* tb_invalidate_phys_page is abort().
page_set_flags(p, new) ==
  /\ status = "running" /\ ahead = NULL
  /\ IF InvalidatesCode(p, new)
     THEN status' = "aborted" /\ UNCHANGED flags
     ELSE flags' = [flags EXCEPT ![p] = new] /\ UNCHANGED status
  /\ UNCHANGED <<tbs, tb_phys_hash, tb_jmp_cache, code_size, asked, found, made_from, first_tb, ahead>>

NewBytes(p) == bytes[p] < MaxVersion /\ bytes' = [bytes EXCEPT ![p] = @ + 1]

RightsToWrite == {{"VALID"}, {"VALID", "WRITE"}}

target_mmap(p) == NewBytes(p) /\ \E new \in RightsToWrite : page_set_flags(p, new)
target_mprotect(p) ==
  "VALID" \in flags[p] /\ UNCHANGED bytes /\ \E new \in RightsToWrite : page_set_flags(p, new)
target_munmap(p) == UNCHANGED bytes /\ page_set_flags(p, {})

\* Translated guest code stores without a look at the flags.
GuestStore(p) ==
  /\ status = "running" /\ ahead = NULL
  /\ "WRITE" \in flags[p]
  /\ NewBytes(p)
  /\ UNCHANGED <<vars, flags, first_tb, made_from, ahead>>

(***************************************************************************)
(* Specification                                                           *)
(***************************************************************************)

\* codecache_prologue_init has made the block of the entry point.
LifeInit ==
  /\ Init
  /\ flags = [p \in Pages |-> IF p = PageOf[EntryPC] THEN {"VALID"} ELSE {}]
  /\ first_tb = [p \in Pages |-> NULL]
  /\ bytes = [p \in Pages |-> 1]
  /\ made_from = <<NOT_TRANS_YET>>
  /\ ahead = NULL

LifeNext ==
  \/ \E pc \in PCs : AnnounceTarget(pc) \/ get_next_tb(pc)
  \/ trans_next
  \/ \E p \in Pages : target_mmap(p) \/ target_mprotect(p) \/ target_munmap(p) \/ GuestStore(p)

LifeSpec == LifeInit /\ [][LifeNext]_lifevars

(***************************************************************************)
(* Properties                                                              *)
(***************************************************************************)

\* What get_next_tb hands out for a page that the guest can write is a translation of
\* the bytes that are there now: "Modify the flags of a page and invalidate the code if
\* necessary" (exec.c:814), "If the write protection bit is set, then we invalidate the
\* code inside" (exec.c:840).  No page knows its blocks, so nothing is ever invalidated,
\* and the code does not keep this.
RunsCurrentCode ==
  [][\A pc \in PCs :
       get_next_tb(pc) /\ status' = "running" /\ "WRITE" \in flags[PageOf[pc]] =>
         made_from'[found'] = Now(pc)]_lifevars
=============================================================================
