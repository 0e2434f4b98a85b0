------------------------------ MODULE MCMemory ------------------------------
(***************************************************************************)
(* The guest's memory, model checked: the mapping calls with guest pages as *)
(* large as host pages (Mmap itself) and half as large (Halves), and the    *)
(* page flags they keep (PageMap).  The state of the three is disjoint: an  *)
(* initial state chooses the one that runs, and the others stay in their   *)
(* initial state.                                                         *)
(***************************************************************************)
EXTENDS Mmap, Sequences

VARIABLES
  runs,                                       \* the component that runs
  l1_map, pm_status,                          \* of Flags
  h_flags, h_k, h_last, h_ops                 \* of Halves

fvars == <<l1_map, pm_status>>
hvars == <<h_flags, h_k, h_last, h_ops>>
allvars == <<runs, fvars, vars, hvars>>

MCRights == {{"R"}, {"R", "W"}}

\* Three leaves of two pages of two bytes.
Flags == INSTANCE PageMap WITH
  TARGET_PAGE_SIZE <- 2, L1_SIZE <- 3, L2_SIZE <- 2,
  Prots <- {{"PAGE_READ"}, {"PAGE_READ", "PAGE_WRITE"}}, status <- pm_status

\* Two guest pages in a host page, whole host pages where the kernel has a choice.
Halves == INSTANCE Mmap WITH
  NP <- 4, HP <- 2, HostAligned <- TRUE,
  flags <- h_flags, k <- h_k, last <- h_last, ops <- h_ops

ASSUME MemoryAssumption == Flags!PageMapAssumption /\ Halves!MmapConstants

MCInit ==
  /\ runs \in {"Flags", "Equal", "Halves"}
  /\ Flags!Init /\ Init /\ Halves!Init

MCNext ==
  /\ UNCHANGED runs
  /\ \/ runs = "Flags" /\ Flags!Next /\ UNCHANGED <<vars, hvars>>
     \/ runs = "Equal" /\ Next /\ UNCHANGED <<fvars, hvars>>
     \/ runs = "Halves" /\ Halves!Next /\ UNCHANGED <<fvars, vars>>

MCSpec == MCInit /\ [][MCNext]_allvars

\* PageMap: flags are set on exactly the pages of a range, a range is accepted for
\* reading exactly if all its pages are readable, a string is measured to its end
\* or its first unreadable page, and walk_memory_regions reports each maximal run
\* of equal flags once and in order, if at the addresses that exec.c:721 computes;
\* no write check runs into page_unprotect's abort().  A range of all pages is the
\* exception that the rounding makes: it is accepted, and its flags are not set.
PageFlagsExact ==
  runs = "Flags" => /\ Flags!SetIsExact /\ Flags!ReadCheckIsExact /\ Flags!StrlenIsExact
                    /\ Flags!RegionsAreRuns /\ Flags!CheckNeverAborts

\* Mmap: what the flags promise the kernel grants, half pages included, and a call
\* leaves the contents of valid pages outside its range alone.
HalfPagesSafe ==
  /\ [](runs = "Halves" => Halves!RightsGranted)
  /\ Halves!OutsideKeepsContents
=============================================================================
