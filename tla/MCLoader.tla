------------------------------ MODULE MCLoader ------------------------------
(***************************************************************************)
(* A program's image, model checked from its start to its end: the strings    *)
(* and tables on the stack of a program that starts (ElfStack), its segments  *)
(* and those of its interpreter (ElfLoad), the heap that brk puts behind them *)
(* and the shared memory it attaches (SysMem), and the core file of one that  *)
(* dies (ElfCore).  The state of the four is disjoint: an initial state       *)
(* chooses the one that runs, and the others stay in an initial state of     *)
(* their own.                                                              *)
(***************************************************************************)
EXTENDS SysMem, Sequences

VARIABLES
  runs,                                                          \* the component that runs
  line, s_pc, todo, cur, len, offset, pag, p, page, s_mem, words, s_info,   \* of Start
  prog, pc, i, mem, prot, fds, bprm, ld, it, info, ret,          \* of Load
  in, at, w, file, pos, errno, full, cut, slip, c_pc, c_ret            \* of Core

svars == <<line, s_pc, todo, cur, len, offset, pag, p, page, s_mem, words, s_info>>
lvars == <<prog, pc, i, mem, prot, fds, bprm, ld, it, info, ret>>
cvars == <<in, at, w, file, pos, errno, full, cut, slip, c_pc, c_ret>>
allvars == <<runs, vars, svars, lvars, cvars>>

-----------------------------------------------------------------------------
(* Command lines whose strings end around the borders of pages of 32 bytes.  *)

SeqsTo(k, S) == UNION {[1 .. j -> S] : j \in 0 .. k}

Lines == [file : {1, 3, 28, 31}, argv : SeqsTo(2, {0, 1, 30, 31, 32, 33, 64}),
          envp : SeqsTo(1, {0, 1, 31, 60}), aout : BOOLEAN]
ShortLine == [file |-> 1, argv |-> <<>>, envp |-> <<>>, aout |-> FALSE]

Start == INSTANCE ElfStack WITH
  PageSize <- 32, MAX_ARG_PAGES <- 5, GuestStackSize <- 352, StackAt <- 640,
  PlatformLen <- 4, ArchItems <- 0, pc <- s_pc, mem <- s_mem, info <- s_info

-----------------------------------------------------------------------------
(* Programs of one or two segments in pages of 4 bytes, with or without an     *)
(* interpreter, and every way of failing.  Text is in the file's first bytes;  *)
(* data where the file continues, a page further on in memory, with a bss.     *)

Seg(v, o, f, m, fl) ==
  [type |-> "LOAD", vaddr |-> v, offset |-> o, filesz |-> f, memsz |-> m, flags |-> fl]
InterpSeg == [type |-> "INTERP", vaddr |-> 0, offset |-> 0, filesz |-> 0, memsz |-> 0, flags |-> {}]
Other == [InterpSeg EXCEPT !.type = "OTHER"]
Text(base, f) == Seg(base, 0, f, f, {"R", "X"})
Data(base, o, f, b) == Seg(base + 8 + (o % 4), o, f, f + b, {"R", "W"})

Images(base) ==
  {<<Text(base, f)>> : f \in {1, 4, 5}}
    \cup {<<Text(base, f), Data(base, o, g, b)>> :
            f \in {3, 4}, o \in {4, 5}, g \in {0, 1, 3, 4}, b \in {0, 1, 4, 8}}

NoInterp == [kind |-> "none"]
Interp(t, entry, phdrs) == [kind |-> "elf", etype |-> t, arch |-> TRUE, entry |-> entry, phdrs |-> phdrs]
Interps ==
  {Interp("DYN", 1, ph) :
     ph \in {<<Text(0, 3)>>, <<Text(0, 4), Other, Data(0, 5, 3, 5)>>,
             <<Text(0, 4), Data(0, 4, 4, 4)>>, <<Seg(0, 0, 3, 6, {"R", "W", "X"})>>}}
    \cup {Interp("EXEC", 29, <<Text(28, 3)>>)}
BadInterps ==
  {[kind |-> k] : k \in {"aout", "junk", "missing"}}
    \cup {Interp("REL", 0, <<>>), [Interp("DYN", 0, <<>>) EXCEPT !.arch = FALSE]}

Program(t, ph, in_, fits) ==
  [file |-> "elf", etype |-> t, arch |-> TRUE, fits |-> fits, phoff |-> 0,
   entry |-> ph[CHOOSE k \in 1 .. Len(ph) :
                  ph[k].type = "LOAD" /\ \A j \in 1 .. k - 1 : ph[j].type # "LOAD"].vaddr,
   phdrs |-> ph, interp |-> in_]

Bases == {[t |-> "EXEC", b |-> 4], [t |-> "DYN", b |-> 0], [t |-> "DYN", b |-> 4]}
SmallProgram == Program("EXEC", <<Text(4, 4)>>, NoInterp, TRUE)

Good ==
  UNION {{Program(x.t, ph, NoInterp, TRUE) : ph \in Images(x.b)} : x \in Bases}
    \cup UNION {{Program(x.t, <<InterpSeg>> \o ph, n, TRUE) : ph \in Images(x.b), n \in Interps} :
                  x \in Bases}
Bad ==
  {Program("EXEC", <<InterpSeg, Text(4, 4)>>, n, TRUE) : n \in BadInterps}
    \cup {Program("EXEC", <<InterpSeg, InterpSeg, Text(4, 4)>>, Interp("DYN", 1, <<Text(0, 3)>>), TRUE),
          [SmallProgram EXCEPT !.fits = FALSE], [SmallProgram EXCEPT !.arch = FALSE]}
    \cup {[SmallProgram EXCEPT !.file = k] : k \in {"missing", "notexec", "other"}}

Load == INSTANCE ElfLoad WITH
  P <- 4, Pages <- 22, MmapBase <- 8, StackPages <- 2, DynPages <- 6, InterpPages <- 5,
  FileLen <- 14, Programs <- Good \cup Bad

-----------------------------------------------------------------------------
(* Processes of up to three regions, threads, every kind of fault and every    *)
(* limit of the core file; and regions that walk_memory_regions got wrong.     *)

Region(start, n, fl, elf) == [start |-> start, end |-> start + 8 * n, flags |-> fl, elf |-> elf, bad |-> {}]
Maps == {<<>>,
         <<Region(16, 1, RW, FALSE)>>,
         <<Region(0, 1, {"R", "X"}, TRUE), Region(16, 2, RW, FALSE)>>,
         <<Region(0, 1, RW, FALSE), [Region(16, 1, {}, FALSE) EXCEPT !.bad = {0}], Region(32, 1, {"R", "X"}, FALSE)>>}
WrongMaps == {<<[Region(0, 2, RW, FALSE) EXCEPT !.bad = {0}], Region(24, 1, RW, FALSE)>>,
              <<[Region(0, 2, RW, FALSE) EXCEPT !.bad = {1}], Region(24, 1, RW, FALSE)>>,
              <<[Region(16, 1, RW, FALSE) EXCEPT !.end = 8], Region(24, 1, RW, FALSE)>>}

Unlimited == -1
Case(r, t, l, f, g) ==
  [regions |-> r, threads |-> t, limit |-> l, fault |-> f, target |-> g,
   prstatus |-> 3, psinfo |-> 4, auxv |-> 5]
NoRegions == Case(<<>>, 0, Unlimited, "none", "i386")

Core == INSTANCE ElfCore WITH
  P <- 8, Space <- 64, EXEC_PAGESIZE <- 8, EhdrSize <- 3, PhdrSize <- 2, NoteHdrSize <- 2,
  Faults <- [none |-> {}, short |-> {"short", "eintr"}, eintr |-> {"eintr"}, full |-> {"full"},
             once |-> {"once"}],
  Cases <- {Case(r, t, Unlimited, f, "i386") : r \in Maps, t \in 0 .. 2,
                                                 f \in {"none", "eintr", "full", "once"}}
    \cup {Case(r, 0, Unlimited, "none", "i386") : r \in WrongMaps}
    \cup {Case(r, 1, l, "none", "i386") : r \in Maps, l \in 0 .. 120}
    \cup {[NoRegions EXCEPT !.target = g] :
            g \in {"i386", "x86_64", "arm", "ppc", "mips", "microblaze", "m68k"}}
    \cup {Case(<<Region(16, 1, {"R", "W"}, FALSE)>>, 0, Unlimited, "short", "i386")},
  pc <- c_pc, ret <- c_ret

-----------------------------------------------------------------------------
(* brk and shared memory: a segment of one page and one of two, and fewer      *)
(* calls of a guest that is not careful.                                       *)

MCSegments == [small |-> 1, large |-> 2]
MCCalls == [c \in BOOLEAN |-> IF c THEN 5 ELSE 3]

-----------------------------------------------------------------------------

ASSUME LoaderAssumption == Start!SizesAssumption

MCInit ==
  /\ runs \in {"Start", "Load", "Core", "Sys"}
  /\ runs # "Start" => line = ShortLine
  /\ runs # "Load" => prog = SmallProgram
  /\ runs # "Core" => in = NoRegions
  /\ runs # "Sys" => careful = TRUE
  /\ Start!Init /\ Load!Init /\ Core!Init /\ Init

\* A guest need not make another call.
MCNext ==
  /\ UNCHANGED runs
  /\ \/ runs = "Start" /\ Start!Next /\ UNCHANGED <<lvars, cvars, vars>>
     \/ runs = "Load" /\ Load!Next /\ UNCHANGED <<svars, cvars, vars>>
     \/ runs = "Core" /\ Core!Next /\ UNCHANGED <<svars, lvars, vars>>
     \/ runs = "Sys" /\ [Next]_vars /\ UNCHANGED <<svars, lvars, cvars>>

MCSpec == MCInit /\ [][MCNext]_allvars

\* A program that starts finds its arguments, its environment and its auxiliary
\* vector, none of them overwritten, and only one that does not fit is refused.
StackIsReadable ==
  runs = "Start" => /\ Start!CommandLineReadable /\ Start!AuxvFollowsEnvironment
                    /\ Start!TablesBelowStrings /\ Start!RefusedOnlyWhenTooBig

\* A program that starts has its own and its interpreter's segments in memory, its
\* bss zero, its stack whole, its entry in code, and no file left open.
ImageIsLoaded ==
  runs = "Load" => /\ Load!ProgramLoaded /\ Load!InterpreterLoaded /\ Load!BssIsZero
                   /\ Load!StackSurvives /\ Load!EntryIsCode /\ Load!HeadersFound
                   /\ Load!FilesClosed

=============================================================================
