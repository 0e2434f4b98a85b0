------------------------------ MODULE ElfStack ------------------------------
(***************************************************************************)
(* The initial stack of a guest program: loader_exec and load_elf_binary   *)
(* copy the strings of the command line, backwards, into pages of their    *)
(* own (copy_elf_strings, once for the file name, once for the             *)
(* environment and once for the arguments); setup_arg_pages maps the stack *)
(* and moves those pages to its top; create_elf_tables and                 *)
(* loader_build_argptr put the auxiliary vector and the pointer tables     *)
(* below them.                                                             *)
(*                                                                         *)
(* A string is its length; its bytes are made distinct, so that a byte in  *)
(* memory tells which string it came from and which place in it.           *)
(***************************************************************************)
EXTENDS Integers, Sequences, TLC

CONSTANTS PageSize,        \* TARGET_PAGE_SIZE
          MAX_ARG_PAGES,
          GuestStackSize,  \* guest_stack_size
          StackAt,         \* where target_mmap finds room
          PlatformLen,     \* strlen of ELF_PLATFORM, 0 when it is NULL
          ArchItems,       \* DLINFO_ARCH_ITEMS, with as many entries
          Lines            \* command lines: [file, argv, envp, aout]

\* What the constants must be.
SizesAssumption == /\ PageSize \in Nat \ {0} /\ PageSize % 16 = 0
                          /\ MAX_ARG_PAGES \in Nat \ {0} /\ StackAt % PageSize = 0

VARIABLES line,    \* the command line
          pc,      \* what is being done
          todo,    \* strings this call of copy_elf_strings has still to copy
          cur,     \* the string being copied
          len,     \* bytes of it left
          offset,  \* place in the current page
          pag,     \* the current page
          p,       \* bprm->p
          page,    \* bprm->page: the pages allocated so far
          mem,     \* bytes of the mapped stack
          words,   \* words put into guest memory by the tables
          info     \* image_info: stack_limit, start_stack, arg_start, ...

vars == <<line, pc, todo, cur, len, offset, pag, p, page, mem, words, info>>

-----------------------------------------------------------------------------
(* Strings. *)

n == 4
AT_NULL == 0
NUL == 0
NoPage == -1

\* The strings of the command line, in the order of their addresses.
All(l) == l.argv \o l.envp \o <<l.file>>

\* Byte i of string k, counted from 1; the last one is the terminator.
Byte(l, k, i) == IF i = All(l)[k] + 1 THEN NUL ELSE (1000 * k) + i

Smaller(a, b) == IF a < b THEN a ELSE b
Larger(a, b) == IF a > b THEN a ELSE b

RoundUp(x, m) == ((x + m - 1) \div m) * m

-----------------------------------------------------------------------------
(* loader_exec and copy_elf_strings. *)

bprm_p == PageSize * MAX_ARG_PAGES - 4

Init ==
  /\ line \in Lines
  /\ pc = "file"
  /\ todo = <<Len(All(line))>>
  /\ cur = 0 /\ len = 0 /\ offset = 0 /\ pag = NoPage
  /\ p = bprm_p
  /\ page = <<>>
  /\ mem = <<>> /\ words = <<>>
  /\ info = [stack_limit |-> 0, start_stack |-> 0, saved_auxv |-> 0, arg_start |-> 0, arg_end |-> 0]

Copying == pc \in {"file", "envp", "argv"}

\* The next string, the last one first; with no room left the call returns 0.
StartString ==
  /\ Copying /\ len = 0 /\ todo # <<>> /\ p # 0
  /\ cur' = todo[Len(todo)]
  /\ todo' = IF p < All(line)[cur'] + 1 THEN <<>> ELSE SubSeq(todo, 1, Len(todo) - 1)
  /\ IF p < All(line)[cur'] + 1
       THEN p' = 0 /\ len' = 0
       ELSE len' = All(line)[cur'] + 1 /\ UNCHANGED p
  /\ UNCHANGED <<line, pc, offset, pag, page, mem, words, info>>

ZeroPage == [i \in 0..PageSize - 1 |-> NUL]

\* How many bytes beyond one the iteration copies: to the start of the string or
\* of the page.
RunLength(left, off) ==
  IF left = 0 \/ off = 0 THEN 0 ELSE Smaller(left, off)

\* Mutant: a page that is there already is allocated again.
PageFor_fresh(pgs, k) == ZeroPage

\* The page a byte goes to, allocated and cleared the first time.
PageFor(pgs, k) == IF k \in DOMAIN pgs THEN pgs[k] ELSE ZeroPage

\* One turn of the loop of copy_elf_strings: a byte, or the run before it.
CopyRun ==
  /\ Copying /\ len > 0
  /\ LET p1   == p - 1
         len1 == len - 1
         new  == offset - 1 < 0
         off1 == IF new THEN p1 % PageSize ELSE offset - 1
         k    == IF new THEN p1 \div PageSize ELSE pag
         run  == RunLength(len1, off1)
         old  == IF new THEN PageFor(page, k) ELSE page[k]
     IN /\ pag' = k
        /\ p' = p1 - run /\ len' = len1 - run /\ offset' = off1 - run
        /\ page' = [x \in DOMAIN page \cup {k} |->
              IF x # k THEN page[x]
              ELSE [o \in 0..PageSize - 1 |->
                      IF o \in (off1 - run)..off1
                        THEN Byte(line, cur, (len1 - run) + (o - (off1 - run)) + 1)
                        ELSE old[o]]]
  /\ UNCHANGED <<line, pc, todo, cur, mem, words, info>>

Indices(from, s) == [i \in 1..Len(s) |-> from + i]

\* The call returns; every call begins with offset 0 and no page.
NextCall ==
  /\ Copying /\ len = 0 /\ (todo = <<>> \/ p = 0)
  /\ offset' = 0 /\ pag' = NoPage
  /\ CASE pc = "file" -> pc' = "envp" /\ todo' = Indices(Len(line.argv), line.envp)
       [] pc = "envp" -> pc' = "argv" /\ todo' = Indices(0, line.argv)
       [] pc = "argv" -> /\ pc' = IF p = 0 THEN "e2big" ELSE "setup"
                         /\ todo' = <<>>
  /\ UNCHANGED <<line, cur, len, p, page, mem, words, info>>

-----------------------------------------------------------------------------
(* setup_arg_pages. *)

StackSize == Larger(GuestStackSize, MAX_ARG_PAGES * PageSize)

stack_base == StackAt + StackSize - MAX_ARG_PAGES * PageSize

\* The stack is mapped with a guard above it and the pages move to its top; the
\* pages themselves are freed.
setup_arg_pages ==
  /\ pc = "setup"
  /\ mem' = [a \in StackAt..(StackAt + StackSize - 1) |->
               LET o == a - stack_base IN
               IF o >= 0 /\ (o \div PageSize) \in DOMAIN page
                 THEN page[o \div PageSize][o % PageSize] ELSE NUL]
  /\ info' = [info EXCEPT !.stack_limit = StackAt]
  /\ p' = p + stack_base
  /\ page' = <<>>
  /\ pc' = "tables"
  /\ UNCHANGED <<line, todo, cur, len, offset, pag, words>>

-----------------------------------------------------------------------------
(* create_elf_tables and loader_build_argptr. *)

DLINFO_ITEMS == 12

\* Types of the entries, in the order they are pushed; the values do not matter
\* here and are told apart by their type.
AuxTypes ==
  <<AT_NULL, 3, 4, 5, 6, 7, 8, 9, 11, 12, 13, 14, 16, 17>>
    \o (IF PlatformLen > 0 THEN <<15>> ELSE <<>>)
    \o [i \in 1..ArchItems |-> 18 + i]

AuxValue(type) == IF type = AT_NULL THEN 0 ELSE 100 + type

\* The words that NEW_AUX_ENT pushes below address a.
AuxWords(a) ==
  [x \in {a - n * i : i \in 1..2 * Len(AuxTypes)} |->
     LET i == (a - x) \div n IN
     IF i % 2 = 1 THEN AuxValue(AuxTypes[(i + 1) \div 2]) ELSE AuxTypes[i \div 2]]

\* Where the entries begin: below the platform string, on a boundary of 16, less
\* what the tables are thought to leave over.
TableTop(at, argc, envc, ibcs) ==
  LET sp1  == IF PlatformLen > 0 THEN at - RoundUp(PlatformLen + 1, n) ELSE at
      sp2  == sp1 - (sp1 % 16)
      size == ((DLINFO_ITEMS + 1) * 2 + (IF PlatformLen > 0 THEN 2 ELSE 0)
               + ArchItems * 2 + envc + argc + 2 + (IF ibcs THEN 1 ELSE 3)) * n
  IN IF size % 16 # 0 THEN sp2 - (16 - (size % 16)) ELSE sp2

target_strlen(m, a) ==
  CHOOSE l \in 0..MAX_ARG_PAGES * PageSize :
     m[a + l] = NUL /\ \A k \in 0..l - 1 : m[a + k] # NUL

\* Addresses of the cnt strings that begin at a, and the one after them.
StringsFrom(m, a, cnt) ==
  LET at[i \in 0..cnt] == IF i = 0 THEN a ELSE at[i - 1] + target_strlen(m, at[i - 1]) + 1
  IN at

ArgvBelow(envp, argc) == envp - (argc + 1) * n

\* The pointers to the arguments and to the environment, argc below them.
loader_build_argptr(m, envc, argc, sp, stringp, push_ptr) ==
  LET envp == sp - (envc + 1) * n
      argv == ArgvBelow(envp, argc)
      ptrs == IF push_ptr THEN (argv - n :> envp) @@ (argv - 2 * n :> argv) ELSE <<>>
      bot  == argv - (IF push_ptr THEN 3 ELSE 1) * n
      str  == StringsFrom(m, stringp, argc + envc)
  IN [sp |-> bot, arg_start |-> stringp, arg_end |-> str[argc],
      words |-> ptrs @@ (bot :> argc) @@ (argv + argc * n :> 0) @@ (envp + envc * n :> 0)
                @@ [x \in {argv + i * n : i \in 0..argc - 1} |-> str[(x - argv) \div n]]
                @@ [x \in {envp + i * n : i \in 0..envc - 1} |-> str[argc + ((x - envp) \div n)]]]

create_elf_tables ==
  /\ pc = "tables"
  /\ LET argc == Len(line.argv)
         envc == Len(line.envp)
         ibcs == ~line.aout
         top  == TableTop(p, argc, envc, ibcs)
         aux  == top - 2 * n * Len(AuxTypes)
         built == loader_build_argptr(mem, envc, argc, aux, p, ~ibcs)
     IN /\ words' = AuxWords(top) @@ built.words
        /\ info' = [info EXCEPT !.saved_auxv = aux, !.arg_start = built.arg_start,
                                !.arg_end = built.arg_end, !.start_stack = built.sp]
  /\ pc' = "done"
  /\ UNCHANGED <<line, todo, cur, len, offset, pag, p, page, mem>>

Finished == pc \in {"done", "e2big"} /\ UNCHANGED vars

Next == StartString \/ CopyRun \/ NextCall \/ setup_arg_pages \/ create_elf_tables \/ Finished

Spec == Init /\ [][Next]_vars

-----------------------------------------------------------------------------
(* Properties. *)

TypeOK ==
  /\ line \in Lines
  /\ pc \in {"file", "envp", "argv", "setup", "tables", "done", "e2big"}
  /\ p \in Nat /\ len \in Nat /\ offset \in 0..PageSize - 1
  /\ DOMAIN page \subseteq 0..MAX_ARG_PAGES - 1
  /\ DOMAIN words \subseteq Nat

\* Memory at address a holds string k of the command line, whole.
Holds(a, k) == \A i \in 1..All(line)[k] + 1 : mem[a + i - 1] = Byte(line, k, i)

\* Where the guest finds its tables: argc at the stack pointer, then the
\* arguments, then the environment (an a.out program finds two pointers first).
GuestArgv == info.start_stack + n * (IF line.aout THEN 3 ELSE 1)
GuestEnvp == GuestArgv + n * (Len(line.argv) + 1)

\* A program that starts reads its command line: argc, a pointer to each
\* argument and each variable in order, each pointing at that string, and a null
\* pointer after each table (copy_elf_strings, loader_build_argptr).
CommandLineReadable ==
  pc = "done" =>
    /\ words[info.start_stack] = Len(line.argv)
    /\ \A i \in 1..Len(line.argv) : Holds(words[GuestArgv + n * (i - 1)], i)
    /\ words[GuestArgv + n * Len(line.argv)] = 0
    /\ \A i \in 1..Len(line.envp) : Holds(words[GuestEnvp + n * (i - 1)], Len(line.argv) + i)
    /\ words[GuestEnvp + n * Len(line.envp)] = 0
    /\ line.aout => /\ words[info.start_stack + n] = GuestArgv
                    /\ words[info.start_stack + 2 * n] = GuestEnvp

\* The auxiliary vector begins right after the environment's null pointer, where
\* the guest's C library looks for it, and ends with AT_NULL; the arguments lie
\* in [arg_start, arg_end), which the core dump reads (create_elf_tables,
\* fill_psinfo).
AuxvFollowsEnvironment ==
  pc = "done" =>
    /\ info.saved_auxv = GuestEnvp + n * (Len(line.envp) + 1)
    /\ words[info.saved_auxv + 2 * n * (Len(AuxTypes) - 1)] = AT_NULL
    /\ \A i \in 0..Len(AuxTypes) - 2 : words[info.saved_auxv + 2 * n * i] # AT_NULL
    /\ \A i \in 1..Len(line.argv) :
         LET a == words[GuestArgv + n * (i - 1)]
         IN info.arg_start <= a /\ a + line.argv[i] < info.arg_end
    /\ \A i \in 1..Len(line.envp) : words[GuestEnvp + n * (i - 1)] >= info.arg_end

\* The tables stay between the bottom of the stack and the strings they point
\* to (the strings and the platform's name are never overwritten).
TablesBelowStrings ==
  pc = "done" =>
    \A a \in DOMAIN words : /\ info.stack_limit <= a
                            /\ a + n <= p - (IF PlatformLen > 0 THEN PlatformLen + 1 ELSE 0)

\* A command line is refused exactly when it does not fit below the four bytes
\* kept at the top of the argument pages (copy_elf_strings returns 0).
TotalSize(l) ==
  LET sum[i \in 0..Len(All(l))] == IF i = 0 THEN 0 ELSE sum[i - 1] + All(l)[i] + 1
  IN sum[Len(All(l))]

RefusedOnlyWhenTooBig ==
  /\ pc = "e2big" => TotalSize(line) >= PageSize * MAX_ARG_PAGES - 4
  /\ pc \in {"setup", "done"} => TotalSize(line) < PageSize * MAX_ARG_PAGES - 4

\* The final stack pointer is on a boundary of 16, as the comment at
\* create_elf_tables has it.
StackAligned == pc = "done" => info.start_stack % 16 = 0
=============================================================================
