------------------------------ MODULE ElfLoad -------------------------------
(***************************************************************************)
(* Loading an ELF program: loader_exec and load_elf_binary, which read the *)
(* headers, map the stack, map every PT_LOAD segment, load the interpreter *)
(* (load_elf_interp) and only then map and clear the program's bss.        *)
(*                                                                         *)
(* Memory is a function from small addresses to contents: a byte of the    *)
(* program's file, of the interpreter's file, zero, the stack, or nothing. *)
(* target_mmap appears by its contract (module Mmap models it).  The host  *)
(* page and the guest page have the same size, as on the supported host.   *)
(***************************************************************************)
EXTENDS Integers, Sequences

CONSTANTS P,          \* TARGET_PAGE_SIZE
          Pages,      \* pages in the address space
          MmapBase,   \* first page target_mmap hands out
          StackPages, \* pages of the stack
          DynPages,   \* ET_DYN_MAP_SIZE in pages
          InterpPages,\* INTERP_MAP_SIZE in pages
          FileLen,    \* bytes in either file
          Programs    \* what may be started

VARIABLES prog, pc, i, mem, prot, fds, bprm, ld, it, info, ret

vars == <<prog, pc, i, mem, prot, fds, bprm, ld, it, info, ret>>

-----------------------------------------------------------------------------
(* Memory. *)

Addr == 0..P * Pages - 1
PageNo == 0..Pages - 1

None  == -1     \* nothing is mapped there
Zero  == 0
Stack == 1
Main(o)   == 1000 + o     \* byte o of the program's file
Interp(o) == 2000 + o     \* byte o of the interpreter's file

PAGESTART(a) == a - (a % P)
PAGEOFFSET(a) == a % P
PageAlign(a) == PAGESTART(a + P - 1)

Larger(a, b) == IF a > b THEN a ELSE b
Smaller(a, b) == IF a < b THEN a ELSE b

\* target_mmap without an address: the first run of n free pages, which is what the kernel
\* gives as long as the address that mmap_find_vma asks for, the end of the last mapping, is free.
FreeRun(pr, n) ==
  LET at == {k \in MmapBase..Pages - n : \A j \in k..k + n - 1 : pr[j] = {}}
  IN IF at = {} THEN -1 ELSE P * (CHOOSE k \in at : \A j \in at : k <= j)

\* Page k is one that a mapping of len bytes at the page start a covers.
Covers(a, len, k) == a <= k * P /\ k * P < a + len

\* target_mmap at a fixed place, with contents c of each address.
MapMem(m, a, len, c) == [x \in Addr |-> IF Covers(a, len, x \div P) THEN c[x] ELSE m[x]]
MapProt(pr, a, len, rights) == [k \in PageNo |-> IF Covers(a, len, k) THEN rights \cup {"valid"} ELSE pr[k]]

\* What a private mapping shows at place o of a file whose byte there is byte:
\* beyond the end of the file zeros.
FileByte(o, byte) == IF o \in 0..FileLen - 1 THEN byte ELSE Zero
NoContents == [x \in Addr |-> Zero]

RW == {"R", "W"}
RWX == {"R", "W", "X"}

-----------------------------------------------------------------------------
(* loader_exec: the file and its format. *)

Init ==
  /\ prog \in Programs
  /\ pc = "open" /\ i = 1
  /\ mem = [a \in Addr |-> None]
  /\ prot = [k \in PageNo |-> {}]
  /\ fds = {}
  /\ bprm = [held |-> FALSE, interp |-> "none", nin |-> 0]
  /\ ld = [set |-> FALSE, bias |-> 0, addr |-> 0, bss |-> 0, brk |-> 0,
           start_code |-> P * Pages, end_code |-> 0, start_data |-> 0, end_data |-> 0]
  /\ it = [addr |-> 0, bss |-> 0, last |-> 0]
  /\ info = [entry |-> 0, brk |-> 0, load_addr |-> 0, phdr |-> 0, stack |-> 0]
  /\ ret = 0

\* A return with an error: loader_exec frees the argument pages it still holds.
Fail(code) == pc' = "failed" /\ ret' = code /\ bprm' = [bprm EXCEPT !.held = FALSE]

\* open, fstat and the first bytes (prepare_binprm): a regular file that somebody
\* may execute.
OpenProgram ==
  /\ pc = "open"
  /\ \/ prog.file = "missing" /\ Fail(-2) /\ UNCHANGED fds
     \/ prog.file = "notexec" /\ Fail(-13) /\ fds' = {"prog"}
     \/ prog.file = "other" /\ Fail(-1) /\ fds' = {"prog"}
     \/ /\ prog.file = "elf"
        /\ fds' = {"prog"} /\ pc' = "header"
        /\ UNCHANGED <<bprm, ret>>
  /\ UNCHANGED <<prog, i, mem, prot, ld, it, info>>

TypeArch(h) == h.etype \in {"EXEC", "DYN"} /\ h.arch

\* Type and machine; then the strings are copied (module ElfStack).
CheckHeader ==
  /\ pc = "header"
  /\ \/ ~TypeArch(prog) /\ Fail(-8)
     \/ /\ TypeArch(prog)
        /\ pc' = "scan" /\ bprm' = [bprm EXCEPT !.held = TRUE]
        /\ UNCHANGED ret
  /\ UNCHANGED <<prog, i, mem, prot, fds, ld, it, info>>

-----------------------------------------------------------------------------
(* The interpreter's name and kind. *)

\* One turn of the loop that looks for PT_INTERP: its file is opened and its
\* first bytes read; a second one is an error.
ScanPhdr ==
  /\ pc = "scan" /\ i <= Len(prog.phdrs)
  /\ IF prog.phdrs[i].type # "INTERP"
       THEN i' = i + 1 /\ UNCHANGED <<pc, fds, bprm, ret>>
     ELSE IF bprm.interp # "none"
       THEN Fail(-22) /\ fds' = fds \ {"prog"} /\ UNCHANGED i
     ELSE IF prog.interp.kind = "missing"
       THEN pc' = "exit" /\ UNCHANGED <<i, fds, bprm, ret>>
     ELSE /\ bprm' = [bprm EXCEPT !.interp = prog.interp.kind]
          /\ fds' = fds \cup {"interp"}
          /\ i' = i + 1 /\ UNCHANGED <<pc, ret>>
  /\ UNCHANGED <<prog, mem, prot, ld, it, info>>

StringsFit(pr) == pr.fits

\* Neither an a.out nor an ELF file: the interpreter is refused; strings that did
\* not fit are noticed only here.
CheckInterp ==
  /\ pc = "scan" /\ i > Len(prog.phdrs)
  /\ \/ bprm.interp = "junk" /\ Fail(-80) /\ fds' = fds \ {"prog"}
     \/ bprm.interp # "junk" /\ ~StringsFit(prog) /\ Fail(-7) /\ fds' = fds \ {"prog"}
     \/ /\ bprm.interp # "junk" /\ StringsFit(prog)
        /\ pc' = "stack" /\ UNCHANGED <<fds, bprm, ret>>
  /\ UNCHANGED <<prog, i, mem, prot, ld, it, info>>

-----------------------------------------------------------------------------
(* The stack and the segments. *)

\* setup_arg_pages: the stack and one page without rights above it.
MapStack ==
  /\ pc = "stack"
  /\ LET at == FreeRun(prot, StackPages + 1)
         c == [x \in Addr |-> IF x < at + P * StackPages THEN Stack ELSE Zero]
     IN IF at = -1
          THEN pc' = "exit" /\ UNCHANGED <<mem, prot, info, bprm>>
          ELSE /\ mem' = MapMem(mem, at, P * (StackPages + 1), c)
               /\ prot' = MapProt(MapProt(prot, at, P * StackPages, RW), at + P * StackPages, P, {})
               /\ info' = [info EXCEPT !.stack = at]
               /\ bprm' = [bprm EXCEPT !.held = FALSE]
               /\ pc' = "map"
  /\ i' = 1
  /\ UNCHANGED <<prog, fds, ld, it, ret>>

DynReserve == DynPages

\* The first segment of a position independent program reserves the space for
\* all of them.
Reserve(h) ==
  IF h.etype = "DYN" /\ ~ld.set THEN FreeRun(prot, DynReserve) ELSE 0

\* The page aligned place in the file where a segment's mapping begins.
FileStart(s) == s.offset - PAGEOFFSET(s.vaddr)

\* Where byte 0 of the file is in memory.
HeadersAt(s, bias) == (s.vaddr - s.offset) + bias

\* One turn of the loop over the segments.
MapSegment ==
  /\ pc = "map" /\ i <= Len(prog.phdrs)
  /\ LET s     == prog.phdrs[i]
         res   == Reserve(prog)
         first == prog.etype = "DYN" /\ ~ld.set
         bias  == IF first THEN PAGESTART(res - s.vaddr) ELSE ld.bias
         at    == PAGESTART(bias + s.vaddr)
         len   == s.filesz + PAGEOFFSET(s.vaddr)
         m0    == IF first THEN MapMem(mem, res, P * DynReserve, NoContents) ELSE mem
         p0    == IF first THEN MapProt(prot, res, P * DynReserve, {}) ELSE prot
         c     == [x \in Addr |-> FileByte(FileStart(s) + (x - at), Main(FileStart(s) + (x - at)))]
         k     == s.vaddr + s.filesz
     IN IF s.type # "LOAD"
          THEN UNCHANGED <<mem, prot, ld, pc>>
        ELSE IF res = -1
          THEN pc' = "exit" /\ UNCHANGED <<mem, prot, ld>>
        ELSE /\ mem' = MapMem(m0, at, len, c)
             /\ prot' = MapProt(p0, at, len, s.flags)
             /\ ld' = [set  |-> TRUE,
                       bias |-> bias,
                       addr |-> IF ld.set THEN ld.addr ELSE HeadersAt(s, bias),
                       bss  |-> Larger(ld.bss, k),
                       brk  |-> Larger(ld.brk, s.vaddr + s.memsz),
                       start_code |-> Smaller(ld.start_code, s.vaddr),
                       end_code   |-> IF "X" \in s.flags THEN Larger(ld.end_code, k) ELSE ld.end_code,
                       start_data |-> Larger(ld.start_data, s.vaddr),
                       end_data   |-> Larger(ld.end_data, k)]
             /\ UNCHANGED pc
  /\ i' = i + 1
  /\ UNCHANGED <<prog, fds, bprm, it, info, ret>>

EntryPoint(h, bias) == h.entry + bias

\* All addresses move by the bias; then the interpreter, if there is one.
Rebase ==
  /\ pc = "map" /\ i > Len(prog.phdrs)
  /\ ld' = [ld EXCEPT !.bss = @ + ld.bias, !.brk = @ + ld.bias, !.start_code = @ + ld.bias,
                      !.end_code = @ + ld.bias, !.start_data = @ + ld.bias, !.end_data = @ + ld.bias]
  /\ info' = [info EXCEPT !.entry = EntryPoint(prog, ld.bias),
                          !.load_addr = IF prog.etype = "DYN" THEN ld.bias ELSE 0]
  /\ pc' = CASE bprm.interp = "none" -> "tables" [] bprm.interp = "aout" -> "aout" [] OTHER -> "interp"
  /\ i' = 1
  /\ UNCHANGED <<prog, mem, prot, fds, bprm, it, ret>>

\* load_aout_interp does not exist: the program would start at 0.
AoutInterp ==
  /\ pc = "aout"
  /\ info' = [info EXCEPT !.entry = 0, !.load_addr = 0]
  /\ fds' = fds \ {"interp"}
  /\ pc' = "tables"
  /\ UNCHANGED <<prog, i, mem, prot, bprm, ld, it, ret>>

-----------------------------------------------------------------------------
(* load_elf_interp. *)

InterpHeader ==
  /\ pc = "interp"
  /\ LET at == IF prog.interp.etype = "DYN" THEN FreeRun(prot, InterpPages) ELSE 0
     IN IF ~TypeArch(prog.interp) \/ at = -1
          THEN pc' = "exit" /\ UNCHANGED <<mem, prot, it>>
          ELSE /\ pc' = "imap"
               /\ it' = [it EXCEPT !.addr = at]
               /\ IF prog.interp.etype = "DYN"
                    THEN mem' = MapMem(mem, at, P * InterpPages, NoContents) /\ prot' = MapProt(prot, at, P * InterpPages, {})
                    ELSE UNCHANGED <<mem, prot>>
  /\ i' = 1
  /\ UNCHANGED <<prog, fds, bprm, ld, info, ret>>

MapInterpSegment ==
  /\ pc = "imap" /\ i <= Len(prog.interp.phdrs)
  /\ LET s    == prog.interp.phdrs[i]
         at   == it.addr + PAGESTART(s.vaddr)
         len  == s.filesz + PAGEOFFSET(s.vaddr)
         c == [x \in Addr |-> FileByte(FileStart(s) + (x - at), Interp(FileStart(s) + (x - at)))]
     IN IF s.type # "LOAD"
          THEN UNCHANGED <<mem, prot, it>>
          ELSE /\ mem' = MapMem(mem, at, len, c)
               /\ prot' = MapProt(prot, at, len, s.flags)
               /\ it' = [it EXCEPT !.bss = Larger(@, it.addr + s.vaddr + s.filesz),
                                   !.last = Larger(@, it.addr + s.vaddr + s.memsz)]
  /\ i' = i + 1
  /\ UNCHANGED <<prog, pc, fds, bprm, ld, info, ret>>

-----------------------------------------------------------------------------
(* The bss. *)

\* The rest of the page after the file's bytes is cleared, where it is writable.
padzero(m, pr, bss, last) ==
  [x \in Addr |-> IF bss < last /\ bss % P # 0 /\ x >= bss /\ x < PageAlign(bss)
                     /\ "W" \in pr[x \div P]
                  THEN Zero ELSE m[x]]

\* Mutant: the pages of the bss begin with the page the file's bytes end in.
BssStart_page(a) == PAGESTART(a)

BssStart(a) == PageAlign(a)

\* set_brk and the last lines of load_elf_interp: fresh pages up to the end.
BssMem(m, bss, last) ==
  IF last <= BssStart(bss) THEN m ELSE MapMem(m, BssStart(bss), PageAlign(last) - BssStart(bss), NoContents)
BssProt(pr, bss, last) ==
  IF last <= BssStart(bss) THEN pr ELSE MapProt(pr, BssStart(bss), PageAlign(last) - BssStart(bss), RWX)

\* The end of load_elf_interp and the return to load_elf_binary; both close the
\* interpreter's descriptor.
FinishInterp ==
  /\ pc = "imap" /\ i > Len(prog.interp.phdrs)
  /\ mem' = BssMem(padzero(mem, prot, it.bss, it.last), it.bss, it.last)
  /\ prot' = BssProt(prot, it.bss, it.last)
  /\ info' = [info EXCEPT !.entry = EntryPoint(prog.interp, it.addr), !.load_addr = it.addr]
  /\ fds' = fds \ {"interp"}
  /\ pc' = "tables"
  /\ UNCHANGED <<prog, i, bprm, ld, it, ret>>

\* Only an a.out interpreter is handed the program's descriptor.
FdsLeft == IF bprm.interp = "aout" THEN fds ELSE fds \ {"prog"}

\* create_elf_tables (module ElfStack) passes the guest the address of the program
\* headers; then the break and the bss of the program itself.
FinishProgram ==
  /\ pc = "tables"
  /\ fds' = FdsLeft
  /\ info' = [info EXCEPT !.phdr = ld.addr + prog.phoff, !.brk = ld.brk]
  /\ mem' = padzero(BssMem(mem, ld.bss, ld.brk), BssProt(prot, ld.bss, ld.brk), ld.bss, ld.brk)
  /\ prot' = BssProt(prot, ld.bss, ld.brk)
  /\ pc' = "done"
  /\ UNCHANGED <<prog, i, bprm, ld, it, ret>>

Finished == pc \in {"done", "failed", "exit"} /\ UNCHANGED vars

Next ==
  \/ OpenProgram \/ CheckHeader \/ ScanPhdr \/ CheckInterp \/ MapStack \/ MapSegment \/ Rebase
  \/ AoutInterp \/ InterpHeader \/ MapInterpSegment \/ FinishInterp \/ FinishProgram \/ Finished

Spec == Init /\ [][Next]_vars

-----------------------------------------------------------------------------
(* Properties. *)

TypeOK ==
  /\ pc \in {"open", "header", "scan", "stack", "map", "aout", "interp", "imap", "tables", "done", "failed", "exit"}
  /\ \A a \in Addr : mem[a] \in {None, Zero, Stack} \cup 1000..2999
  /\ \A k \in PageNo : prot[k] \subseteq RWX \cup {"valid"}
  /\ fds \subseteq {"prog", "interp"}
  /\ bprm.held => pc \in {"scan", "stack", "exit"}   \* the argument pages are freed by then

Loads(phdrs) == {phdrs[k] : k \in {j \in 1..Len(phdrs) : phdrs[j].type = "LOAD"}}

\* The bytes of the file a segment describes are at their addresses.
FileBytes(s, bias, tag(_)) == \A o \in 0..s.filesz - 1 : mem[bias + s.vaddr + o] = tag(s.offset + o)

\* The rest of the segment is zero.
ZeroBytes(s, bias) == \A o \in s.filesz..s.memsz - 1 : mem[bias + s.vaddr + o] = Zero

\* When the program starts, every segment of it is in memory as its header
\* describes: neither a later segment, nor the interpreter, nor the pages of the
\* bss, which are mapped last and at a fixed place, replaced any of it.
ProgramLoaded ==
  pc = "done" => \A s \in Loads(prog.phdrs) : FileBytes(s, ld.bias, Main)

\* The same for the interpreter, which is loaded before the program's bss.
InterpreterLoaded ==
  pc = "done" /\ bprm.interp = "elf" =>
    \A s \in Loads(prog.interp.phdrs) : FileBytes(s, it.addr, Interp) /\ ZeroBytes(s, it.addr)

\* The bss of every segment of the program is zero: no junk of the file is left
\* in the page it begins in (the comment above padzero).
BssIsZero == pc = "done" => \A s \in Loads(prog.phdrs) : ZeroBytes(s, ld.bias)

\* The stack is mapped first, before the program claims its fixed addresses; the
\* strings on it survive all that follows.  Strings that did not fit never get
\* that far.
StackSurvives ==
  pc = "done" => /\ \A a \in info.stack..info.stack + P * StackPages - 1 : mem[a] = Stack
                 /\ prog.fits

\* The guest starts at the first instruction of the interpreter, or of the
\* program when it has none, and the page may be executed.
EntryIsCode ==
  pc = "done" /\ bprm.interp # "aout" =>
    /\ "X" \in prot[info.entry \div P]
    /\ mem[info.entry] >= IF bprm.interp = "elf" THEN 2000 ELSE 1000

\* AT_PHDR, from which the interpreter relocates the program, points at the
\* program headers in memory.
HeadersFound == pc = "done" => mem[info.phdr] = Main(prog.phoff)

\* A program that starts holds no descriptor of the loader's; only an a.out
\* interpreter is passed the program's.
FilesClosed ==
  pc = "done" => fds = IF bprm.interp = "aout" THEN {"prog"} ELSE {}
=============================================================================
