------------------------------ MODULE ElfCore -------------------------------
(***************************************************************************)
(* elf_core_dump: the core file of a guest that died.  The file is written *)
(* front to back by dump_write, which retries short and interrupted writes *)
(* and stops at RLIMIT_CORE; the program headers promise places in the     *)
(* file that are only written later, so the two computations of the layout *)
(* have to agree.                                                          *)
(*                                                                         *)
(* The regions are what walk_memory_regions reports, right or wrong: a     *)
(* region may name pages that cannot be read, and end below its start.     *)
(* Sizes are scaled down: every structure is a few bytes long.  A byte of  *)
(* the file is a number that tells what it is a byte of.                   *)
(***************************************************************************)
EXTENDS Integers, Sequences, TLC

CONSTANTS P,              \* TARGET_PAGE_SIZE
          Space,          \* bytes of the address space
          EXEC_PAGESIZE,  \* ELF_EXEC_PAGESIZE
          EhdrSize, PhdrSize, NoteHdrSize,
          Cases,          \* what is dumped: [regions, threads, limit, fault, target], where
                          \* a region's bad are its pages that cannot be read
          Faults          \* outcomes of write(2) besides success, of each case's fault

VARIABLES in,      \* the case
          at,      \* the item of the file that is next
          w,       \* bytes dump_write has still to write
          file,    \* the file: a partial function from offsets to bytes
          pos,     \* its position
          errno,
          full,    \* the disk has no room any more
          cut,     \* something was not written
          slip,    \* history: "ignored" after a region's header was not written,
                   \* "displaced" once anything was written behind it
          pc, ret

vars == <<in, at, w, file, pos, errno, full, cut, slip, pc, ret>>

Unlimited == -1
RoundUp(x, m) == ((x + m - 1) \div m) * m
Smaller(a, b) == IF a < b THEN a ELSE b

-----------------------------------------------------------------------------
(* What is dumped. *)

\* Nothing of a region whose first page cannot be read, or of executable pages that
\* begin with an ELF header: the file they come from has them.
vma_dump_size(v) ==
  IF 0 \in v.bad \/ ("X" \in v.flags /\ v.elf) THEN 0 ELSE (Space + v.end - v.start) % Space

\* A name and the data, each rounded up to four bytes.
NameSize == 8
RoundedData(sz) == RoundUp(sz, 4)

\* The notes: prstatus, psinfo and auxv, then the prstatus of each other thread.
NoteData(c) == <<c.prstatus, c.psinfo, c.auxv>> \o [t \in 1..c.threads |-> c.prstatus]

note_size(sz) == NoteHdrSize + NameSize + RoundedData(sz)


notes_size(c) ==
  LET s[k \in 0..Len(NoteData(c))] == IF k = 0 THEN 0 ELSE s[k - 1] + note_size(NoteData(c)[k])
  IN s[Len(NoteData(c))]

-----------------------------------------------------------------------------
(* The layout the headers promise. *)

NotesAt(c) == EhdrSize + (Len(c.regions) + 1) * PhdrSize

DataAt(c) == RoundUp(NotesAt(c) + notes_size(c), EXEC_PAGESIZE)

\* p_offset of each region: after what is dumped of the ones before it.
p_offset(c) ==
  LET o[k \in 1..Len(c.regions)] ==
        IF k = 1 THEN DataAt(c) ELSE o[k - 1] + vma_dump_size(c.regions[k - 1])
  IN o

-----------------------------------------------------------------------------
(* The items of the file, in the order they are written. *)

EhdrByte(j) == j
PhdrByte(k, j) == 100 * (k + 1) + j         \* k = 0 is the note's
NoteByte(k, part, j) == 1000 * k + 100 * part + j
MemByte(a) == 10000 + a

Bytes(f(_), len) == [j \in 1..len |-> f(j)]

Ehdr == [what |-> "ehdr", data |-> Bytes(EhdrByte, EhdrSize)]
Phdr(k) == LET f(j) == PhdrByte(k, j)
           IN [what |-> IF k = 0 THEN "notephdr" ELSE "phdr", data |-> Bytes(f, PhdrSize)]

\* write_note: the note's header, its name and its data.
write_note(k, sz) ==
  LET f(j) == NoteByte(k, 1, j)
      g(j) == NoteByte(k, 2, j)
      h(j) == NoteByte(k, 3, j)
  IN <<[what |-> "note", data |-> Bytes(f, NoteHdrSize)], [what |-> "note", data |-> Bytes(g, NameSize)],
       [what |-> "note", data |-> Bytes(h, RoundedData(sz))]>>

write_note_info(c) ==
  LET s[k \in 0..Len(NoteData(c))] == IF k = 0 THEN <<>> ELSE s[k - 1] \o write_note(k, NoteData(c)[k])
  IN s[Len(NoteData(c))]

\* The pages that are copied, one write each: up to vma_start + vma_dump_size(vma),
\* which is below vma_start when the sum wraps.
PagesDumped(v) == LET end == (v.start + vma_dump_size(v)) % Space IN IF end < v.start THEN 0 ELSE (end - v.start) \div P

PagesOf(v) == [k \in 1..PagesDumped(v) |->
                 LET f(j) == MemByte(v.start + (k - 1) * P + j - 1)
                 IN [what |-> IF k - 1 \in v.bad THEN "badpage" ELSE "page", data |-> Bytes(f, P)]]

AllPages(c) ==
  LET s[k \in 0..Len(c.regions)] == IF k = 0 THEN <<>> ELSE s[k - 1] \o PagesOf(c.regions[k])
  IN s[Len(c.regions)]

Items(c) == <<Ehdr, Phdr(0)>> \o [k \in 1..Len(c.regions) |-> Phdr(k)] \o write_note_info(c)
              \o <<[what |-> "align", data |-> <<>>]>> \o AllPages(c)

-----------------------------------------------------------------------------
(* Writing. *)

Init ==
  /\ in \in Cases
  /\ at = 1 /\ w = <<>>
  /\ file = <<>> /\ pos = 0
  /\ errno = 0 /\ full = FALSE /\ cut = FALSE /\ slip = "no"
  /\ pc = "start" /\ ret = 0

\* No limit of 0, a name and an open file; the regions that walk_memory_regions
\* reports are collected in a list.
StartDump ==
  /\ pc = "start"
  /\ \/ in.limit = 0 /\ pc' = "done"
     \/ in.limit # 0 /\ pc' = "item"
  /\ UNCHANGED <<in, at, w, file, pos, errno, full, cut, slip, ret>>

Item == Items(in)[at]

\* dump_write failed: only the headers of the regions do not care.
WriteFailed ==
  /\ w' = <<>> /\ cut' = TRUE
  /\ IF Item.what = "phdr"
       THEN at' = at + 1 /\ pc' = "item" /\ slip' = IF slip = "no" THEN "ignored" ELSE slip
       ELSE pc' = "out" /\ UNCHANGED <<at, slip>>

\* How much of a write the limit leaves.
LimitLeft(size) == IF in.limit = Unlimited THEN size ELSE Smaller(size, in.limit - pos)

\* dump_write begins: at the limit it fails, near it it writes what is left.
BeginWrite ==
  /\ pc = "item" /\ at <= Len(Items(in)) /\ Item.what \notin {"align", "badpage"}
  /\ IF in.limit # Unlimited /\ in.limit <= pos
       THEN WriteFailed
       ELSE /\ w' = SubSeq(Item.data, 1, LimitLeft(Len(Item.data)))
            /\ cut' = (cut \/ LimitLeft(Len(Item.data)) < Len(Item.data))
            /\ pc' = "write" /\ UNCHANGED <<at, slip>>
  /\ UNCHANGED <<in, file, pos, errno, full, ret>>

\* What is left after n bytes went out.
Rest(s, n) == SubSeq(s, n + 1, Len(s))

\* write(2) takes some of the bytes, or all.
WriteSome ==
  /\ pc = "write" /\ ~full
  /\ \E n \in (IF "short" \in Faults[in.fault] THEN 1..Len(w) ELSE {Len(w)}) :
       /\ file' = [o \in pos..pos + n - 1 |-> w[o - pos + 1]] @@ file
       /\ pos' = pos + n
       /\ w' = Rest(w, n)
       /\ slip' = IF slip = "ignored" THEN "displaced" ELSE slip
       /\ IF n = Len(w) THEN at' = at + 1 /\ pc' = "item" ELSE UNCHANGED <<at, pc>>
  /\ UNCHANGED <<in, errno, full, cut, ret>>

\* A signal: nothing is written, the loop goes round.
WriteInterrupted ==
  /\ pc = "write" /\ "eintr" \in Faults[in.fault] /\ errno # 4
  /\ errno' = 4
  /\ UNCHANGED <<in, at, w, file, pos, full, cut, slip, pc, ret>>

\* The disk is full, for good or (a transient error) for this once.
WriteError ==
  /\ pc = "write"
  /\ \/ full \/ "full" \in Faults[in.fault]
     \/ "once" \in Faults[in.fault] /\ errno = 0
  /\ errno' = 28
  /\ full' = ("once" \notin Faults[in.fault])
  /\ WriteFailed
  /\ UNCHANGED <<in, file, pos, ret>>

\* copy_from_user fails in the middle of a region.
CopyFailed ==
  /\ pc = "item" /\ at <= Len(Items(in)) /\ Item.what = "badpage"
  /\ errno' = 14 /\ cut' = TRUE /\ pc' = "out"
  /\ UNCHANGED <<in, at, w, file, pos, full, slip, ret>>

\* The memory begins on a page of the guest.
AlignData ==
  /\ pc = "item" /\ at <= Len(Items(in)) /\ Item.what = "align"
  /\ pos' = RoundUp(pos, P)
  /\ at' = at + 1
  /\ UNCHANGED <<in, w, file, errno, full, cut, slip, pc, ret>>

EndOfItems ==
  /\ pc = "item" /\ at > Len(Items(in))
  /\ pc' = "out"
  /\ UNCHANGED <<in, at, w, file, pos, errno, full, cut, slip, ret>>

\* The label out: free_note_info walks a list that fill_note_info has set up only
\* after the ELF header was written; before that its pointers are arbitrary.
FreeAndReturn ==
  /\ pc = "out"
  /\ \/ pc' = "done" /\ ret' = -errno
     \/ at = 1 /\ pc' = "crash" /\ UNCHANGED ret
  /\ UNCHANGED <<in, at, w, file, pos, errno, full, cut, slip>>

Finished == pc \in {"done", "crash"} /\ UNCHANGED vars

Next == StartDump \/ BeginWrite \/ WriteSome \/ WriteInterrupted \/ WriteError \/ CopyFailed \/ AlignData \/ EndOfItems \/ FreeAndReturn \/ Finished

Spec == Init /\ [][Next]_vars

-----------------------------------------------------------------------------
(* elf_core_copy_regs: the register in each slot of pr_reg, for each target. *)

R(k) == <<"r", k>>
S(name) == <<name, 0>>
Nothing == <<"zero", 0>>

Seq0(s) == [k \in 0..Len(s) - 1 |-> s[k + 1]]
Segs(names) == [k \in 1..Len(names) |-> S(names[k])]

\* Slots by number; -1 stands for a write outside the array.
i386_core_copy_regs ==
  Seq0(<<R(3), R(1), R(2), R(6), R(7), R(5), R(0)>> \o Segs(<<"ds", "es", "fs", "gs">>)
       \o <<R(0), S("eip"), S("cs"), S("eflags"), R(4), S("ss")>>)

x86_64_core_copy_regs ==
  Seq0(<<R(15), R(14), R(13), R(12), R(5), R(3), R(11), R(10), R(9), R(8), R(0), R(1), R(2), R(6), R(7), R(0)>>
       \o Segs(<<"eip", "cs", "eflags">>) \o <<R(4)>> \o Segs(<<"ss", "fs", "gs", "ds", "es", "fs", "gs">>))

arm_core_copy_regs == Seq0([k \in 1..16 |-> R(k - 1)] \o <<S("cpsr"), R(0)>>)

ppc_core_copy_regs ==
  Seq0([k \in 1..32 |-> R(k - 1)] \o Segs(<<"nip", "msr", "zero", "ctr", "lr", "xer", "ccr">>) \o [k \in 1..9 |-> Nothing])

EF_R0 == 6
mips_core_copy_regs ==
  [k \in 0..44 |->
     CASE k - EF_R0 \in (1..31) \ {26, 27} -> R(k - EF_R0)
       [] k - EF_R0 \in 32..37 -> S(<<"lo", "hi", "pc", "badvaddr", "status", "cause">>[k - EF_R0 - 31])
       [] OTHER -> Nothing]

microblaze_core_copy_regs == Seq0([k \in 1..32 |-> R(k - 1)] \o [k \in 1..6 |-> <<"s", k - 1>>])

\* (*regs[i]) is the first slot of the i-th array: only i = 0 is inside.
sh4_core_copy_regs ==
  [k \in 0..22 |-> IF k = 0 THEN R(0) ELSE IF k \in 16..21 THEN S(<<"pc", "pr", "sr", "gbr", "mach", "macl">>[k - 15]) ELSE Nothing]

m68k_core_copy_regs ==
  Seq0([k \in 1..7 |-> R(k)] \o [k \in 1..7 |-> <<"a", k - 1>>] \o <<R(0), <<"a", 7>>, R(0), S("sr"), S("pc"), Nothing>>)

elf_core_copy_regs(t) ==
  CASE t = "i386" -> i386_core_copy_regs [] t = "x86_64" -> x86_64_core_copy_regs [] t = "arm" -> arm_core_copy_regs
    [] t = "ppc" -> ppc_core_copy_regs [] t = "mips" -> mips_core_copy_regs
    [] t = "microblaze" -> microblaze_core_copy_regs [] t = "sh4" -> sh4_core_copy_regs [] t = "m68k" -> m68k_core_copy_regs

\* ELF_NREG.
NREG(t) ==
  CASE t = "i386" -> 17 [] t = "x86_64" -> 27 [] t = "arm" -> 18 [] t = "ppc" -> 48 [] t = "mips" -> 45
    [] t = "microblaze" -> 38 [] t = "sh4" -> 23 [] t = "m68k" -> 20

-----------------------------------------------------------------------------
(* Properties. *)

TypeOK ==
  /\ pc \in {"start", "item", "write", "out", "done", "crash"}
  /\ at \in 1..Len(Items(in)) + 1
  /\ pos \in Nat /\ errno \in {0, 4, 14, 28}
  /\ \A o \in DOMAIN file : o \in 0..pos - 1
  /\ in.limit # Unlimited => \A o \in DOMAIN file : o < in.limit

\* The general registers and the rest of the state a debugger needs to show where
\* a program of each target stopped.
Registers(t) ==
  LET rs(n) == {R(k) : k \in 0..n - 1}
      some(names) == {S(x) : x \in names}
  IN CASE t = "i386" -> rs(8) \cup some({"eip", "eflags", "cs", "ds", "es", "fs", "gs", "ss"})
       [] t = "x86_64" -> rs(16) \cup some({"eip", "eflags", "cs", "ds", "es", "fs", "gs", "ss"})
       [] t = "arm" -> rs(16) \cup some({"cpsr"})
       [] t = "ppc" -> rs(32) \cup some({"nip", "msr", "ctr", "lr", "xer", "ccr"})
       [] t = "mips" -> (rs(32) \ {R(0), R(26), R(27)}) \cup some({"lo", "hi", "pc", "status", "cause", "badvaddr"})
       [] t = "microblaze" -> rs(32) \cup {<<"s", k>> : k \in 0..5}
       [] t = "sh4" -> rs(16) \cup some({"pc", "pr", "sr", "gbr", "mach", "macl"})
       [] t = "m68k" -> rs(8) \cup {<<"a", k>> : k \in 0..7} \cup some({"sr", "pc"})

\* Every register of the CPU is in some slot of the array of ELF_NREG slots, and
\* the array is filled to its end (elf_core_copy_regs of each target).
RegistersKept ==
  pc = "done" =>
  LET regs == elf_core_copy_regs(in.target)
  IN /\ DOMAIN regs = 0..NREG(in.target) - 1
     /\ \A r \in Registers(in.target) : \E k \in DOMAIN regs : regs[k] = r

\* No region ends below its start: then its header promises bytes that are not dumped.
RegionsProper == \A k \in 1..Len(in.regions) : in.regions[k].start < in.regions[k].end

\* Whatever of the core file is there is where its headers say: the memory of a
\* region, as it was reported, from its p_offset on, the notes from the note header's
\* on.  This holds after every step, also in a file cut short by the limit, a full disk
\* or a page that cannot be read.  The exceptions are regions that wrap, and a header
\* whose write failed for once: its result is ignored, and everything behind it is
\* displaced.
HeadersTellTheTruth ==
  RegionsProper /\ slip # "displaced" =>
    /\ \A k \in 1..Len(in.regions) : \A j \in 0..vma_dump_size(in.regions[k]) - 1 :
         p_offset(in)[k] + j \in DOMAIN file => file[p_offset(in)[k] + j] = MemByte(in.regions[k].start + j)
    /\ \A o \in DOMAIN file : o \in NotesAt(in)..NotesAt(in) + notes_size(in) - 1 <=> file[o] \in 1000..9999

\* The memory of the file begins on a page of the guest, and nothing in it is of a page
\* that cannot be read.
DumpsReadablePages ==
  /\ DataAt(in) % P = 0
  /\ \A o \in DOMAIN file : file[o] > 10000 =>
       \E k \in 1..Len(in.regions) :
         /\ MemByte(in.regions[k].start) <= file[o] /\ file[o] < MemByte(in.regions[k].end)
         /\ (file[o] - MemByte(in.regions[k].start)) \div P \notin in.regions[k].bad

\* A file whose contents are not where its headers say is not taken for a good one: the
\* dump does not return 0.
DisplacedIsReported == pc = "done" /\ slip = "displaced" => ret # 0

\* A dump that met neither the limit nor an error has everything in it, although
\* single writes were short or interrupted (dump_write).
CompleteUnlessCut ==
  pc = "done" /\ ~cut /\ in.limit # 0 /\ RegionsProper =>
    \A k \in 1..Len(in.regions) : \A j \in 0..vma_dump_size(in.regions[k]) - 1 : p_offset(in)[k] + j \in DOMAIN file

\* Function returns 0 in case of success, negative errno otherwise.
ReturnTellsTruth == pc = "done" /\ in.limit # 0 => (ret = 0 <=> ~cut)

\* The function returns, whatever fails in it.
AlwaysReturns == pc # "crash"
=============================================================================
