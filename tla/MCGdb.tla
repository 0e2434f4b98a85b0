------------------------------- MODULE MCGdb -------------------------------
(***************************************************************************)
(* The debugger's stub, model checked: the packets between debugger and      *)
(* stub, for user and for system emulation (GdbStub), and the register       *)
(* files the packets carry (GdbRegs).  The instances of the stub differ in    *)
(* their commands and their line and share its variables; an initial state   *)
(* chooses the instance that runs.                                          *)
(***************************************************************************)
EXTENDS Integers, Sequences

VARIABLES
  runs,                                                             \* the instance that runs
  stub, guest, acking, chunk, toStub, toGdb, open, gdb, bad,        \* of the stub
  target, env, saved, last                                          \* of the registers

svars == <<stub, guest, acking, chunk, toStub, toGdb, open, gdb, bad>>
rvars == <<target, env, saved, last>>
vars == <<runs, svars, rvars>>

Cmd(c, t) == [c |-> c, t |-> t, acts |-> <<>>]
Act(a, t) == [a |-> a, t |-> t, g |-> 0]
VCont(acts) == [c |-> "vCont", t |-> 0, acts |-> acts]

\* Every command that is answered and whose signal is translated.
AllCmds ==
  <<Cmd("c", 0), Cmd("C", 30), Cmd("s", 0), Cmd("D", 0), Cmd("?", 0), Cmd("g", 0),
    Cmd("p", 0), Cmd("Z", 0), Cmd("z", 0), Cmd("Zw", 0), Cmd("zw", 0), Cmd("Hc", 2),
    Cmd("Hg", 9), Cmd("qf", 0), Cmd("qs", 0), Cmd("qXfer", 0), Cmd("F", 0), Cmd("vCont?", 0),
    VCont(<<Act("c", 0), Act("s", 2)>>)>>
RestCmds ==
  <<Cmd("c addr", 0), Cmd("F", 0), Cmd("F", 1), Cmd("Hg", 2), Cmd("Hc", 0), Cmd("T", 2),
    Cmd("T", 9), Cmd("sstep=", 1), Cmd("qC", 0), Cmd("qThreadExtraInfo", 1), Cmd("G", 0),
    Cmd("M", 0), Cmd("M", 1), Cmd("m", 0), Cmd("m", 1), Cmd("qXfer", 1), Cmd("p", 1),
    Cmd("P", 0), Cmd("sstepbits", 0), Cmd("sstep", 0), Cmd("qSupported", 0),
    Cmd("qOffsets", 0), Cmd("qRcmd", 0), Cmd("qRcmd", 1), Cmd("k", 0), Cmd("junk", 0),
    VCont(<<Act("c", 9)>>), VCont(<<Act("s", 1)>>),
    VCont(<<Act("s", 1), Act("c", 2)>>)>>
LiveCmds == <<Cmd("c", 0), Cmd("g", 0), Cmd("s", 0), Cmd("F", 0), Cmd("D", 0)>>

\* Both kinds of emulation over a line that damages one byte or packet or
\* loses one acknowledgement; tb_flush and cpu_exit return or abort.
User == INSTANCE GdbStub WITH
  UserOnly <- TRUE, NCpu <- 2, Cmds <- AllCmds, Sigs <- {10},
  ExecAborts <- BOOLEAN, LineMax <- 3, MaxReq <- 2, MaxBad <- 1
System == INSTANCE GdbStub WITH
  UserOnly <- FALSE, NCpu <- 2, Cmds <- AllCmds, Sigs <- {10},
  ExecAborts <- BOOLEAN, LineMax <- 3, MaxReq <- 3, MaxBad <- 1
Rest == INSTANCE GdbStub WITH
  UserOnly <- TRUE, NCpu <- 2, Cmds <- RestCmds, Sigs <- {10},
  ExecAborts <- BOOLEAN, LineMax <- 3, MaxReq <- 2, MaxBad <- 1
RestSystem == INSTANCE GdbStub WITH
  UserOnly <- FALSE, NCpu <- 2, Cmds <- RestCmds, Sigs <- {10},
  ExecAborts <- BOOLEAN, LineMax <- 3, MaxReq <- 2, MaxBad <- 1

\* A C for every number the debugger may be told, and signals at the ends of
\* each part of the table.
Numbers == INSTANCE GdbStub WITH
  UserOnly <- TRUE, NCpu <- 1, Cmds <- [i \in 1 .. 150 |-> Cmd("C", i)],
  Sigs <- {7, 10, 31, 32, 33, 63, 64},
  ExecAborts <- {FALSE}, LineMax <- 1, MaxReq <- 1, MaxBad <- 0

\* For liveness: user emulation over a reliable connection, system emulation
\* over a line.
LiveUser == INSTANCE GdbStub WITH
  UserOnly <- TRUE, NCpu <- 2, Cmds <- LiveCmds, Sigs <- {10},
  ExecAborts <- BOOLEAN, LineMax <- 3, MaxReq <- 2, MaxBad <- 0
LiveSystem == INSTANCE GdbStub WITH
  UserOnly <- FALSE, NCpu <- 2, Cmds <- SubSeq(LiveCmds, 1, 3), Sigs <- {10},
  ExecAborts <- BOOLEAN, LineMax <- 3, MaxReq <- 2, MaxBad <- 1

T(a, l, o, u) == {[arch |-> a, long |-> l, xml |-> x, opt |-> o, user |-> u] : x \in BOOLEAN}
Both(a, l, o) == T(a, l, o, TRUE) \cup T(a, l, o, FALSE)

\* The register files at their real sizes, of the targets whose g and G agree;
\* in both kinds of emulation where they differ.
Regs == INSTANCE GdbRegs WITH
  Garbage <- 9,
  Targets <- Both("i386", 4, FALSE) \cup Both("i386", 8, TRUE) \cup Both("i386", 8, FALSE)
    \cup Both("ppc", 4, FALSE) \cup Both("ppc", 8, FALSE) \cup Both("arm", 4, FALSE)
    \cup T("sparc", 4, FALSE, TRUE) \cup T("m68k", 4, FALSE, TRUE)
    \cup T("mips", 4, TRUE, TRUE) \cup T("mips", 8, TRUE, TRUE) \cup T("mips", 4, FALSE, TRUE)
    \cup T("sh4", 4, FALSE, TRUE) \cup T("microblaze", 4, FALSE, TRUE)
    \cup T("cris", 4, FALSE, TRUE) \cup T("alpha", 8, FALSE, TRUE)

ASSUME GdbAssumption ==
  /\ User!GdbStubAssumption /\ System!GdbStubAssumption /\ Rest!GdbStubAssumption
  /\ RestSystem!GdbStubAssumption
  /\ Numbers!GdbStubAssumption /\ LiveUser!GdbStubAssumption /\ LiveSystem!GdbStubAssumption
  /\ Regs!TargetsAssumption

\* The state of the registers while a stub runs.
NoRegs == /\ target = [arch |-> "arm", long |-> 4, xml |-> FALSE, opt |-> FALSE, user |-> TRUE]
          /\ env = [f \in Regs!Fields(target) |-> 0]
          /\ saved = [bytes |-> <<>>, vals |-> <<>>]
          /\ last = [op |-> "none", n |-> 0, v |-> 0]

Init ==
  \/ /\ runs \in {"User", "System", "Rest", "RestSystem", "LiveUser", "LiveSystem"}
     /\ User!Init /\ NoRegs
  \/ runs = "Numbers" /\ Numbers!Init /\ NoRegs
  \/ runs = "Regs" /\ User!Init /\ Regs!Init

Next ==
  /\ UNCHANGED runs
  /\ \/ runs = "User" /\ User!Next /\ UNCHANGED rvars
     \/ runs = "System" /\ System!Next /\ UNCHANGED rvars
     \/ runs = "Rest" /\ Rest!Next /\ UNCHANGED rvars
     \/ runs = "RestSystem" /\ RestSystem!Next /\ UNCHANGED rvars
     \/ runs = "Numbers" /\ Numbers!Next /\ UNCHANGED rvars
     \/ runs = "LiveUser" /\ LiveUser!Next /\ UNCHANGED rvars
     \/ runs = "LiveSystem" /\ LiveSystem!Next /\ UNCHANGED rvars
     \/ runs = "Regs" /\ Regs!Next /\ UNCHANGED svars

\* The fairness of GdbStub, for the instances liveness is checked of.
Fairness ==
  /\ WF_svars(runs = "LiveUser" /\ LiveUser!StubStep)
  /\ WF_svars(runs = "LiveUser" /\ LiveUser!GdbRecv)
  /\ WF_svars(runs = "LiveUser" /\ LiveUser!Timeout)
  /\ WF_svars(runs = "LiveSystem" /\ LiveSystem!StubStep)
  /\ WF_svars(runs = "LiveSystem" /\ LiveSystem!GdbRecv)
  /\ WF_svars(runs = "LiveSystem" /\ LiveSystem!Timeout)

Spec == Init /\ [][Next]_vars /\ Fairness

\* What debugger and stub believe of each other: a request is carried out once,
\* or again when its acknowledgement was lost, and the reply taken for its answer
\* was made for it; breakpoints are set on all CPUs and gone after a detach; a
\* thread list no part of which was asked for twice is complete; a signal passed
\* on is the one that arrived.
StubAndDebuggerAgree ==
  /\ runs = "User" => /\ User!TypeOK /\ User!EachRequestOnce /\ User!ReplyIsForRequest
                      /\ User!BreakpointsAgree /\ User!ThreadListComplete
                      /\ User!DetachRemovesBreakpoints
  /\ runs = "System" => /\ System!TypeOK /\ System!EachRequestOnce /\ System!ReplyIsForRequest
                        /\ System!BreakpointsAgree /\ System!ThreadListComplete
                        /\ System!DetachRemovesBreakpoints
  /\ runs = "Rest" => Rest!EachRequestOnce /\ Rest!ReplyIsForRequest
  /\ runs = "RestSystem" => RestSystem!EachRequestOnce /\ RestSystem!ReplyIsForRequest
  /\ runs = "Numbers" => Numbers!SignalPassedOn

\* Every request is answered, a debugger that believes the guest runs is right in
\* the end or told, and a guest whose debugger has gone goes on.
RequestsAnswered ==
  /\ runs = "LiveUser" => /\ LiveUser!RequestsAnswered /\ LiveUser!BelievedRunning
                          /\ LiveUser!GuestNotStuck
  /\ runs = "LiveSystem" => LiveSystem!RequestsAnswered /\ LiveSystem!BelievedRunning

\* A debugger that reads all registers, lets the guest run and writes them back
\* restores them, from the bytes of its packet, but for a bank of registers that
\* is written before the mode that selects it; a register set alone reads back.
RegistersRestored ==
  runs = "Regs" => Regs!GRestores /\ Regs!GStaysInThePacket /\ Regs!PReadsBack
=============================================================================
