---------------------------- MODULE GdbStub ----------------------------
(***************************************************************************)
(* The debugger stub (gdbstub.c): the byte-driven packet parser, the       *)
(* commands of the remote protocol, acknowledgements and retransmission,   *)
(* stops and resumes, for both builds: user emulation (UserOnly: the guest *)
(* is blocked in gdb_handlesig, which reads the socket itself, and         *)
(* put_packet waits for the acknowledgement) and system emulation (bytes   *)
(* arrive through gdb_chr_receive, also while the machine runs).           *)
(*                                                                         *)
(* The makefiles of this repository do not build gdbstub.c, and tb_flush   *)
(* and cpu_exit, which it calls, abort in exec.c; ExecAborts says whether  *)
(* they do, or return as the stub expects.                                 *)
(*                                                                         *)
(* A byte is [k, v]: a protocol character ("$", "#", "+", "-", "^C") or    *)
(* data.  A packet body is one data byte, the number of a command in Cmds, *)
(* or several for a body that is too long for line_buf.                    *)
(***************************************************************************)
EXTENDS Integers, Sequences, FiniteSets, SequencesExt

CONSTANTS
    UserOnly,      \* CONFIG_USER_ONLY
    NCpu,          \* CPUs, numbered 1..NCpu (gdb_id)
    Cmds,          \* the commands the debugger uses: sequence of [c, t]
    Sigs,          \* the guest signals that may stop the guest
    ExecAborts,    \* what tb_flush and cpu_exit may do: TRUE is abort()
    LineMax,       \* MAX_PACKET_LENGTH - 1, in data bytes
    MaxReq,        \* bound: requests the debugger makes
    MaxBad         \* bound: bytes and packets the line damages

\* What the constants must be.
GdbStubAssumption ==
    /\ UserOnly \in BOOLEAN
    /\ ExecAborts \in SUBSET BOOLEAN \ {{}}
    /\ NCpu \in Nat \ {0}
    /\ LineMax \in Nat \ {0}
    /\ {MaxReq, MaxBad} \subseteq Nat

VARIABLES
    stub,          \* GDBState and the file's static variables
    guest,         \* "runs", "stub" (stopped, the stub has control), "dead"
    acking,        \* user emulation: put_packet is in get_char
    chunk,         \* user emulation: bytes read from the socket, not parsed
    toStub, toGdb, \* the two directions of the connection
    open,          \* the debugger's end of the connection is open
    gdb,           \* the debugger
    bad            \* number of damaged bytes and packets so far

vars == <<stub, guest, acking, chunk, toStub, toGdb, open, gdb, bad>>

Cpus == 1..NCpu
NoCpu == 0
Byte(k, v) == [k |-> k, v |-> v]
Data(v) == Byte("d", v)
Digit(v) == Data(v % 16)

-----------------------------------------------------------------------------
(* Signal numbers *)

ESIG == <<1, 2, 3, 4, 5, 6, -1, 8, 9, 7, 11, 31, 13, 14, 15, 23, 19, 20, 18, 17, 21,
          22, 29, 24, 25, 26, 27, 28, -1, 10, 12, 30>>
SIGRTMIN == 32
GDB_SIGNAL_UNKNOWN == 143
GDB_SIGNAL_TRAP == 5
GDB_SIGNAL_INT == 2

gdb_signal_table ==
    [i \in 0..150 |->
        CASE i = 0 -> 0
          [] i \in 1..32 -> ESIG[i]
          [] i \in 45..75 -> SIGRTMIN + (i - 44)
          [] i = 77 -> SIGRTMIN
          [] i \in 78..141 -> SIGRTMIN + (i - 46)
          [] OTHER -> -1]

target_signal_to_gdb(sig) ==
    LET at == {i \in DOMAIN gdb_signal_table : gdb_signal_table[i] = sig}
    IN  IF at = {} THEN GDB_SIGNAL_UNKNOWN
        ELSE CHOOSE i \in at : \A j \in at : i <= j

gdb_signal_to_target(sig) ==
    IF sig \in DOMAIN gdb_signal_table THEN gdb_signal_table[sig] ELSE -1

-----------------------------------------------------------------------------
(* Packets *)

Sum(body) == FoldSeq(LAMBDA b, acc : b + acc, 0, body)

\* The bytes of a packet: '$', body, '#' and two checksum digits
Framed(body) ==
    <<Byte("$", 0)>> \o [i \in DOMAIN body |-> Data(body[i])]
    \o <<Byte("#", 0), Digit(Sum(body) \div 16), Digit(Sum(body))>>

fromhex(b) == IF b.k = "d" /\ b.v < 16 THEN b.v ELSE 0

\* A reply on its way to the debugger: its text, an argument, the request it
\* belongs to (kept for the properties), and whether the line damaged it.
Packet(r, a) == [k |-> "$", r |-> r, a |-> a, for |-> stub.done, ok |-> TRUE]
Char(c) == [k |-> c, r |-> "", a |-> 0, for |-> 0, ok |-> TRUE]

\* put_packet in system emulation: what last_packet_len says is kept until
\* the acknowledgement; a new packet replaces one that was never acknowledged.
Answer(s, r, a) == [s |-> s, out |-> <<[Packet(r, a) EXCEPT !.for = s.done]>>]
Silent(s) == [s |-> s, out |-> <<>>]

\* The process ends, and its end of the connection with it.
Ended ==
    /\ guest' = "dead" /\ open' = FALSE
    /\ acking' = FALSE /\ chunk' = <<>>
    /\ UNCHANGED <<stub, toStub, toGdb, gdb, bad>>

\* tb_flush and cpu_exit, before A
MayAbort(A) == \E aborts \in ExecAborts : IF aborts THEN Ended ELSE A

-----------------------------------------------------------------------------
(* Commands *)

find_cpu(t) == IF t \in Cpus THEN t ELSE NoCpu

\* Mutant: the running state is not set.
gdb_continue_not(s) == s

gdb_continue(s) == [s EXCEPT !.run = TRUE]

cpu_single_step(s, cpu, on) == [s EXCEPT !.step[cpu] = on]

\* pts[e][k] counts the entries of the one address in use in e's list of
\* breakpoints (k = "bp") or watchpoints ("wp", not in user emulation):
\* inserting does not look for an entry that is already there.
NoPoints == [e \in Cpus |-> [bp |-> 0, wp |-> 0]]
HasKind(k) == k = "bp" \/ ~UserOnly

gdb_breakpoint_insert(s, k) ==
    IF ~HasKind(k) THEN Answer(s, "", 0)
    ELSE Answer([s EXCEPT !.pts = [e \in Cpus |-> [s.pts[e] EXCEPT ![k] = @ + 1]]], "OK", 0)

\* The loop ends at the first CPU that has no such entry.
gdb_breakpoint_remove(s, k) ==
    LET none == {e \in Cpus : s.pts[e][k] = 0}
        left == [e \in Cpus |-> IF \E f \in none : f <= e THEN s.pts[e]
                                ELSE [s.pts[e] EXCEPT ![k] = @ - 1]]
    IN  IF ~HasKind(k) THEN Answer(s, "", 0)
        ELSE Answer([s EXCEPT !.pts = left], IF none = {} THEN "OK" ELSE "E22", 0)

\* Mutant: only the CPU the debugger controls is cleaned.
gdb_breakpoint_remove_all_current(s) ==
    [s EXCEPT !.pts[s.c] = [bp |-> 0, wp |-> 0]]

gdb_breakpoint_remove_all(s) ==
    [s EXCEPT !.pts = NoPoints]

gdb_set_cpu_pc(s) == [s EXCEPT !.moved = s.c]

\* vCont: the actions are read from left to right and the first one counts,
\* except that a step later in the packet replaces a continue; an action the
\* stub does not know ends the packet with nothing done and no answer.
VContAction(acts) ==
    LET bads == {i \in DOMAIN acts : acts[i].a \notin {"c", "C", "s", "S"}}
        low(i) == IF acts[i].a \in {"s", "S"} THEN "s" ELSE "c"
        steps == {i \in DOMAIN acts : low(i) = "s"}
    IN  IF acts = <<>> \/ bads # {} THEN [a |-> "none", t |-> 0, g |-> 0]
        ELSE LET i == IF steps = {} \/ low(1) = "s" THEN 1
                      ELSE CHOOSE j \in steps : \A k \in steps : j <= k
             IN  [a |-> low(i), t |-> acts[i].t, g |-> acts[i].g]

vCont(s, acts) ==
    LET act == VContAction(acts)
        cpu == IF act.t \in {0, -1} THEN s.c ELSE find_cpu(act.t)
        s1 == [s EXCEPT !.c = cpu, !.signal = act.g]
        s2 == IF act.a = "s" THEN cpu_single_step(s1, cpu, TRUE) ELSE s1
    IN  CASE act.a = "none" -> Silent(s)
          [] act.a # "none" /\ cpu = NoCpu -> Answer(s, "E22", 0)
          [] OTHER -> Silent(gdb_continue(s2))

\* H c/g thread
SetThread(s, which, t) ==
    CASE t \in {0, -1} -> Answer(s, "OK", 0)
      [] t \notin {0, -1} /\ find_cpu(t) = NoCpu -> Answer(s, "E22", 0)
      [] t \in Cpus /\ which = "c" -> Answer([s EXCEPT !.c = t], "OK", 0)
      [] t \in Cpus /\ which = "g" -> Answer([s EXCEPT !.g = t], "OK", 0)
      [] OTHER -> Answer(s, "E22", 0)

\* qfThreadInfo, qsThreadInfo (report_cpuinfo)
ThreadInfo(s) ==
    IF s.query # NoCpu
    THEN Answer([s EXCEPT !.query = IF s.query = NCpu THEN NoCpu ELSE s.query + 1],
                "m", s.query)
    ELSE Answer(s, "l", 0)

\* 'F': the answer to a system call the guest made through the debugger
SyscallDone(s, interrupted) ==
    LET s1 == [s EXCEPT !.cb = "called"]
    IN  IF interrupted THEN Answer(s1, "T02", 0) ELSE Silent(gdb_continue(s1))

\* Registers and memory of the CPU chosen with 'Hg'.  t = 1 is an address
\* that cannot be reached or a register that does not exist: 'P' is not told.
\* 'p' and 'P' are unknown to a debugger that did not ask for the XML.
DataPacket(s, cmd) ==
    CASE cmd.c \in {"p", "P"} /\ ~s.xml -> Answer(s, "", 0)
      [] cmd.c \in {"G", "P"} /\ (cmd.c = "P" => s.xml) -> Answer(s, "OK", 0)
      [] cmd.c \in {"m", "M", "p"} /\ (cmd.c = "p" => s.xml) /\ cmd.t = 1 -> Answer(s, "E14", 0)
      [] cmd.c = "M" /\ cmd.t # 1 -> Answer(s, "OK", 0)
      [] OTHER -> Answer(s, "data", s.g)

\* 'q' and 'Q' packets; what is not known is answered with an empty packet.
\* t = 1 is a monitor command of an odd number of digits, or a description
\* that does not exist.
QueryPacket(s, cmd) ==
    CASE cmd.c = "sstep=" -> Answer([s EXCEPT !.flags = cmd.t], "OK", 0)
      [] cmd.c = "sstep" -> Answer(s, "flags", s.flags)
      [] cmd.c \in {"sstepbits", "qSupported"} -> Answer(s, "info", 0)
      [] cmd.c = "qC" -> Answer(s, "QC1", 0)
      [] cmd.c = "qf" -> ThreadInfo([s EXCEPT !.query = 1])
      [] cmd.c = "qs" -> ThreadInfo(s)
      [] cmd.c = "qThreadExtraInfo" ->
            IF find_cpu(cmd.t) = NoCpu THEN Silent(s) ELSE Answer(s, "info", cmd.t)
      [] cmd.c = "qOffsets" /\ UserOnly -> Answer(s, "info", 0)
      [] cmd.c = "qRcmd" /\ ~UserOnly -> Answer(s, IF cmd.t = 1 THEN "E01" ELSE "OK", 0)
      [] cmd.c = "qXfer" -> Answer([s EXCEPT !.xml = TRUE], IF cmd.t = 1 THEN "E00" ELSE "l", 0)
      [] OTHER -> Answer(s, "", 0)

\* The command of a packet; 'k' ends the process.
gdb_handle_packet(s, cmd) ==
    CASE cmd.c = "?" -> Answer(gdb_breakpoint_remove_all(s), "T", s.c)
      [] cmd.c = "c" -> Silent(gdb_continue([s EXCEPT !.signal = 0]))
      [] cmd.c = "c addr" -> Silent(gdb_continue([gdb_set_cpu_pc(s) EXCEPT !.signal = 0]))
      [] cmd.c = "C" ->
            LET sig == gdb_signal_to_target(cmd.t)
            IN  Silent(gdb_continue([s EXCEPT !.signal = IF sig = -1 THEN 0 ELSE sig]))
      [] cmd.c = "vCont?" -> Answer(s, "vCont;c;C;s;S", 0)
      [] cmd.c = "vCont" -> vCont(s, cmd.acts)
      [] cmd.c = "k" -> Silent([s EXCEPT !.st = "exit"])
      [] cmd.c = "D" ->
            LET s1 == [gdb_breakpoint_remove_all(s) EXCEPT !.sys = "disabled"]
            IN  Answer(gdb_continue(s1), "OK", 0)
      [] cmd.c = "s" -> Silent(gdb_continue(cpu_single_step(s, s.c, TRUE)))
      [] cmd.c = "F" -> SyscallDone(s, cmd.t = 1)
      [] cmd.c \in {"g", "m", "G", "M", "p", "P"} -> DataPacket(s, cmd)
      [] cmd.c = "Z" -> gdb_breakpoint_insert(s, "bp")
      [] cmd.c = "z" -> gdb_breakpoint_remove(s, "bp")
      [] cmd.c = "Zw" -> gdb_breakpoint_insert(s, "wp")
      [] cmd.c = "zw" -> gdb_breakpoint_remove(s, "wp")
      [] cmd.c = "Hc" -> SetThread(s, "c", cmd.t)
      [] cmd.c = "Hg" -> SetThread(s, "g", cmd.t)
      [] cmd.c = "T" -> Answer(s, IF find_cpu(cmd.t) = NoCpu THEN "E22" ELSE "OK", 0)
      [] OTHER -> QueryPacket(s, cmd)

-----------------------------------------------------------------------------
(* The parser *)

\* RS_CHKSUM2: compare the checksum, acknowledge, carry out the command.
\* A body of no command the debugger knows has the number Len(Cmds) + 1 on.
CheckPacket(s, b) ==
    LET s1 == [s EXCEPT !.st = "RS_IDLE"]
        s2 == [s1 EXCEPT !.done = @ + 1]
        h == gdb_handle_packet(s2, Cmds[s.line[1]])
    IN  IF s.csum + fromhex(b) # Sum(s.line) % 256
        THEN [s |-> s1, out |-> <<Char("-")>>]
        ELSE [s |-> h.s, out |-> <<Char("+")>> \o h.out]

\* The states of gdb_read_byte; a body that overruns line_buf is dropped.
ParseByte(s, b) ==
    CASE s.st = "RS_IDLE" ->
            Silent(IF b.k = "$" THEN [s EXCEPT !.line = <<>>, !.st = "RS_GETLINE"] ELSE s)
      [] s.st = "RS_GETLINE" ->
            Silent(CASE b.k = "#" -> [s EXCEPT !.st = "RS_CHKSUM1"]
                     [] b.k # "#" /\ Len(s.line) >= LineMax -> [s EXCEPT !.st = "RS_IDLE"]
                     [] OTHER -> [s EXCEPT !.line = Append(@, b.v)])
      [] s.st = "RS_CHKSUM1" ->
            Silent([s EXCEPT !.csum = fromhex(b) * 16, !.st = "RS_CHKSUM2"])
      [] s.st = "RS_CHKSUM2" -> CheckPacket(s, b)

IsPacket(m) == m.k = "$"
PacketsIn(out) == SelectSeq(out, IsPacket)

\* last_packet is the last packet put
Keep(s, out) ==
    IF PacketsIn(out) = <<>> THEN s ELSE [s EXCEPT !.lastpkt = PacketsIn(out)]

-----------------------------------------------------------------------------
(* User emulation: gdb_handlesig has control while the guest is stopped *)

\* The guest waits in put_packet for the acknowledgement of pkt.
PutAndWait(s, pkt) ==
    /\ stub' = [Keep(s, <<pkt>>) EXCEPT !.st = "RS_IDLE", !.run = FALSE]
    /\ guest' = "stub"
    /\ acking' = TRUE
    /\ toGdb' = Append(toGdb, pkt)
    /\ UNCHANGED <<chunk, toStub, open, gdb, bad>>

\* gdb_handlesig for a CPU that got a signal: stepping ends, the translated
\* code is flushed, the debugger is told; without a debugger the signal goes
\* to the guest unchanged.
gdb_handlesig(e, sig) ==
    /\ UserOnly /\ guest = "runs"
    /\ \/ /\ ~stub.fd
          /\ stub' = [stub EXCEPT !.orig = sig, !.got = sig]
          /\ UNCHANGED <<guest, acking, chunk, toStub, toGdb, open, gdb, bad>>
       \/ /\ stub.fd
          /\ MayAbort(PutAndWait([cpu_single_step(stub, e, FALSE) EXCEPT !.orig = sig, !.got = 0],
                                 Packet("S", target_signal_to_gdb(sig))))

\* put_packet in get_char: the character is taken from the socket, behind
\* whatever chunk still holds; anything but '+' sends the packet again.
\* gdb_do_syscall then goes on to gdb_handlesig with no signal.
get_char ==
    /\ acking /\ toStub # <<>>
    /\ \/ /\ Head(toStub).k # "+"
          /\ toStub' = Tail(toStub)
          /\ toGdb' = toGdb \o stub.lastpkt
          /\ UNCHANGED <<stub, guest, acking, chunk, open, gdb, bad>>
       \/ /\ Head(toStub).k = "+" /\ stub.lastpkt[1].r # "F"
          /\ toStub' = Tail(toStub)
          /\ acking' = FALSE
          /\ UNCHANGED <<stub, guest, chunk, toGdb, open, gdb, bad>>
       \/ /\ Head(toStub).k = "+" /\ stub.lastpkt[1].r = "F"
          /\ MayAbort(/\ toStub' = Tail(toStub)
                      /\ acking' = FALSE
                      /\ stub' = cpu_single_step(stub, stub.c, FALSE)
                      /\ UNCHANGED <<guest, chunk, toGdb, open, gdb, bad>>)

\* recv returns 0 or ECONNRESET: the connection is given up; if this was the
\* stop reply, gdb_handlesig returns the signal.
get_char_eof ==
    /\ acking /\ toStub = <<>> /\ ~open
    /\ acking' = FALSE
    /\ stub' = [stub EXCEPT !.fd = FALSE,
                            !.got = IF stub.lastpkt[1].r = "S" THEN stub.orig ELSE stub.got]
    /\ guest' = IF stub.lastpkt[1].r \in {"S", "F"} THEN "runs" ELSE guest
    /\ UNCHANGED <<chunk, toStub, toGdb, open, gdb, bad>>

\* read: any number of the bytes that have arrived
ReadChunk(n) ==
    /\ UserOnly /\ guest = "stub" /\ ~acking /\ chunk = <<>> /\ ~stub.run
    /\ n \in 1..Len(toStub)
    /\ chunk' = SubSeq(toStub, 1, n)
    /\ toStub' = SubSeq(toStub, n + 1, Len(toStub))
    /\ UNCHANGED <<stub, guest, acking, toGdb, open, gdb, bad>>

\* read returns 0 or an error: gdb_handlesig returns 0, the descriptor stays
ReadEof ==
    /\ UserOnly /\ guest = "stub" /\ ~acking /\ chunk = <<>> /\ ~stub.run
    /\ toStub = <<>> /\ (~open \/ ~stub.fd)
    /\ guest' = "runs"
    /\ stub' = [stub EXCEPT !.got = 0]
    /\ UNCHANGED <<acking, chunk, toStub, toGdb, open, gdb, bad>>

\* gdb_read_byte on the next byte of the chunk
gdb_read_byte ==
    LET p == ParseByte(stub, Head(chunk))
    IN  /\ UserOnly /\ guest = "stub" /\ ~acking /\ chunk # <<>>
        /\ IF p.s.st = "exit" THEN Ended
           ELSE /\ stub' = Keep(p.s, p.out)
                /\ chunk' = Tail(chunk)
                /\ acking' = (PacketsIn(p.out) # <<>>)
                /\ toGdb' = toGdb \o p.out
                /\ UNCHANGED <<guest, toStub, open, gdb, bad>>

\* The loop of gdb_handlesig ends: the guest goes on with s->signal
Resume ==
    /\ UserOnly /\ guest = "stub" /\ ~acking /\ chunk = <<>> /\ stub.run
    /\ guest' = "runs"
    /\ stub' = [stub EXCEPT !.got = stub.signal, !.signal = 0]
    /\ UNCHANGED <<acking, chunk, toStub, toGdb, open, gdb, bad>>

\* The guest process ends: gdb_exit, gdb_signalled
gdb_exit ==
    /\ UserOnly /\ guest = "runs" /\ stub.fd
    /\ guest' = "dead"
    /\ stub' = Keep(stub, <<Packet("W", 0)>>)
    /\ acking' = TRUE
    /\ toGdb' = Append(toGdb, Packet("W", 0))
    /\ UNCHANGED <<chunk, toStub, open, gdb, bad>>

-----------------------------------------------------------------------------
(* System emulation: bytes arrive at any time, packets wait for no one *)

\* gdb_vm_state_change: the machine has stopped; hit says whether the CPU
\* the debugger controls hit a watchpoint
StopReply(s, reason, hit) ==
    IF s.st = "RS_SYSCALL" THEN Silent(s)
    ELSE Answer(cpu_single_step(s, s.c, FALSE), IF hit THEN "Twatch" ELSE "T",
                IF reason = "EXCP_DEBUG" THEN GDB_SIGNAL_TRAP ELSE GDB_SIGNAL_INT)

Put(h) ==
    /\ stub' = [Keep(h.s, h.out) EXCEPT !.run = FALSE,
                                        !.unacked = @ \/ PacketsIn(h.out) # <<>>]
    /\ toGdb' = toGdb \o h.out

\* gdb_read_byte: the acknowledgement of the last packet comes first ('$'
\* stands for one that was lost), a byte stops a running machine.
gdb_chr_receive ==
    LET b == Head(toStub)
        s1 == [stub EXCEPT !.unacked = @ /\ b.k \notin {"+", "$"}]
        p == ParseByte(s1, b)
        waits == stub.unacked /\ b.k # "$"
    IN  /\ ~UserOnly /\ guest # "dead" /\ toStub # <<>>
        /\ \/ /\ waits
              /\ stub' = s1
              /\ toGdb' = IF b.k = "-" THEN toGdb \o stub.lastpkt ELSE toGdb
              /\ toStub' = Tail(toStub)
              /\ UNCHANGED <<guest, acking, chunk, open, gdb, bad>>
           \/ /\ ~waits /\ guest = "runs"
              /\ Put(StopReply(s1, "EXCP_INTERRUPT", FALSE))
              /\ guest' = "stub"
              /\ toStub' = Tail(toStub)
              /\ UNCHANGED <<acking, chunk, open, gdb, bad>>
           \/ /\ ~waits /\ guest = "stub" /\ p.s.st # "exit"
              /\ Put(p)
              /\ guest' = IF p.s.run THEN "runs" ELSE guest
              /\ toStub' = Tail(toStub)
              /\ UNCHANGED <<acking, chunk, open, gdb, bad>>
           \/ /\ ~waits /\ guest = "stub" /\ p.s.st = "exit"
              /\ Ended

\* The machine stops in the CPU that runs
Stopped(h) ==
    /\ Put(h)
    /\ guest' = "stub"
    /\ UNCHANGED <<acking, chunk, toStub, open, gdb, bad>>

\* A CPU hits a breakpoint or a watchpoint or ends a step: gdb_set_stop_cpu,
\* vm_stop; only for a watchpoint the translated code is not flushed.
DebugStop(e) ==
    LET s == [stub EXCEPT !.c = e, !.g = e]
    IN  /\ ~UserOnly /\ guest = "runs"
        /\ \/ /\ stub.pts[e].wp > 0
              /\ Stopped(StopReply(s, "EXCP_DEBUG", TRUE))
           \/ /\ stub.step[e] \/ stub.pts[e].bp > 0
              /\ MayAbort(Stopped(StopReply(s, "EXCP_DEBUG", FALSE)))

\* gdb_do_syscall: user emulation puts a packet 'F' and calls gdb_handlesig
\* with no signal (get_char); system emulation stops the machine without a
\* stop reply, puts the packet and calls cpu_exit.
gdb_do_syscall ==
    LET s1 == [stub EXCEPT !.cb = "set"]
        off == StopReply([s1 EXCEPT !.st = "RS_SYSCALL"], "EXCP_DEBUG", FALSE)
    IN  /\ guest = "runs" /\ stub.fd /\ stub.sys = "enabled"
        /\ \/ /\ UserOnly
              /\ PutAndWait([s1 EXCEPT !.orig = 0, !.got = 0], Packet("F", 0))
           \/ /\ ~UserOnly
              /\ MayAbort(Stopped(Answer([off.s EXCEPT !.st = "RS_IDLE"], "F", 0)))

-----------------------------------------------------------------------------
(* The debugger and the line *)

Resumes == {"c", "c addr", "C", "s", "vCont", "F"}
SendBytes(bs) == toStub' = toStub \o bs
Ack == <<Byte("+", 0)>>

\* The debugger sends a command; it passes on a signal it was told of
Send(i) ==
    LET cmd == Cmds[i]
    IN  /\ gdb.st = "stopped" /\ open /\ gdb.n < MaxReq
        /\ cmd.c = "C" => cmd.t = gdb.told
        /\ cmd.c = "vCont" => \A k \in DOMAIN cmd.acts : cmd.acts[k].g \in {0, gdb.told}
        /\ cmd.c = "F" <=> gdb.fio
        /\ cmd.c = "qs" => gdb.listing
        /\ SendBytes(Framed(<<i>>))
        /\ gdb' = [gdb EXCEPT !.st = "wantack", !.req = i, !.n = @ + 1, !.fio = FALSE,
                              !.base = stub.done,
                              !.seen = IF cmd.c = "qf" THEN <<>> ELSE @]
        /\ UNCHANGED <<stub, guest, acking, chunk, toGdb, open, bad>>

Quiet == toStub = <<>> /\ toGdb = <<>> /\ chunk = <<>> /\ ~acking

\* No acknowledgement in time: send the packet again
Timeout ==
    /\ gdb.st = "wantack" /\ open /\ Quiet
    /\ SendBytes(Framed(<<gdb.req>>))
    /\ UNCHANGED <<stub, guest, acking, chunk, toGdb, open, gdb, bad>>

RecvAck ==
    /\ toGdb # <<>> /\ Head(toGdb).k = "+" /\ open
    /\ toGdb' = Tail(toGdb)
    /\ gdb' = IF gdb.st # "wantack" THEN gdb
              ELSE [gdb EXCEPT !.st = IF Cmds[gdb.req].c \in Resumes THEN "running"
                                      ELSE "wantreply"]
    /\ UNCHANGED <<stub, guest, acking, chunk, toStub, open, bad>>

RecvNack ==
    /\ toGdb # <<>> /\ Head(toGdb).k = "-" /\ open
    /\ toGdb' = Tail(toGdb)
    /\ SendBytes(IF gdb.st = "wantack" THEN Framed(<<gdb.req>>) ELSE <<>>)
    /\ UNCHANGED <<stub, guest, acking, chunk, open, gdb, bad>>

\* What the debugger knows after a packet it was waiting for
Accept(m) ==
    [gdb EXCEPT
        !.st = IF m.r = "W" \/ (gdb.st = "wantreply" /\ Cmds[gdb.req].c = "D")
               THEN "gone" ELSE "stopped",
        !.told = IF m.r = "S" THEN m.a ELSE @,
        !.fio = (m.r = "F"),
        !.listing = (m.r = "m"),
        !.seen = IF m.r = "m" THEN Append(@, m.a) ELSE @,
        !.accepted = IF gdb.st = "wantreply" THEN m.for ELSE @]

\* A packet: a damaged one is asked for again, one that nobody waits for is
\* acknowledged and dropped.
RecvPacket ==
    LET m == Head(toGdb)
    IN  /\ toGdb # <<>> /\ IsPacket(m) /\ open
        /\ toGdb' = Tail(toGdb)
        /\ SendBytes(IF m.ok THEN Ack ELSE <<Byte("-", 0)>>)
        /\ gdb' = IF m.ok /\ gdb.st \in {"wantreply", "running"} THEN Accept(m) ELSE gdb
        /\ UNCHANGED <<stub, guest, acking, chunk, open, bad>>

\* The user interrupts the program
Interrupt ==
    /\ gdb.st = "running" /\ ~gdb.intr /\ open
    /\ SendBytes(<<Byte("^C", 0)>>)
    /\ gdb' = [gdb EXCEPT !.intr = TRUE]
    /\ UNCHANGED <<stub, guest, acking, chunk, toGdb, open, bad>>

\* The debugger goes away
Close ==
    /\ open /\ UserOnly
    /\ open' = FALSE
    /\ UNCHANGED <<stub, guest, acking, chunk, toStub, toGdb, gdb, bad>>

\* The line damages the next byte to the stub, or the next packet to gdb, or
\* loses the acknowledgement in front of it (gdb skips what is not one).
Damage ==
    /\ bad < MaxBad
    /\ bad' = bad + 1
    /\ \/ /\ toStub # <<>>
          /\ toStub' = <<Data(15)>> \o Tail(toStub)
          /\ UNCHANGED <<toGdb, gdb>>
       \/ /\ toGdb # <<>> /\ IsPacket(Head(toGdb)) /\ Head(toGdb).ok
          /\ toGdb' = <<[Head(toGdb) EXCEPT !.ok = FALSE]>> \o Tail(toGdb)
          /\ UNCHANGED <<toStub, gdb>>
       \/ /\ toGdb # <<>> /\ ~IsPacket(Head(toGdb))
          /\ toGdb' = Tail(toGdb)
          /\ gdb' = [gdb EXCEPT !.lost = IF Head(toGdb).k = "+" THEN @ + 1 ELSE @]
          /\ UNCHANGED toStub
    /\ UNCHANGED <<stub, guest, acking, chunk, open>>

-----------------------------------------------------------------------------

Init ==
    /\ stub = [c |-> 1, g |-> 1, query |-> NoCpu, st |-> "RS_IDLE", line |-> <<>>,
               csum |-> 0, signal |-> 0, run |-> FALSE, fd |-> TRUE, xml |-> FALSE,
               sys |-> "enabled", cb |-> "none", flags |-> 7, moved |-> 0,
               step |-> [e \in Cpus |-> FALSE], pts |-> NoPoints,
               lastpkt |-> <<>>, unacked |-> FALSE, done |-> 0, orig |-> 0, got |-> 0]
    /\ guest = "runs" /\ acking = FALSE /\ chunk = <<>>
    /\ toStub = <<>> /\ toGdb = <<>> /\ open = TRUE /\ bad = 0
    /\ gdb = [st |-> "running", req |-> 0, n |-> 0, told |-> 0, fio |-> FALSE,
              listing |-> FALSE, seen |-> <<>>, accepted |-> 0, intr |-> FALSE,
              base |-> 0, lost |-> 0]

StubStep ==
    \/ get_char \/ get_char_eof \/ ReadEof \/ gdb_read_byte \/ Resume
    \/ \E n \in 1..5 : ReadChunk(n)
    \/ gdb_chr_receive

GdbRecv == RecvAck \/ RecvNack \/ RecvPacket

Next ==
    \/ StubStep
    \/ \E e \in Cpus, sig \in Sigs : gdb_handlesig(e, sig)
    \/ \E e \in Cpus : DebugStop(e)
    \/ gdb_do_syscall \/ gdb_exit
    \/ \E i \in DOMAIN Cmds : Send(i)
    \/ Timeout \/ GdbRecv \/ Interrupt \/ Close \/ Damage

Spec == Init /\ [][Next]_vars

\* The stub runs while it has something to do, the debugger reads what
\* arrives and repeats a packet nobody acknowledges.
Fairness ==
    /\ WF_vars(StubStep)
    /\ WF_vars(GdbRecv)
    /\ WF_vars(Timeout)

FairSpec == Spec /\ Fairness

-----------------------------------------------------------------------------
(* Properties *)

\* The types of the variables.
TypeOK ==
    /\ stub.c \in Cpus /\ stub.g \in Cpus /\ stub.query \in Cpus \cup {NoCpu}
    /\ stub.st \in {"RS_IDLE", "RS_GETLINE", "RS_CHKSUM1", "RS_CHKSUM2"}
    /\ Len(stub.line) <= LineMax
    /\ stub.pts \in [Cpus -> [bp : 0 .. MaxReq + MaxBad, wp : 0 .. MaxReq + MaxBad]]
    /\ guest \in {"runs", "stub", "dead"}
    /\ gdb.st \in {"stopped", "wantack", "wantreply", "running", "gone"}

\* A command is carried out at most once for every request of the debugger:
\* neither a damaged packet nor a repeated reply runs a command.  The stub
\* does not recognise a packet it has had, so a request whose acknowledgement
\* the line loses, and only such a one, is carried out again.
EachRequestOnce ==
    stub.done <= gdb.n + gdb.lost

\* The reply the debugger takes for the answer to its request was made for that
\* request, not for one before it, though replies are repeated, requests are
\* repeated and acknowledgements are lost.
ReplyIsForRequest ==
    gdb.st \in {"stopped", "gone"} /\ gdb.req # 0 /\ Cmds[gdb.req].c \notin Resumes
        => gdb.accepted > gdb.base

\* A signal the debugger passes on is the signal the guest was stopped by:
\* the number shown to the debugger and the one it hands back are translated
\* there and back.
SignalPassedOn ==
    /\ stub.got \in {0, stub.orig}
    /\ guest = "runs" /\ open /\ gdb.st = "running" /\ gdb.req # 0 /\ stub.done = gdb.n
            /\ Cmds[gdb.req].c = "C"
        => stub.got = stub.orig

\* Every CPU has the same breakpoints and watchpoints of the debugger.
BreakpointsAgree ==
    \A e, f \in Cpus : stub.pts[e] = stub.pts[f]

\* A listing that ran to its end ('l') named every CPU once, in order, unless
\* a part of it was asked for twice.
ThreadListComplete ==
    gdb.st = "stopped" /\ gdb.req # 0 /\ Cmds[gdb.req].c \in {"qf", "qs"}
        /\ ~gdb.listing /\ gdb.seen # <<>> /\ gdb.lost = 0
    => gdb.seen = [i \in 1..NCpu |-> i]

\* A guest the debugger has let go keeps none of its breakpoints.
DetachRemovesBreakpoints ==
    gdb.st = "gone" /\ guest = "runs" => stub.pts = NoPoints

\* When the debugger continues the guest with 'c', no CPU is left in single
\* step from an earlier command.
ContinueStepsNobody ==
    guest = "runs" /\ gdb.req # 0 /\ Cmds[gdb.req].c = "c" /\ gdb.st = "running"
        /\ stub.done > gdb.base
    => \A e \in Cpus : ~stub.step[e]

\* Every request is acknowledged and answered in the end.
RequestsAnswered ==
    (gdb.st \in {"wantack", "wantreply"}) ~>
        (gdb.st \notin {"wantack", "wantreply"} \/ ~open)

\* A debugger that believes the guest runs is right in the end, or is told.
BelievedRunning ==
    (gdb.st = "running") ~> (guest # "stub" \/ gdb.st # "running" \/ ~open)

\* A guest stopped in the stub whose debugger has gone away goes on.
GuestNotStuck ==
    (guest = "stub" /\ ~open /\ UserOnly) ~> (guest # "stub")

=============================================================================
