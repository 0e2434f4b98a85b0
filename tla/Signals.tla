------------------------------ MODULE Signals ------------------------------
(***************************************************************************)
(* Signals of the guest (linux-user/signal.c): the host's dispositions kept  *)
(* in step with the guest's, the host handler that queues a signal, the      *)
(* queues of emulated signals with their pool of entries, and                *)
(* process_pending_signals, which the CPU loop calls between blocks.         *)
(*                                                                         *)
(* Signals are numbered in the order the table is scanned.  Frames are       *)
(* reduced to the mask they save; SigFrame models them.  Host handlers run   *)
(* with every signal blocked, and are one step here.  They may interrupt     *)
(* process_pending_signals between its steps: nothing is locked or blocked   *)
(* there.  raced remembers that one of them queued a signal inside it.      *)
(***************************************************************************)
EXTENDS Integers, Sequences, FiniteSets, SequencesExt

CONSTANTS
  NSig,             \* signals 1 .. NSig
  Class,            \* signal -> "term", "ign", "stop", "rt" or "fault"
  MaxQueue,         \* MAX_SIGQUEUE_SIZE
  MaxSend,          \* bound: signals sent
  MaxNest,          \* bound: handlers active at once
  MaxAct,           \* bound: calls of do_sigaction
  CpuExitAborts,    \* what cpu_exit may do: TRUE is abort(), as in exec.c; FALSE is
                    \* what its callers are written for, to return
  QueueGarbage      \* values the uninitialised variable queue may have

ASSUME SignalsAssumption ==
  /\ {NSig, MaxQueue} \subseteq Nat \ {0} /\ {MaxSend, MaxNest, MaxAct} \subseteq Nat
  /\ Class \in [1 .. NSig -> {"term", "ign", "stop", "rt", "fault"}]
  /\ CpuExitAborts \subseteq BOOLEAN /\ QueueGarbage \subseteq BOOLEAN

Sigs == 1 .. NSig
RtSigs == {s \in Sigs : Class[s] = "rt"}
Slots == 1 .. MaxQueue
INFO == 0                       \* the entry inside struct emulated_sigtable

VARIABLES
  sigact,           \* sigact_table: signal -> [handler, nodefer, resethand, mask]
  host,             \* the host's disposition: signal -> "DFL", "IGN" or "handler"
  blocked,          \* the host's signal mask
  kpending,         \* signals the kernel holds: set of [sig, info]
  sigtab,           \* signal -> [pending, first], first a list of [slot, info]
  first_free,       \* free entries of sigqueue_table
  signal_pending,   \* ts->signal_pending
  frames,           \* masks saved by the handlers that are active
  at,               \* where the CPU loop is: "loop", or in process_pending_signals
                    \* before "clear", "take" or "deliver"
  held,             \* k and q there: [sig, slot]
  raced,            \* history: a signal was queued inside process_pending_signals
  life,             \* "run", "stopped", "killed" or "aborted"
  sent, acts,       \* counters
  accepted,         \* history: signal -> infos queued for the guest
  delivered         \* history: signal -> infos taken from the queue for the guest

guest == <<sigact, frames, at, held>>
queues == <<sigtab, first_free, signal_pending, accepted, raced>>
vars == <<sigact, host, blocked, kpending, sigtab, first_free, signal_pending, frames, at, held,
          raced, life, sent, acts, accepted, delivered>>

Nobody == [sig |-> 1, slot |-> INFO]

DefaultAct == [handler |-> "DFL", nodefer |-> FALSE, resethand |-> FALSE, mask |-> {}]

\* Killed unless handled: trapped from the start (RT signals too).
fatal_signal(s) == Class[s] \in {"term", "rt", "fault"}

\* signal_init: what the program was started with, trapped where it is fatal.
Init ==
  \E inherited \in [Sigs -> {"DFL", "IGN"}] :
    /\ sigact = [s \in Sigs |-> [DefaultAct EXCEPT !.handler = inherited[s]]]
    /\ host = [s \in Sigs |-> IF fatal_signal(s) THEN "handler" ELSE inherited[s]]
    /\ blocked = {}
    /\ kpending = {}
    /\ sigtab = [s \in Sigs |-> [pending |-> FALSE, first |-> <<>>]]
    /\ first_free = [i \in Slots |-> i]                      \* init_task_state
    /\ signal_pending = FALSE
    /\ frames = <<>>
    /\ at = "loop" /\ held = Nobody /\ raced = FALSE
    /\ life = "run"
    /\ sent = 0 /\ acts = 0
    /\ accepted = [s \in Sigs |-> <<>>]
    /\ delivered = [s \in Sigs |-> <<>>]

(***************************************************************************)
(* The kernel                                                              *)
(***************************************************************************)

\* A signal is sent: one that is not real-time is kept once.
Send(s) ==
  /\ life \in {"run", "stopped"} /\ sent < MaxSend
  /\ sent' = sent + 1
  /\ kpending' = IF s \notin RtSigs /\ \E e \in kpending : e.sig = s THEN kpending
                 ELSE kpending \cup {[sig |-> s, info |-> sent + 1]}
  /\ UNCHANGED <<guest, host, blocked, queues, life, acts, delivered>>

Deliverable(e) == e.sig \notin blocked /\ life = "run"

\* SIGCONT and the like from outside.
Continue ==
  /\ life = "stopped"
  /\ life' = "run"
  /\ UNCHANGED <<guest, host, blocked, kpending, queues, sent, acts, delivered>>

KernelDefault(s) == CASE Class[s] = "stop" -> "stopped" [] Class[s] = "ign" -> life [] OTHER -> "killed"

KernelActs(e) ==
  /\ Deliverable(e) /\ host[e.sig] # "handler"
  /\ kpending' = kpending \ {e}
  /\ life' = IF host[e.sig] = "IGN" THEN life ELSE KernelDefault(e.sig)
  /\ UNCHANGED <<guest, host, blocked, queues, sent, acts, delivered>>

(***************************************************************************)
(* host_signal_handler                                                     *)
(***************************************************************************)

\* The entry for a new signal: its own for the first one, one of the pool for
\* more of a real-time signal; none when it is merged (0) or refused (EAGAIN).
Entry(s) ==
  IF ~ sigtab[s].pending THEN {INFO}
  ELSE IF s \in RtSigs /\ first_free # <<>> THEN {Head(first_free)}         \* alloc_sigqueue
  ELSE {}

Enqueue(s, info, slot) ==
  /\ sigtab' = [sigtab EXCEPT ![s] = [pending |-> TRUE, first |-> Append(@.first, [slot |-> slot, info |-> info])]]
  /\ first_free' = IF slot = INFO THEN first_free ELSE Tail(first_free)
  /\ signal_pending' = TRUE
  /\ accepted' = [accepted EXCEPT ![s] = Append(@, info)]
  /\ raced' = (raced \/ at # "loop")

\* cpu_exit, called once a signal has been queued
cpu_exit == \E aborts \in CpuExitAborts : life' = IF aborts THEN "aborted" ELSE life

\* queue_signal.  With queue set, every signal is queued, as for a debugger.
queue_signal(s, info, queue) ==
  LET handler == sigact[s].handler
  IN  \/ /\ ~ queue /\ handler = "DFL" /\ Class[s] = "stop"      \* kill(getpid(), SIGSTOP)
         /\ life' = "stopped" /\ UNCHANGED queues
      \/ /\ ~ queue
         /\ handler = "ERR" \/ (handler = "DFL" /\ Class[s] \notin {"stop", "ign"})
         /\ life' = "killed" /\ UNCHANGED queues                 \* force_sig
      \/ /\ ~ queue
         /\ handler = "IGN" \/ (handler = "DFL" /\ Class[s] = "ign")
         /\ UNCHANGED <<life, queues>>
      \/ /\ queue \/ handler = "fn"
         /\ \/ /\ Entry(s) = {}
               /\ UNCHANGED <<life, queues>>
            \/ \E slot \in Entry(s) : Enqueue(s, info, slot) /\ cpu_exit

\* A fault of the translated code goes to cpu_signal_handler, which aborts.
host_signal_handler(e) ==
  /\ Deliverable(e) /\ host[e.sig] = "handler"
  /\ kpending' = kpending \ {e}
  /\ \/ \E queue \in QueueGarbage : queue_signal(e.sig, e.info, queue)
     \/ Class[e.sig] = "fault" /\ life' = "aborted" /\ UNCHANGED queues
  /\ UNCHANGED <<guest, host, blocked, sent, acts, delivered>>

(***************************************************************************)
(* The guest's calls                                                       *)
(***************************************************************************)

\* The host's disposition for what the guest asks.
HostDisposition(s, handler) ==
  CASE Class[s] = "fault" -> host[s]
    [] handler = "IGN" /\ Class[s] # "fault" -> "IGN"
    [] handler = "DFL" /\ ~ fatal_signal(s) -> "DFL"
    [] OTHER -> "handler"

do_sigaction(s, act) ==
  /\ life = "run" /\ at = "loop" /\ acts < MaxAct
  /\ acts' = acts + 1
  /\ sigact' = [sigact EXCEPT ![s] = act]
  /\ host' = [host EXCEPT ![s] = HostDisposition(s, act.handler)]
  \* setting a signal to be ignored discards what the kernel holds of it
  /\ kpending' = IF host'[s] = "IGN" \/ (host'[s] = "DFL" /\ Class[s] = "ign")
                 THEN {e \in kpending : e.sig # s} ELSE kpending
  /\ UNCHANGED <<blocked, queues, frames, at, held, life, sent, delivered>>

(***************************************************************************)
(* process_pending_signals                                                 *)
(***************************************************************************)

Pending == {s \in Sigs : sigtab[s].pending}
LowestPending(s) == s \in Pending /\ \A t \in Pending : s <= t

\* The scan for the first pending signal.
Scan ==
  /\ life = "run" /\ at = "loop" /\ signal_pending
  /\ \/ at' = "clear" /\ Pending = {} /\ UNCHANGED held
     \/ at' = "take" /\ \E s \in Sigs : LowestPending(s) /\ held' = [Nobody EXCEPT !.sig = s]
  /\ UNCHANGED <<sigact, host, blocked, kpending, queues, frames, life, sent, acts, delivered>>

\* Nothing was pending when the scan looked: signal_pending = 0.
ClearPending ==
  /\ life = "run" /\ at = "clear"
  /\ at' = "loop"
  /\ signal_pending' = FALSE
  /\ UNCHANGED <<sigact, host, blocked, kpending, sigtab, first_free, frames, held, raced, life,
                 sent, acts, accepted, delivered>>

\* Mutant: the newest entry is taken.
Dequeue_last ==
  LET s == held.sig
      q == Last(sigtab[s].first)
      rest == Front(sigtab[s].first)
  IN  /\ life = "run" /\ at = "take"
      /\ at' = "deliver"
      /\ held' = [held EXCEPT !.slot = q.slot]
      /\ sigtab' = [sigtab EXCEPT ![s] = [pending |-> rest # <<>>, first |-> rest]]
      /\ delivered' = [delivered EXCEPT ![s] = Append(@, q.info)]
      /\ UNCHANGED <<sigact, host, blocked, kpending, first_free, signal_pending, frames, raced,
                     life, sent, acts, accepted>>

\* The first entry leaves the list.
Dequeue ==
  LET s == held.sig
      q == Head(sigtab[s].first)
      rest == Tail(sigtab[s].first)
  IN  /\ life = "run" /\ at = "take"
      /\ at' = "deliver"
      /\ held' = [held EXCEPT !.slot = q.slot]
      /\ sigtab' = [sigtab EXCEPT ![s] = [pending |-> rest # <<>>, first |-> rest]]
      /\ delivered' = [delivered EXCEPT ![s] = Append(@, q.info)]
      /\ UNCHANGED <<sigact, host, blocked, kpending, first_free, signal_pending, frames, raced,
                     life, sent, acts, accepted>>

\* The mask that the frame restores.
SavedMask(s) == blocked

\* The handler is entered with its mask, and with its own signal blocked unless
\* SA_NODEFER; SA_RESETHAND forgets it.
EnterHandler(s) ==
  /\ Len(frames) < MaxNest
  /\ frames' = Append(frames, SavedMask(s))
  /\ blocked' = blocked \cup sigact[s].mask \cup (IF sigact[s].nodefer THEN {} ELSE {s})
  /\ sigact' = IF sigact[s].resethand THEN [sigact EXCEPT ![s].handler = "DFL"] ELSE sigact
  /\ UNCHANGED life

\* The signal is acted on, and free_sigqueue takes its entry back if it is of the pool.
Deliver ==
  LET s == held.sig
      handler == sigact[s].handler
  IN  /\ life = "run" /\ at = "deliver"
      /\ at' = "loop" /\ held' = Nobody
      /\ \/ handler = "fn" /\ EnterHandler(s)
         \/ /\ handler # "fn"
            /\ life' = CASE handler = "DFL" /\ Class[s] = "stop" -> "stopped"
                         [] handler = "IGN" \/ (handler = "DFL" /\ Class[s] = "ign") -> life
                         [] OTHER -> "killed"
            /\ UNCHANGED <<sigact, blocked, frames>>
      /\ first_free' = IF held.slot = INFO THEN first_free ELSE <<held.slot>> \o first_free
      /\ UNCHANGED <<host, kpending, sigtab, signal_pending, raced, sent, acts, accepted, delivered>>

process_pending_signals == Scan \/ ClearPending \/ Dequeue \/ Deliver

\* The handler returns through the trampoline.
do_sigreturn ==
  /\ life = "run" /\ at = "loop" /\ frames # <<>>
  /\ blocked' = Last(frames)
  /\ frames' = Front(frames)
  /\ UNCHANGED <<sigact, host, kpending, queues, at, held, life, sent, acts, delivered>>

Acts == [handler : {"DFL", "IGN", "ERR", "fn"}, nodefer : BOOLEAN, resethand : BOOLEAN, mask : {{}, {NSig}}]
UsefulActs == {a \in Acts : a.handler # "fn" => a = [DefaultAct EXCEPT !.handler = a.handler]}

Kernel == Continue \/ (\E s \in Sigs : Send(s)) \/ (\E e \in kpending : KernelActs(e))
HostHandler == \E e \in kpending : host_signal_handler(e)
GuestCall == do_sigreturn \/ \E s \in Sigs, act \in UsefulActs : do_sigaction(s, act)

Next == Kernel \/ HostHandler \/ GuestCall \/ process_pending_signals

Spec == Init /\ [][Next]_vars

(***************************************************************************)
(* Properties                                                              *)
(***************************************************************************)

\* The entries of the pool that are in a list, and the one that was taken last.
Listed(slot) == \E s \in Sigs : \E i \in DOMAIN sigtab[s].first : sigtab[s].first[i].slot = slot
UsedSlots == {slot \in Slots : Listed(slot) \/ held.slot = slot}

\* pending says whether the list is empty; each entry of the pool is free, in
\* one list, once, or just being delivered; a signal that is not real-time is queued once; the entry in
\* the table is in use only at the head, so it is never overwritten.
QueuesWellFormed ==
  /\ \A s \in Sigs : /\ sigtab[s].pending = (sigtab[s].first # <<>>)
                     /\ s \notin RtSigs => Len(sigtab[s].first) <= 1
                     /\ \A i \in DOMAIN sigtab[s].first : sigtab[s].first[i].slot = INFO => i = 1
  /\ ToSet(first_free) \cap UsedSlots = {} /\ ToSet(first_free) \cup UsedSlots = Slots
  /\ IsInjective(first_free)
  /\ \A s, t \in Sigs : \A i \in DOMAIN sigtab[s].first, j \in DOMAIN sigtab[t].first :
        sigtab[s].first[i].slot = sigtab[t].first[j].slot /\ sigtab[s].first[i].slot # INFO =>
          s = t /\ i = j
  /\ held.slot # INFO => ~ Listed(held.slot)

Queued(s) == [i \in DOMAIN sigtab[s].first |-> sigtab[s].first[i].info]

\* What has been queued is what was delivered and what waits, in this order.
NothingLost == \A s \in Sigs : accepted[s] = delivered[s] \o Queued(s)

\* Whenever a signal is queued the CPU loop is told to look.
QueuedIsNoticed == Pending # {} => signal_pending

\* When every handler has returned the guest has the signal mask it started with.
MaskRestored == frames = <<>> => blocked = {}

\* As long as no host signal was queued between two steps of process_pending_signals,
\* what the host's handler has queued is delivered exactly once and in the order it
\* arrived, from queues that share no entry of the pool, and the CPU loop knows of it.
\* (A signal queued between the scan and signal_pending = 0 waits unnoticed.)  And the
\* signal mask is what it was when all handlers have returned, come what may.
DeliveredInOrder == MaskRestored /\ (~ raced => NothingLost /\ QueuesWellFormed /\ QueuedIsNoticed)

\* A signal that the guest has a handler for "interrupt[s] the virtual CPU as soon as
\* possible" (linux-user/signal.c:506), and does not end the emulator.
SignalInterruptsGuest ==
  [][\A e \in kpending \ kpending' :
       sigact[e.sig].handler = "fn" /\ Class[e.sig] # "fault" => life' # "aborted"]_vars
=============================================================================
