----------------------------- MODULE MCSignals -----------------------------
(***************************************************************************)
(* Signals, model checked: the queues between the host's handler and the     *)
(* guest's (Signals) and the frames of the guest's handlers (SigFrame).     *)
(* The state of the two is disjoint: an initial state chooses the one that   *)
(* runs, and the other stays in an initial state of its own.                *)
(***************************************************************************)
EXTENDS Signals

VARIABLES
  runs,                                                   \* the component that runs
  target, env, mask, alt, mem, f_life, saved              \* of Frames

fvars == <<target, env, mask, alt, mem, f_life, saved>>
allvars == <<runs, vars, fvars>>

\* A signal that stops the process and a real-time one.
MCClass == <<"stop", "rt">>

(***************************************************************************)
(* The processors, by what their frames support.  Those of Full have         *)
(* everything.  The frames of Plain are used without SA_SIGINFO, because     *)
(* rt frames are missing (sparc, microblaze, cris) or lose the mask (m68k)   *)
(* or the alternate stack (arm_v2).  PowerPC tests SA_ONSTACK the wrong way  *)
(* round and Alpha has no trampoline of its own: Restored uses a restorer    *)
(* and the normal stack.                                                    *)
(***************************************************************************)

Full == {"i386", "arm_v1", "mips", "sh4"}
Plain == {"arm_v2", "sparc", "microblaze", "cris", "m68k"}
Restored == {"ppc", "alpha"}

HandlersOf(t) ==
  {h \in [siginfo : BOOLEAN, onstack : BOOLEAN, restorer : BOOLEAN] :
     /\ t \in Plain => ~ h.siginfo
     /\ t \in Restored => h.restorer
     /\ t = "mips" => ~ h.restorer
     /\ h.restorer => ~ h.onstack}

NoAlt == [sp |-> 0, size |-> 0]
Alt == [sp |-> 4, size |-> 24]
OtherStruct == [sp |-> 12, size |-> 16, flags |-> "onstack"]
OffStruct == [sp |-> 4, size |-> 24, flags |-> "disable"]
SmallStruct == [sp |-> 4, size |-> 8, flags |-> "none"]
BadStruct == [sp |-> 4, size |-> 24, flags |-> "bad"]

AltCallsOf(t) ==
  CASE t \in {"i386", "sh4"} -> {OtherStruct, OffStruct}
    [] t \in {"arm_v1", "mips"} -> {OffStruct}
    [] t \in Plain -> {OtherStruct}
    [] t \in Restored -> {OtherStruct, OffStruct, SmallStruct, BadStruct}

\* Four signals in two words, the last two swapped as SIGRTMIN and SIGRTMAX are.
Frames == INSTANCE SigFrame WITH
  Targets <- Full \cup Plain \cup Restored,
  Handlers <- [t \in Full \cup Plain \cup Restored |-> HandlersOf(t)],
  StartAlt <- [t \in Full \cup Plain \cup Restored |-> IF t \in Restored THEN NoAlt ELSE Alt],
  AltCalls <- [t \in Full \cup Plain \cup Restored |-> AltCallsOf(t)],
  Masks <- {{}, {2, 3}},
  Low <- 40, High <- 120, AltLow <- 2, AltHigh <- 30,
  FrameSize <- 5, RtFrameSize <- 8, MinSigStkSz <- 12,
  Nsig <- 4, Bpw <- 2, HostToTarget <- <<1, 2, 4, 3>>, MaxDepth <- 2,
  life <- f_life

ASSUME FramesAssumption == Frames!SigFrameAssumption

MCInit ==
  /\ runs \in {"Queues", "Frames"}
  /\ Init /\ Frames!Init
  /\ mask = {2, 3}
  /\ runs = "Queues" => target = "i386"
  /\ runs = "Frames" => \A s \in DOMAIN sigact : sigact[s].handler = "DFL"

MCNext ==
  /\ UNCHANGED runs
  /\ \/ runs = "Queues" /\ Next /\ UNCHANGED fvars
     \/ runs = "Frames" /\ Frames!Next /\ UNCHANGED vars

MCSpec == MCInit /\ [][MCNext]_allvars

\* SigFrame: the frame of an active handler is never overwritten.
FramesIntact == runs = "Frames" => Frames!FramesIntact

\* SigFrame: after a handler the interrupted program goes on where it was, with
\* its registers, its signal mask and its alternate stack.
ContextRestored == Frames!ContextRestored
=============================================================================
