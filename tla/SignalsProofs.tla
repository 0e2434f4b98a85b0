---------------------------- MODULE SignalsProofs ----------------------------
(***************************************************************************)
(* Signals that were queued for the guest are delivered once and in order,  *)
(* for every number of signals, every size of the pool and every assignment *)
(* of classes, whatever the uninitialised variable queue holds, and whether *)
(* cpu_exit returns or aborts, as long as no host signal is queued inside   *)
(* process_pending_signals.  With the cpu_exit of exec.c no signal ever     *)
(* gets from a queue to the guest.                                          *)
(***************************************************************************)
EXTENDS Signals, TLAPS, SequenceTheorems

\* An entry of a queue, and the types of what queues and delivery keep.
Waiting == [slot : {INFO} \cup Slots, info : Nat]

QueueTypes ==
  /\ sigtab \in [Sigs -> [pending : BOOLEAN, first : Seq(Waiting)]]
  /\ first_free \in Seq(Slots)
  /\ accepted \in [Sigs -> Seq(Nat)]
  /\ delivered \in [Sigs -> Seq(Nat)]
  /\ held \in [sig : Sigs, slot : {INFO} \cup Slots]

\* The types of dispositions, masks, frames and of the kernel's side.
TaskTypes ==
  /\ sigact \in [Sigs -> [handler : {"DFL", "IGN", "ERR", "fn"}, nodefer : BOOLEAN,
                          resethand : BOOLEAN, mask : SUBSET Sigs]]
  /\ blocked \in SUBSET Sigs
  /\ frames \in Seq(SUBSET Sigs)
  /\ kpending \in SUBSET [sig : Sigs, info : Nat]
  /\ sent \in Nat

\* Each part needs the others: nothing is lost because queues share no entry, and
\* they share none because the free list holds no entry twice.
QueueSound == QueueTypes /\ NothingLost /\ QueuesWellFormed

\* What process_pending_signals knows between its steps: the signal it chose stays
\* pending until its entry is taken, and only then does it hold an entry.
StepInv == (at = "take" => sigtab[held.sig].pending) /\ (at # "deliver" => held.slot = INFO)

QueueInv == QueueSound /\ StepInv

\* When the scan found nothing, nothing is pending until signal_pending is cleared.
NoticeInv == QueuedIsNoticed /\ (at = "clear" => Pending = {})

\* The oldest frame restores the mask that the guest started with.
MaskInv == IF frames = <<>> THEN blocked = {} ELSE frames[1] = {}

\* The inductive invariant.
IInv == QueueInv /\ TaskTypes /\ MaskInv /\ (~ raced => NoticeInv)

(***************************************************************************)
(* Lists                                                                   *)
(***************************************************************************)

\* A sequence with one element more behind another sequence.
LEMMA AppendBehind ==
  \A d, q \in Seq(Nat) : \A x \in Nat : Append(d \o q, x) = d \o Append(q, x)
<1> PICK S : S = Nat
  OBVIOUS
<1>1. ASSUME NEW d \in Seq(S), NEW q \in Seq(S), NEW x \in S
      PROVE  Append(d \o q, x) = d \o Append(q, x)
  BY ONLY <1>1
<1> QED BY <1>1

\* The first element of a sequence moves to the end of the one before it.
LEMMA HeadMoves ==
  \A d, q \in Seq(Nat) : q # <<>> => d \o q = Append(d, Head(q)) \o Tail(q)
<1> PICK S : S = Nat
  OBVIOUS
<1>1. ASSUME NEW d \in Seq(S), NEW q \in Seq(S), q # <<>>
      PROVE  d \o q = Append(d, Head(q)) \o Tail(q)
  BY ONLY <1>1
<1> QED BY <1>1

\* What Append makes of a sequence.
LEMMA Appended ==
  ASSUME NEW S, NEW l \in Seq(S), NEW e \in S, NEW m, m = Append(l, e)
  PROVE  /\ m \in Seq(S) /\ m # <<>> /\ Len(m) = Len(l) + 1 /\ Len(l) \in Nat
         /\ DOMAIN m = DOMAIN l \cup {Len(l) + 1} /\ Len(l) + 1 \notin DOMAIN l
         /\ \A i \in DOMAIN l : m[i] = l[i]
         /\ m[Len(l) + 1] = e
OBVIOUS

\* What Tail leaves of a sequence.
LEMMA Tailed ==
  ASSUME NEW S, NEW l \in Seq(S), l # <<>>, NEW m, m = Tail(l)
  PROVE  /\ m \in Seq(S) /\ Len(m) = Len(l) - 1 /\ Len(l) \in Nat \ {0} /\ 1 \in DOMAIN l /\ Head(l) = l[1]
         /\ \A i \in DOMAIN m : i \in Int /\ i + 1 \in DOMAIN l /\ m[i] = l[i + 1] /\ i + 1 # 1
         /\ \A i \in DOMAIN l : i \in Int /\ (i # 1 => i - 1 \in DOMAIN m /\ m[i - 1] = l[i])
<1>1. DOMAIN l = 1 .. Len(l) /\ Len(l) \in Nat \ {0}
  BY LenProperties, EmptySeq
<1>2. m \in Seq(S) /\ Len(m) = Len(l) - 1 /\ \A i \in 1 .. Len(m) : m[i] = l[i + 1]
  BY HeadTailProperties
<1>3. DOMAIN m = 1 .. Len(l) - 1
  BY <1>2, LenProperties
<1>4. \A i \in DOMAIN m : i \in Int /\ i + 1 \in DOMAIN l /\ m[i] = l[i + 1] /\ i + 1 # 1
  BY <1>1, <1>2, <1>3
<1>5. ASSUME NEW i \in DOMAIN l, i # 1 PROVE i - 1 \in DOMAIN m /\ m[i - 1] = l[i]
  <2>1. i - 1 \in DOMAIN m /\ (i - 1) + 1 = i
    BY <1>1, <1>3, <1>5
  <2> QED BY <1>4, <2>1
<1>6. Head(l) = l[1]
  OBVIOUS
<1> QED BY <1>1, <1>2, <1>4, <1>5, <1>6

\* An element in front of a sequence.
LEMMA InFront ==
  ASSUME NEW S, NEW l \in Seq(S), NEW e \in S, NEW m, m = <<e>> \o l
  PROVE  /\ m \in Seq(S) /\ 1 \in DOMAIN m /\ m[1] = e
         /\ \A i \in DOMAIN l : i \in Int /\ i + 1 \in DOMAIN m /\ m[i + 1] = l[i]
         /\ \A i \in DOMAIN m : i \in Int /\ (i # 1 => i - 1 \in DOMAIN l /\ l[i - 1] = m[i])
<1>1. <<e>> \in Seq(S) /\ Len(<<e>>) = 1 /\ <<e>>[1] = e
  OBVIOUS
<1>2. /\ m \in Seq(S) /\ Len(m) = 1 + Len(l)
      /\ \A i \in 1 .. 1 + Len(l) : m[i] = IF i <= 1 THEN e ELSE l[i - 1]
  BY <1>1, ConcatProperties
<1>3. DOMAIN l = 1 .. Len(l) /\ Len(l) \in Nat /\ DOMAIN m = 1 .. 1 + Len(l)
  BY <1>2, LenProperties
<1>4. 1 \in DOMAIN m /\ m[1] = e
  BY <1>2, <1>3
<1>5. ASSUME NEW i \in DOMAIN l PROVE i \in Int /\ i + 1 \in DOMAIN m /\ m[i + 1] = l[i]
  <2>1. i \in Int /\ i + 1 \in 1 .. 1 + Len(l) /\ ~ (i + 1 <= 1) /\ (i + 1) - 1 = i
    BY <1>3
  <2> QED BY <1>2, <1>3, <2>1
<1>6. ASSUME NEW i \in DOMAIN m PROVE i \in Int /\ (i # 1 => i - 1 \in DOMAIN l /\ l[i - 1] = m[i])
  BY <1>2, <1>3
<1> QED BY <1>2, <1>4, <1>5, <1>6

Infos(l) == [i \in DOMAIN l |-> l[i].info]

\* The infos of a list.
LEMMA InfosSeq ==
  ASSUME NEW l \in Seq(Waiting)
  PROVE  /\ Infos(l) \in Seq(Nat) /\ Len(Infos(l)) = Len(l) /\ Len(l) \in Nat
         /\ \A i \in 1 .. Len(l) : Infos(l)[i] = l[i].info
<1>1. Len(l) \in Nat /\ DOMAIN l = 1 .. Len(l) /\ \A i \in 1 .. Len(l) : l[i] \in Waiting
  BY LenProperties
<1>2. \A i \in 1 .. Len(l) : l[i].info \in Nat
  BY <1>1 DEF Waiting
<1>3. Infos(l) \in [1 .. Len(l) -> Nat]
  BY <1>1, <1>2 DEF Infos
<1>4. Infos(l) \in Seq(Nat)
  BY <1>1, <1>3, SeqDef
<1>5. DOMAIN Infos(l) = 1 .. Len(l)
  BY <1>1 DEF Infos
<1>6. Len(Infos(l)) = Len(l)
  BY <1>1, <1>4, <1>5, LenProperties
<1> QED BY <1>1, <1>4, <1>6 DEF Infos

\* An entry added to a list.
LEMMA InfosAppend ==
  ASSUME NEW l \in Seq(Waiting), NEW e \in Waiting
  PROVE  Infos(Append(l, e)) = Append(Infos(l), e.info)
<1> DEFINE m == Append(l, e)
           n == Append(Infos(l), e.info)
<1>1. e.info \in Nat /\ Infos(l) \in Seq(Nat) /\ Len(Infos(l)) = Len(l) /\ Len(l) \in Nat
  BY InfosSeq DEF Waiting
<1>2. m \in Seq(Waiting) /\ Len(m) = Len(l) + 1 /\ m[Len(l) + 1] = e /\ \A i \in 1 .. Len(l) : m[i] = l[i]
  OBVIOUS
<1>3. n \in Seq(Nat) /\ Len(n) = Len(l) + 1 /\ n[Len(l) + 1] = e.info /\ \A i \in 1 .. Len(l) : n[i] = Infos(l)[i]
  BY <1>1
<1> HIDE DEF m, n
<1>4. Infos(m) \in Seq(Nat) /\ Len(Infos(m)) = Len(m) /\ \A i \in 1 .. Len(m) : Infos(m)[i] = m[i].info
  BY <1>2, InfosSeq
<1>5. \A i \in 1 .. Len(l) : Infos(l)[i] = l[i].info
  BY InfosSeq
<1>6. \A i \in 1 .. Len(Infos(m)) : Infos(m)[i] = n[i]
  <2> SUFFICES ASSUME NEW i \in 1 .. Len(l) + 1 PROVE Infos(m)[i] = n[i]
    BY <1>2, <1>4
  <2>1. CASE i \in 1 .. Len(l)
    BY <1>1, <1>2, <1>3, <1>4, <1>5, <2>1
  <2>2. CASE i = Len(l) + 1
    BY <1>1, <1>2, <1>3, <1>4, <2>2
  <2> QED BY <1>1, <2>1, <2>2
<1>7. Infos(m) = n
  BY <1>2, <1>3, <1>4, <1>6, SeqEqual
<1> QED BY <1>7 DEF m, n

\* The first entry taken from a list.
LEMMA InfosTail ==
  ASSUME NEW l \in Seq(Waiting), l # <<>>
  PROVE  /\ Infos(l) # <<>> /\ Head(Infos(l)) = Head(l).info
         /\ Infos(Tail(l)) = Tail(Infos(l))
<1> DEFINE m == Tail(l)
           n == Tail(Infos(l))
<1>1. /\ Infos(l) \in Seq(Nat) /\ Len(Infos(l)) = Len(l) /\ Len(l) \in Nat \ {0}
      /\ \A i \in 1 .. Len(l) : Infos(l)[i] = l[i].info
  BY InfosSeq, EmptySeq
<1>2. Infos(l) # <<>>
  BY <1>1, EmptySeq
<1>3. m \in Seq(Waiting) /\ Len(m) = Len(l) - 1 /\ \A i \in 1 .. Len(m) : m[i] = l[i + 1]
  BY HeadTailProperties
<1>4. n \in Seq(Nat) /\ Len(n) = Len(l) - 1 /\ \A i \in 1 .. Len(n) : n[i] = Infos(l)[i + 1]
  BY <1>1, <1>2, HeadTailProperties
<1> HIDE DEF m, n
<1>5. Infos(m) \in Seq(Nat) /\ Len(Infos(m)) = Len(m) /\ \A i \in 1 .. Len(m) : Infos(m)[i] = m[i].info
  BY <1>3, InfosSeq
<1>6. ASSUME NEW i \in 1 .. Len(Infos(m)) PROVE Infos(m)[i] = n[i]
  <2>1. i \in 1 .. Len(m) /\ i \in 1 .. Len(n) /\ i + 1 \in 1 .. Len(l)
    BY <1>1, <1>3, <1>4, <1>5
  <2> QED BY <1>1, <1>3, <1>4, <1>5, <2>1
<1>7. Infos(m) = n
  BY <1>3, <1>4, <1>5, <1>6, SeqEqual
<1>8. Head(Infos(l)) = Infos(l)[1] /\ Head(l) = l[1]
  OBVIOUS
<1>9. Head(Infos(l)) = Head(l).info
  BY <1>1, <1>8
<1> QED BY <1>2, <1>7, <1>9 DEF m, n

(***************************************************************************)
(* The queues                                                              *)
(***************************************************************************)

\* Steps that touch neither lists nor histories keep the queues sound.
LEMMA QueuesKept ==
  ASSUME QueueInv, ~ raced => NoticeInv, UNCHANGED <<queues, delivered, at, held>>
  PROVE  QueueInv' /\ (~ raced' => NoticeInv')
<1>1. /\ sigtab' = sigtab /\ first_free' = first_free /\ signal_pending' = signal_pending
      /\ accepted' = accepted /\ delivered' = delivered /\ at' = at /\ held' = held /\ raced' = raced
  BY DEF queues
<1>2. QueueTypes' /\ NothingLost'
  BY <1>1 DEF QueueInv, QueueSound, QueueTypes, NothingLost, Queued
<1>3. QueuesWellFormed'
  <2>1. UsedSlots' = UsedSlots /\ (held.slot # INFO => ~ Listed(held.slot))'
    BY <1>1 DEF UsedSlots, Listed, QueueInv, QueueSound, QueuesWellFormed
  <2> QED BY <1>1, <2>1 DEF QueueInv, QueueSound, QueuesWellFormed
<1>4. StepInv'
  BY <1>1 DEF QueueInv, StepInv
<1>5. ~ raced' => NoticeInv'
  BY <1>1 DEF NoticeInv, QueuedIsNoticed, Pending
<1> QED BY <1>2, <1>3, <1>4, <1>5 DEF QueueInv, QueueSound

\* A list is well formed by itself.
ListOK(s, l) ==
  /\ l \in Seq(Waiting)
  /\ s \notin RtSigs => Len(l) <= 1
  /\ \A i \in DOMAIN l : l[i].slot = INFO => i = 1

\* The parts of the invariant that concern one list.
LEMMA ListFacts ==
  ASSUME QueueSound, NEW s \in Sigs
  PROVE  /\ ListOK(s, sigtab[s].first)
         /\ sigtab[s].pending = (sigtab[s].first # <<>>)
         /\ accepted[s] \in Seq(Nat) /\ delivered[s] \in Seq(Nat)
         /\ accepted[s] = delivered[s] \o Infos(sigtab[s].first)
BY DEF QueueSound, QueueTypes, QueuesWellFormed, NothingLost, Queued, Infos, ListOK

\* When one list changes, its own soundness, its history and the pool are what
\* has to be shown.
LEMMA ListStep ==
  ASSUME QueueSound, NEW s \in Sigs, NEW l, ListOK(s, l),
         sigtab' = [sigtab EXCEPT ![s] = [pending |-> l # <<>>, first |-> l]],
         first_free' \in Seq(Slots), held' \in [sig : Sigs, slot : {INFO} \cup Slots],
         (held.slot # INFO => ~ Listed(held.slot))',
         \A t \in Sigs : t # s => accepted'[t] = accepted[t] /\ delivered'[t] = delivered[t],
         accepted' \in [Sigs -> Seq(Nat)], delivered' \in [Sigs -> Seq(Nat)],
         accepted'[s] = delivered'[s] \o Infos(l),
         IsInjective(first_free'),
         ToSet(first_free') \cap UsedSlots' = {}, ToSet(first_free') \cup UsedSlots' = Slots,
         \A i, j \in DOMAIN l : l[i].slot = l[j].slot /\ l[i].slot # INFO => i = j,
         \A i \in DOMAIN l : \A t \in Sigs : t # s =>
            \A j \in DOMAIN sigtab[t].first : l[i].slot = sigtab[t].first[j].slot => l[i].slot = INFO
  PROVE  QueueSound'
<1>1. /\ sigtab' \in [Sigs -> [pending : BOOLEAN, first : Seq(Waiting)]]
      /\ sigtab'[s].pending = (l # <<>>) /\ sigtab'[s].first = l
      /\ \A t \in Sigs : t # s => sigtab'[t] = sigtab[t]
  BY DEF QueueSound, QueueTypes, ListOK
<1>2. QueueTypes'
  BY <1>1 DEF QueueTypes
<1>3. NothingLost'
  <2> SUFFICES ASSUME NEW t \in Sigs PROVE accepted'[t] = delivered'[t] \o Infos(sigtab'[t].first)
    BY DEF NothingLost, Queued, Infos
  <2>1. CASE t = s
    BY <1>1, <2>1
  <2>2. CASE t # s
    BY <1>1, <2>2, ListFacts
  <2> QED BY <2>1, <2>2
<1>4. \A t \in Sigs : /\ sigtab'[t].pending = (sigtab'[t].first # <<>>)
                      /\ t \notin RtSigs => Len(sigtab'[t].first) <= 1
                      /\ \A i \in DOMAIN sigtab'[t].first : sigtab'[t].first[i].slot = INFO => i = 1
  <2>1. \A t \in Sigs : t # s =>
           /\ sigtab'[t].pending = (sigtab'[t].first # <<>>)
           /\ t \notin RtSigs => Len(sigtab'[t].first) <= 1
           /\ \A i \in DOMAIN sigtab'[t].first : sigtab'[t].first[i].slot = INFO => i = 1
    BY <1>1 DEF QueueSound, QueuesWellFormed
  <2>2. s \notin RtSigs => Len(sigtab'[s].first) <= 1
    BY <1>1 DEF ListOK
  <2>3. \A i \in DOMAIN sigtab'[s].first : sigtab'[s].first[i].slot = INFO => i = 1
    BY <1>1 DEF ListOK
  <2>4. sigtab'[s].pending = (sigtab'[s].first # <<>>)
    BY <1>1
  <2> TAKE t \in Sigs
  <2>5. CASE t = s
    BY ONLY <2>2, <2>3, <2>4, <2>5, Zenon
  <2>6. CASE t # s
    BY <2>1, <2>6, Zenon
  <2> QED BY <2>5, <2>6
<1>5. \A t, u \in Sigs : \A i \in DOMAIN sigtab'[t].first, j \in DOMAIN sigtab'[u].first :
         sigtab'[t].first[i].slot = sigtab'[u].first[j].slot /\ sigtab'[t].first[i].slot # INFO => t = u /\ i = j
  <2> SUFFICES ASSUME NEW t \in Sigs, NEW u \in Sigs,
                      NEW i \in DOMAIN sigtab'[t].first, NEW j \in DOMAIN sigtab'[u].first,
                      sigtab'[t].first[i].slot = sigtab'[u].first[j].slot, sigtab'[t].first[i].slot # INFO
               PROVE  t = u /\ i = j
    OBVIOUS
  <2>1. CASE t # s /\ u # s
    BY <1>1, <2>1 DEF QueueSound, QueuesWellFormed
  <2>2. CASE t = s /\ u = s
    BY <1>1, <2>2
  <2>3. CASE t = s /\ u # s
    BY <1>1, <2>3
  <2>4. CASE t # s /\ u = s
    BY <1>1, <2>4
  <2> QED BY <2>1, <2>2, <2>3, <2>4
<1>6. QueuesWellFormed'
  BY <1>4, <1>5 DEF QueuesWellFormed
<1> QED BY <1>2, <1>3, <1>6 DEF QueueSound

\* The pool: its free entries, those in use, and that no entry is in two places.
LEMMA PoolFacts ==
  ASSUME QueueSound
  PROVE  /\ first_free \in Seq(Slots) /\ IsInjective(first_free)
         /\ \A x \in Slots : x \in ToSet(first_free) <=> x \notin UsedSlots
         /\ \A t \in Sigs : \A j \in DOMAIN sigtab[t].first :
               sigtab[t].first[j].slot # INFO => sigtab[t].first[j].slot \in UsedSlots
         /\ \A t, u \in Sigs : \A i \in DOMAIN sigtab[t].first, j \in DOMAIN sigtab[u].first :
               sigtab[t].first[i].slot = sigtab[u].first[j].slot /\ sigtab[t].first[i].slot # INFO
                 => t = u /\ i = j
         /\ \A x \in Slots : x \in UsedSlots <=> Listed(x) \/ held.slot = x
         /\ held \in [sig : Sigs, slot : {INFO} \cup Slots] /\ (held.slot # INFO => ~ Listed(held.slot))
<1>1. first_free \in Seq(Slots) /\ IsInjective(first_free)
  BY DEF QueueSound, QueueTypes, QueuesWellFormed
<1>2. \A x \in Slots : x \in ToSet(first_free) <=> x \notin UsedSlots
  BY DEF QueueSound, QueuesWellFormed
<1>3. ASSUME NEW t \in Sigs, NEW j \in DOMAIN sigtab[t].first, sigtab[t].first[j].slot # INFO
      PROVE  sigtab[t].first[j].slot \in UsedSlots
  <2>1. sigtab[t].first \in Seq(Waiting)
    BY ListFacts DEF ListOK
  <2>2. sigtab[t].first[j] \in Waiting
    BY <2>1, LenProperties
  <2>3. sigtab[t].first[j].slot \in Slots
    BY <1>3, <2>2 DEF Waiting
  <2> QED BY <2>3 DEF UsedSlots, Listed
<1>4. \A t, u \in Sigs : \A i \in DOMAIN sigtab[t].first, j \in DOMAIN sigtab[u].first :
               sigtab[t].first[i].slot = sigtab[u].first[j].slot /\ sigtab[t].first[i].slot # INFO
                 => t = u /\ i = j
  BY DEF QueueSound, QueuesWellFormed
<1>5. \A x \in Slots : x \in UsedSlots <=> Listed(x) \/ held.slot = x
  BY DEF UsedSlots
<1>6. held \in [sig : Sigs, slot : {INFO} \cup Slots] /\ (held.slot # INFO => ~ Listed(held.slot))
  BY DEF QueueSound, QueueTypes, QueuesWellFormed
<1> QED BY <1>1, <1>2, <1>3, <1>4, <1>5, <1>6

\* queue_signal links a new entry at the end of its list: the one inside the table
\* if the list is empty, otherwise one of the pool, which is in no list.
LEMMA EnqueueStep ==
  ASSUME QueueSound, NEW s \in Sigs, NEW info \in Nat, NEW slot \in Entry(s),
         Enqueue(s, info, slot), UNCHANGED <<delivered, held>>
  PROVE  QueueSound'
<1> DEFINE new == [slot |-> slot, info |-> info]
<1>1. PICK old : old = sigtab[s].first
  OBVIOUS
<1>2. PICK l : l = Append(old, new)
  OBVIOUS
<1>3. ListOK(s, old) /\ old \in Seq(Waiting) /\ sigtab[s].pending = (old # <<>>)
  BY <1>1, ListFacts DEF ListOK
<1>4. \/ slot = INFO /\ old = <<>> /\ first_free' = first_free
      \/ /\ slot # INFO /\ s \in RtSigs /\ old # <<>> /\ first_free # <<>>
         /\ slot = Head(first_free) /\ first_free' = Tail(first_free)
  <2>1. CASE ~ sigtab[s].pending
    BY <1>3, <2>1 DEF Entry, Enqueue
  <2>2. CASE sigtab[s].pending
    <3>1. s \in RtSigs /\ first_free # <<>> /\ slot = Head(first_free)
      BY <2>2 DEF Entry
    <3>2. slot \in Slots
      BY <3>1, PoolFacts, HeadTailProperties
    <3>3. slot # INFO
      BY <3>2 DEF Slots, INFO
    <3> QED BY <1>3, <2>2, <3>1, <3>3 DEF Enqueue
  <2> QED BY <2>1, <2>2
<1>5. slot # INFO => slot \in Slots /\ slot \in ToSet(first_free) /\ slot \notin UsedSlots
  <2> HAVE slot # INFO
  <2>1. first_free \in Seq(Slots) /\ first_free # <<>> /\ slot = Head(first_free)
    BY <1>4, PoolFacts
  <2>2. slot \in Slots /\ slot \in ToSet(first_free)
    BY <2>1, Tailed DEF ToSet
  <2> QED BY <2>2, PoolFacts
<1>6. new \in Waiting
  BY <1>5 DEF Waiting
<1>7. /\ l \in Seq(Waiting) /\ l # <<>> /\ Len(l) = Len(old) + 1 /\ Len(old) \in Nat
      /\ DOMAIN l = DOMAIN old \cup {Len(old) + 1} /\ Len(old) + 1 \notin DOMAIN old
      /\ \A i \in DOMAIN old : l[i] = old[i]
      /\ l[Len(old) + 1] = new
  BY <1>2, <1>3, <1>6, Appended
<1>8. ListOK(s, l)
  <2>1. old = <<>> => Len(old) = 0 /\ DOMAIN old = {}
    OBVIOUS
  <2>2. s \notin RtSigs => Len(l) <= 1
    BY <1>4, <1>7, <2>1
  <2>3. \A i \in DOMAIN l : l[i].slot = INFO => i = 1
    BY <1>3, <1>4, <1>7, <2>1 DEF ListOK
  <2> QED BY <1>7, <2>2, <2>3 DEF ListOK
<1>9. sigtab' = [sigtab EXCEPT ![s] = [pending |-> l # <<>>, first |-> l]]
  <2>1. (l # <<>>) = TRUE
    BY <1>7
  <2> QED BY <1>1, <1>2, <2>1 DEF Enqueue
<1>10. /\ accepted' = [accepted EXCEPT ![s] = Append(accepted[s], info)]
       /\ accepted \in [Sigs -> Seq(Nat)] /\ delivered \in [Sigs -> Seq(Nat)]
  BY DEF Enqueue, QueueSound, QueueTypes
<1>11. accepted'[s] = delivered[s] \o Infos(l)
  <2>1. Infos(l) = Append(Infos(old), info) /\ Infos(old) \in Seq(Nat)
    BY <1>2, <1>3, <1>6, InfosAppend, InfosSeq
  <2>2. accepted[s] = delivered[s] \o Infos(old) /\ delivered[s] \in Seq(Nat)
    BY <1>1, ListFacts
  <2>3. Append(delivered[s] \o Infos(old), info) = delivered[s] \o Append(Infos(old), info)
    BY ONLY <2>1, <2>2, info \in Nat, AppendBehind, Zenon
  <2> QED BY <1>10, <2>1, <2>2, <2>3
<1>12. \A x : Listed(x)' <=> Listed(x) \/ x = slot
  <2>1. sigtab'[s].first = l /\ \A t \in Sigs : t # s => sigtab'[t] = sigtab[t]
    BY <1>9 DEF QueueSound, QueueTypes
  <2>2. ASSUME NEW x, Listed(x) PROVE Listed(x)'
    <3>1. PICK t \in Sigs : \E i \in DOMAIN sigtab[t].first : sigtab[t].first[i].slot = x
      BY <2>2 DEF Listed
    <3>2. PICK i \in DOMAIN sigtab[t].first : sigtab[t].first[i].slot = x
      BY <3>1
    <3>3. i \in DOMAIN sigtab'[t].first /\ sigtab'[t].first[i].slot = x
      BY <1>1, <1>7, <2>1, <3>2
    <3> QED BY <3>3 DEF Listed
  <2>3. Listed(slot)'
    BY <1>7, <2>1 DEF Listed
  <2>4. ASSUME NEW x, Listed(x)', x # slot PROVE Listed(x)
    <3>1. PICK t \in Sigs : \E i \in DOMAIN sigtab'[t].first : sigtab'[t].first[i].slot = x
      BY <2>4 DEF Listed
    <3>2. PICK i \in DOMAIN sigtab'[t].first : sigtab'[t].first[i].slot = x
      BY <3>1
    <3>3. i \in DOMAIN sigtab[t].first /\ sigtab[t].first[i].slot = x
      BY <1>1, <1>7, <2>1, <2>4, <3>2, SMTT(30)
    <3> QED BY <3>3 DEF Listed
  <2> QED BY <2>2, <2>3, <2>4
<1>13. /\ first_free' \in Seq(Slots) /\ IsInjective(first_free')
       /\ \A x \in Slots : x \in ToSet(first_free') <=> x \in ToSet(first_free) /\ x # slot
       /\ ToSet(first_free') \subseteq Slots
  <2>1. first_free \in Seq(Slots) /\ IsInjective(first_free)
    BY PoolFacts
  <2>2. CASE slot = INFO
    <3>1. \A x \in Slots : x # slot
      BY <2>2 DEF Slots, INFO
    <3>2. ToSet(first_free) \subseteq Slots
      BY <2>1, LenProperties DEF ToSet
    <3> QED BY <1>4, <2>1, <2>2, <3>1, <3>2
  <2>3. CASE slot # INFO
    <3>1. PICK m : m = Tail(first_free)
      OBVIOUS
    <3>2. /\ m \in Seq(Slots) /\ 1 \in DOMAIN first_free /\ Head(first_free) = first_free[1]
          /\ \A i \in DOMAIN m : i \in Int /\ i + 1 \in DOMAIN first_free /\ m[i] = first_free[i + 1] /\ i + 1 # 1
          /\ \A i \in DOMAIN first_free : i \in Int /\ (i # 1 => i - 1 \in DOMAIN m /\ m[i - 1] = first_free[i])
      <4>1. first_free # <<>>
        BY <1>4, <2>3
      <4> QED BY ONLY <2>1, <3>1, <4>1, Tailed
    <3>3. IsInjective(m)
      <4> SUFFICES ASSUME NEW i \in DOMAIN m, NEW j \in DOMAIN m, m[i] = m[j] PROVE i = j
        BY DEF IsInjective
      <4>1. i + 1 = j + 1 /\ i \in Int /\ j \in Int
        BY <2>1, <3>2 DEF IsInjective
      <4> QED BY <4>1
    <3>4. \A x \in Slots : x \in ToSet(m) <=> x \in ToSet(first_free) /\ x # slot
      <4>1. ASSUME NEW x \in ToSet(m) PROVE x \in ToSet(first_free) /\ x # slot
        <5>1. PICK i \in DOMAIN m : x = m[i]
          BY DEF ToSet
        <5>2. i + 1 \in DOMAIN first_free /\ x = first_free[i + 1] /\ i + 1 # 1
          BY <3>2, <5>1
        <5>3. x # first_free[1]
          BY <2>1, <3>2, <5>2 DEF IsInjective
        <5> QED BY <1>4, <2>3, <3>2, <5>2, <5>3 DEF ToSet
      <4>2. ASSUME NEW x \in ToSet(first_free), x # slot PROVE x \in ToSet(m)
        <5>1. PICK i \in DOMAIN first_free : x = first_free[i]
          BY DEF ToSet
        <5>2. i # 1
          BY <1>4, <2>3, <3>2, <4>2, <5>1
        <5> QED BY <3>2, <5>1, <5>2 DEF ToSet
      <4> QED BY <4>1, <4>2
    <3>5. ToSet(m) \subseteq Slots
      BY <3>2, LenProperties DEF ToSet
    <3> QED BY <1>4, <2>3, <3>1, <3>2, <3>3, <3>4, <3>5
  <2> QED BY <2>2, <2>3
<1>14. ToSet(first_free') \cap UsedSlots' = {} /\ ToSet(first_free') \cup UsedSlots' = Slots
  <2>1. \A x \in Slots : x \in ToSet(first_free') <=> x \notin UsedSlots'
    <3>1. \A x \in Slots : x \in UsedSlots' <=> Listed(x)' \/ held.slot = x
      BY DEF UsedSlots
    <3> QED BY <1>5, <1>12, <1>13, <3>1, PoolFacts
  <2>2. UsedSlots' \subseteq Slots
    BY DEF UsedSlots
  <2> QED BY <1>13, <2>1, <2>2
<1>15. \A i, j \in DOMAIN l : l[i].slot = l[j].slot /\ l[i].slot # INFO => i = j
  <2>1. \A i, j \in DOMAIN old : old[i].slot = old[j].slot /\ old[i].slot # INFO => i = j
    BY <1>1, PoolFacts
  <2>2. \A i \in DOMAIN old : old[i].slot # INFO => old[i].slot \in UsedSlots
    BY <1>1, PoolFacts
  <2> QED BY <1>5, <1>7, <2>1, <2>2
<1>16. \A i \in DOMAIN l : \A t \in Sigs : t # s =>
          \A j \in DOMAIN sigtab[t].first : l[i].slot = sigtab[t].first[j].slot => l[i].slot = INFO
  <2>1. \A i \in DOMAIN old : \A t \in Sigs : t # s =>
          \A j \in DOMAIN sigtab[t].first : old[i].slot = sigtab[t].first[j].slot => old[i].slot = INFO
    BY <1>1, PoolFacts
  <2>2. \A t \in Sigs : \A j \in DOMAIN sigtab[t].first : slot = sigtab[t].first[j].slot => slot = INFO
    BY <1>5, PoolFacts
  <2> QED BY <1>7, <2>1, <2>2
<1>17. /\ \A t \in Sigs : t # s => accepted'[t] = accepted[t] /\ delivered'[t] = delivered[t]
       /\ accepted' \in [Sigs -> Seq(Nat)] /\ delivered' \in [Sigs -> Seq(Nat)]
       /\ accepted'[s] = delivered'[s] \o Infos(l)
  <2>1. Append(accepted[s], info) \in Seq(Nat)
    BY <1>10
  <2> QED BY <1>10, <1>11, <2>1
<1>18. held' \in [sig : Sigs, slot : {INFO} \cup Slots] /\ (held.slot # INFO => ~ Listed(held.slot))'
  <2>1. PICK h : h = held.slot
    OBVIOUS
  <2>2. held' = held /\ (h # INFO => h \in Slots /\ ~ Listed(h) /\ h \in UsedSlots)
    BY <2>1, PoolFacts
  <2>3. h # INFO => ~ Listed(h)'
    BY <1>5, <1>12, <2>2
  <2>4. h = held'.slot
    BY <2>1, <2>2
  <2> QED BY <2>2, <2>3, <2>4, PoolFacts DEF Listed
<1> QED BY <1>8, <1>9, <1>13, <1>14, <1>15, <1>16, <1>17, <1>18, ListStep

\* process_pending_signals takes the first entry of a list, and its info is the
\* next one for the guest.
LEMMA DequeueStep ==
  ASSUME QueueSound, NEW s \in Sigs, s = held.sig, sigtab[s].pending, held.slot = INFO, Dequeue
  PROVE  QueueSound'
<1>1. PICK old : old = sigtab[s].first
  OBVIOUS
<1>2. PICK l : l = Tail(old)
  OBVIOUS
<1>3. PICK slot : slot = old[1].slot
  OBVIOUS
<1>4. ListOK(s, old) /\ old \in Seq(Waiting) /\ old # <<>>
  BY <1>1, ListFacts DEF ListOK
<1>5. /\ l \in Seq(Waiting) /\ Len(l) = Len(old) - 1 /\ Len(old) \in Nat \ {0} /\ 1 \in DOMAIN old /\ Head(old) = old[1]
      /\ \A i \in DOMAIN l : i \in Int /\ i + 1 \in DOMAIN old /\ l[i] = old[i + 1] /\ i + 1 # 1
      /\ \A i \in DOMAIN old : i \in Int /\ (i # 1 => i - 1 \in DOMAIN l /\ l[i - 1] = old[i])
  BY ONLY <1>2, <1>4, Tailed
<1>6. /\ old[1] \in Waiting /\ old[1].info \in Nat
      /\ slot # INFO => slot \in Slots /\ slot \in UsedSlots /\ slot \notin ToSet(first_free)
  <2>1. old[1] \in Waiting
    BY <1>4, <1>5, LenProperties
  <2>2. slot # INFO => slot \in UsedSlots
    BY <1>1, <1>3, <1>5, PoolFacts
  <2> QED BY <1>3, <2>1, <2>2, PoolFacts DEF Waiting
<1>7. /\ sigtab' = [sigtab EXCEPT ![s] = [pending |-> l # <<>>, first |-> l]]
      /\ first_free' = first_free /\ accepted' = accepted
      /\ held' = [held EXCEPT !.slot = slot]
  BY <1>1, <1>2, <1>3, <1>5 DEF Dequeue
<1>8. ListOK(s, l)
  <2>1. \A i \in DOMAIN l : l[i].slot # INFO
    BY <1>4, <1>5 DEF ListOK
  <2>2. s \notin RtSigs => Len(l) <= 1
    BY <1>4, <1>5 DEF ListOK
  <2> QED BY <1>5, <2>1, <2>2 DEF ListOK
<1>9. /\ delivered' = [delivered EXCEPT ![s] = Append(delivered[s], old[1].info)]
      /\ accepted \in [Sigs -> Seq(Nat)] /\ delivered \in [Sigs -> Seq(Nat)]
      /\ delivered[s] \in Seq(Nat)
  BY <1>1, <1>5 DEF Dequeue, QueueSound, QueueTypes
<1>10. accepted[s] = Append(delivered[s], old[1].info) \o Infos(l)
  <2>1. Infos(old) # <<>> /\ Head(Infos(old)) = old[1].info /\ Infos(l) = Tail(Infos(old)) /\ Infos(old) \in Seq(Nat)
    BY <1>2, <1>4, <1>5, InfosTail, InfosSeq
  <2>2. accepted[s] = delivered[s] \o Infos(old)
    BY <1>1, ListFacts
  <2>3. delivered[s] \o Infos(old) = Append(delivered[s], Head(Infos(old))) \o Tail(Infos(old))
    BY ONLY <1>9, <2>1, HeadMoves, Zenon
  <2> QED BY <2>1, <2>2, <2>3
<1>11. \A x \in Slots : Listed(x)' <=> Listed(x) /\ x # slot
  <2>1. sigtab'[s].first = l /\ \A t \in Sigs : t # s => sigtab'[t] = sigtab[t]
    BY <1>7 DEF QueueSound, QueueTypes
  <2>2. ASSUME NEW x \in Slots, Listed(x), x # slot PROVE Listed(x)'
    <3>1. PICK t \in Sigs : \E i \in DOMAIN sigtab[t].first : sigtab[t].first[i].slot = x
      BY <2>2 DEF Listed
    <3>2. PICK i \in DOMAIN sigtab[t].first : sigtab[t].first[i].slot = x
      BY <3>1
    <3>3. \E j \in DOMAIN sigtab'[t].first : sigtab'[t].first[j].slot = x
      <4>1. CASE t # s
        BY <2>1, <3>2, <4>1
      <4>2. CASE t = s
        <5>1. i \in DOMAIN old /\ old[i].slot = x /\ i # 1
          BY <1>1, <1>3, <2>2, <3>2, <4>2
        <5> QED BY <1>5, <2>1, <4>2, <5>1
      <4> QED BY <4>1, <4>2
    <3> QED BY <3>3 DEF Listed
  <2>3. ASSUME NEW x \in Slots, Listed(x)' PROVE Listed(x) /\ x # slot
    <3>1. PICK t \in Sigs : \E i \in DOMAIN sigtab'[t].first : sigtab'[t].first[i].slot = x
      BY <2>3 DEF Listed
    <3>2. PICK i \in DOMAIN sigtab'[t].first : sigtab'[t].first[i].slot = x
      BY <3>1
    <3>3. x \in Slots /\ x # INFO
      BY DEF Slots, INFO
    <3>4. CASE t # s
      <4>1. i \in DOMAIN sigtab[t].first /\ sigtab[t].first[i].slot = x
        BY <2>1, <3>2, <3>4
      <4>2. x # slot
        BY <1>1, <1>3, <1>5, <3>3, <3>4, <4>1, PoolFacts
      <4> QED BY <3>3, <4>1, <4>2 DEF Listed
    <3>5. CASE t = s
      <4>1. PICK k : k = i + 1
        OBVIOUS
      <4>2. k \in DOMAIN old /\ old[k].slot = x /\ k # 1
        BY <1>5, <2>1, <3>2, <3>5, <4>1
      <4>3. x # slot
        <5>1. \A a, b \in DOMAIN old : old[a].slot = old[b].slot /\ old[a].slot # INFO => a = b
          BY <1>1, PoolFacts
        <5> QED BY <1>3, <1>5, <3>3, <4>2, <5>1
      <4> QED BY <1>1, <3>3, <4>2, <4>3 DEF Listed
    <3> QED BY <3>4, <3>5
  <2> QED BY <2>2, <2>3
<1>12. held' \in [sig : Sigs, slot : {INFO} \cup Slots] /\ held'.slot = slot
  BY <1>6, <1>7 DEF QueueSound, QueueTypes
<1>13. /\ first_free' \in Seq(Slots) /\ IsInjective(first_free')
       /\ ToSet(first_free') \cap UsedSlots' = {} /\ ToSet(first_free') \cup UsedSlots' = Slots
  <2>1. \A x \in Slots : x \in UsedSlots' <=> Listed(x)' \/ slot = x
    BY <1>12 DEF UsedSlots
  <2>2. \A x \in Slots : x \in UsedSlots <=> Listed(x)
    BY PoolFacts DEF Slots, INFO
  <2>3. \A x \in Slots : slot = x => Listed(x)
    BY <1>6, <2>2 DEF Slots, INFO
  <2>4. UsedSlots' = UsedSlots
    BY <1>11, <2>1, <2>2, <2>3 DEF UsedSlots
  <2> QED BY <1>7, <2>4 DEF QueueSound, QueueTypes, QueuesWellFormed
<1>14. \A i, j \in DOMAIN l : l[i].slot = l[j].slot /\ l[i].slot # INFO => i = j
  <2>1. \A i, j \in DOMAIN old : old[i].slot = old[j].slot /\ old[i].slot # INFO => i = j
    BY <1>1, PoolFacts
  <2> SUFFICES ASSUME NEW i \in DOMAIN l, NEW j \in DOMAIN l, l[i].slot = l[j].slot, l[i].slot # INFO PROVE i = j
    OBVIOUS
  <2>2. i + 1 = j + 1 /\ i \in Int /\ j \in Int
    BY <1>5, <2>1
  <2> QED BY <2>2
<1>15. \A i \in DOMAIN l : \A t \in Sigs : t # s =>
          \A j \in DOMAIN sigtab[t].first : l[i].slot = sigtab[t].first[j].slot => l[i].slot = INFO
  <2>1. \A i \in DOMAIN old : \A t \in Sigs : t # s =>
          \A j \in DOMAIN sigtab[t].first : old[i].slot = sigtab[t].first[j].slot => old[i].slot = INFO
    BY <1>1, PoolFacts
  <2> QED BY <1>5, <2>1
<1>16. /\ \A t \in Sigs : t # s => accepted'[t] = accepted[t] /\ delivered'[t] = delivered[t]
       /\ accepted' \in [Sigs -> Seq(Nat)] /\ delivered' \in [Sigs -> Seq(Nat)]
       /\ accepted'[s] = delivered'[s] \o Infos(l)
  <2>1. Append(delivered[s], old[1].info) \in Seq(Nat)
    BY <1>6, <1>9
  <2> QED BY <1>7, <1>9, <1>10, <2>1
<1>17. (held.slot # INFO => ~ Listed(held.slot))'
  <2>1. slot # INFO => ~ Listed(slot)'
    BY <1>6, <1>11
  <2> QED BY <1>12, <2>1 DEF Listed
<1> QED BY <1>7, <1>8, <1>12, <1>13, <1>14, <1>15, <1>16, <1>17, ListStep

\* When the signal has been acted on, free_sigqueue puts its entry, which is in no
\* list, in front of the free ones.
LEMMA FreeStep ==
  ASSUME QueueSound, UNCHANGED <<sigtab, accepted, delivered>>, held' = Nobody,
         first_free' = IF held.slot = INFO THEN first_free ELSE <<held.slot>> \o first_free
  PROVE  QueueSound'
<1>1. PICK slot : slot = held.slot
  OBVIOUS
<1>2. /\ slot # INFO => slot \in Slots /\ slot \in UsedSlots /\ slot \notin ToSet(first_free) /\ ~ Listed(slot)
      /\ slot \in {INFO} \cup Slots
  BY <1>1, PoolFacts
<1>3. \A x \in Slots : x \in UsedSlots' <=> x \in UsedSlots /\ x # slot
  <2>1. \A x : Listed(x)' <=> Listed(x)
    BY DEF Listed
  <2>2. \A x \in Slots : x \in UsedSlots' <=> Listed(x)'
    BY DEF UsedSlots, Nobody, Slots, INFO
  <2> QED BY <1>1, <1>2, <2>1, <2>2, PoolFacts DEF Slots, INFO
<1>4. /\ first_free' \in Seq(Slots) /\ IsInjective(first_free')
       /\ \A x \in Slots : x \in ToSet(first_free') <=> x \in ToSet(first_free) \/ x = slot
  <2>1. first_free \in Seq(Slots) /\ IsInjective(first_free)
    BY PoolFacts
  <2>2. CASE slot = INFO
    <3>1. \A x \in Slots : x # slot
      BY <2>2 DEF Slots, INFO
    <3> QED BY <1>1, <2>1, <2>2, <3>1
  <2>3. CASE slot # INFO
    <3>1. PICK m : m = <<slot>> \o first_free
      OBVIOUS
    <3>2. slot \in Slots
      BY <1>2, <2>3
    <3>3. /\ m \in Seq(Slots) /\ 1 \in DOMAIN m /\ m[1] = slot
          /\ \A i \in DOMAIN first_free : i \in Int /\ i + 1 \in DOMAIN m /\ m[i + 1] = first_free[i]
          /\ \A i \in DOMAIN m : i \in Int /\ (i # 1 => i - 1 \in DOMAIN first_free /\ first_free[i - 1] = m[i])
      BY ONLY <2>1, <3>1, <3>2, InFront
    <3>4. \A i \in DOMAIN m : i # 1 => m[i] # slot
      BY <1>2, <2>3, <3>3 DEF ToSet
    <3>5. IsInjective(m)
      <4> SUFFICES ASSUME NEW i \in DOMAIN m, NEW j \in DOMAIN m, m[i] = m[j] PROVE i = j
        BY DEF IsInjective
      <4>1. CASE i = 1 \/ j = 1
        BY <3>3, <3>4, <4>1
      <4>2. CASE i # 1 /\ j # 1
        <5>1. i - 1 = j - 1 /\ i \in Int /\ j \in Int
          BY <2>1, <3>3, <4>2 DEF IsInjective
        <5> QED BY <5>1
      <4> QED BY <4>1, <4>2
    <3>6. \A x : x \in ToSet(m) <=> x \in ToSet(first_free) \/ x = slot
      <4>1. \A x \in ToSet(m) : x \in ToSet(first_free) \/ x = slot
        BY <3>3 DEF ToSet
      <4>2. slot \in ToSet(m)
        BY <3>3 DEF ToSet
      <4>3. ASSUME NEW x \in ToSet(first_free) PROVE x \in ToSet(m)
        <5>1. PICK i \in DOMAIN first_free : x = first_free[i]
          BY DEF ToSet
        <5>2. PICK k : k = i + 1
          OBVIOUS
        <5>3. k \in DOMAIN m /\ m[k] = x
          BY <3>3, <5>1, <5>2
        <5> QED BY <5>3 DEF ToSet
      <4> QED BY <4>1, <4>2, <4>3
    <3> QED BY <1>1, <2>3, <3>1, <3>3, <3>5, <3>6
  <2> QED BY <2>2, <2>3
<1>5. ToSet(first_free') \cap UsedSlots' = {} /\ ToSet(first_free') \cup UsedSlots' = Slots
  <2>1. \A x \in Slots : x \in ToSet(first_free') <=> x \notin UsedSlots'
    BY <1>2, <1>3, <1>4, PoolFacts DEF Slots, INFO
  <2>2. UsedSlots' \subseteq Slots
    BY DEF UsedSlots
  <2>3. ToSet(first_free') \subseteq Slots
    BY <1>4, LenProperties DEF ToSet
  <2> QED BY <2>1, <2>2, <2>3
<1>6. QueueTypes'
  <2>1. 1 \in Sigs
    BY SignalsAssumption DEF Sigs
  <2> QED BY <1>4, <2>1 DEF QueueSound, QueueTypes, Nobody
<1>7. NothingLost'
  BY DEF QueueSound, NothingLost, Queued
<1>8. QueuesWellFormed'
  <2>1. (held.slot # INFO => ~ Listed(held.slot))'
    BY DEF Nobody
  <2> QED BY <1>4, <1>5, <2>1 DEF QueueSound, QueuesWellFormed
<1> QED BY <1>6, <1>7, <1>8 DEF QueueSound

(***************************************************************************)
(* The specification                                                       *)
(***************************************************************************)

\* At the start nothing is queued and every entry of the pool is free.
LEMMA InitInv == Init => IInv
<1> SUFFICES ASSUME Init PROVE IInv
  OBVIOUS
<1>1. PICK inherited \in [Sigs -> {"DFL", "IGN"}] :
        sigact = [s \in Sigs |-> [DefaultAct EXCEPT !.handler = inherited[s]]]
  BY DEF Init
<1>2. /\ sigtab = [s \in Sigs |-> [pending |-> FALSE, first |-> <<>>]]
      /\ first_free = [i \in Slots |-> i] /\ signal_pending = FALSE
      /\ accepted = [s \in Sigs |-> <<>>] /\ delivered = [s \in Sigs |-> <<>>]
      /\ blocked = {} /\ kpending = {} /\ frames = <<>> /\ sent = 0 /\ at = "loop" /\ held = Nobody
  BY DEF Init
<1>3. MaxQueue \in Nat
  BY SignalsAssumption
<1>4. first_free \in Seq(Slots) /\ DOMAIN first_free = Slots
  <2>1. first_free \in [1 .. MaxQueue -> Slots] /\ DOMAIN first_free = Slots
    BY <1>2 DEF Slots
  <2> QED BY <1>3, <2>1, SeqDef
<1>5. QueueTypes
  <2>1. <<>> \in Seq(Waiting) /\ <<>> \in Seq(Nat)
    OBVIOUS
  <2>2. 1 \in Sigs
    BY SignalsAssumption DEF Sigs
  <2> QED BY <1>2, <1>4, <2>1, <2>2 DEF QueueTypes, Nobody
<1>6. TaskTypes
  <2>1. \A h \in {"DFL", "IGN"} : [DefaultAct EXCEPT !.handler = h] \in
           [handler : {"DFL", "IGN", "ERR", "fn"}, nodefer : BOOLEAN, resethand : BOOLEAN, mask : SUBSET Sigs]
    BY DEF DefaultAct
  <2>2. sigact \in [Sigs -> [handler : {"DFL", "IGN", "ERR", "fn"}, nodefer : BOOLEAN,
                            resethand : BOOLEAN, mask : SUBSET Sigs]]
    BY <1>1, <2>1
  <2>3. frames \in Seq(SUBSET Sigs)
    BY <1>2
  <2> QED BY <1>2, <2>2, <2>3 DEF TaskTypes
<1>7. NothingLost
  <2>1. ASSUME NEW s \in Sigs PROVE accepted[s] = delivered[s] \o Queued(s)
    <3>1. Queued(s) = <<>>
      BY <1>2 DEF Queued
    <3> QED BY <1>2, <3>1
  <2> QED BY <2>1 DEF NothingLost
<1>8. QueuesWellFormed
  <2>1. UsedSlots = {} /\ held.slot = INFO
    BY <1>2 DEF UsedSlots, Listed, Nobody, Slots, INFO
  <2>2. ToSet(first_free) = Slots /\ IsInjective(first_free)
    BY <1>2, <1>4 DEF ToSet, IsInjective
  <2>3. \A s \in Sigs : sigtab[s].pending = FALSE /\ sigtab[s].first = <<>>
    BY <1>2
  <2>4. \A s \in Sigs : /\ sigtab[s].pending = (sigtab[s].first # <<>>)
                        /\ s \notin RtSigs => Len(sigtab[s].first) <= 1
                        /\ \A i \in DOMAIN sigtab[s].first : sigtab[s].first[i].slot = INFO => i = 1
    <3> TAKE s \in Sigs
    <3>1. Len(sigtab[s].first) = 0 /\ DOMAIN sigtab[s].first = {}
      BY <2>3
    <3>2. sigtab[s].pending = (sigtab[s].first # <<>>)
      BY <2>3
    <3> QED BY <3>1, <3>2
  <2> QED BY <2>1, <2>2, <2>3, <2>4 DEF QueuesWellFormed
<1>9. NoticeInv /\ StepInv
  BY <1>2 DEF NoticeInv, StepInv, QueuedIsNoticed, Pending, Nobody
<1> QED BY <1>2, <1>5, <1>6, <1>7, <1>8, <1>9 DEF IInv, QueueInv, QueueSound, MaskInv

\* Steps that leave masks, frames and dispositions alone.
LEMMA TaskKept ==
  ASSUME TaskTypes, MaskInv, UNCHANGED <<sigact, blocked, frames>>,
         kpending' \in SUBSET [sig : Sigs, info : Nat], sent' \in Nat
  PROVE  TaskTypes' /\ MaskInv'
BY DEF TaskTypes, MaskInv

\* The kernel's steps.
LEMMA KernelStep ==
  ASSUME IInv, Kernel
  PROVE  IInv'
<1>1. CASE Continue
  <2>1. UNCHANGED <<queues, delivered, at, held>> /\ UNCHANGED <<sigact, blocked, frames, kpending, sent>>
    BY <1>1 DEF Continue, guest
  <2> QED BY <2>1, QueuesKept, TaskKept DEF IInv, TaskTypes
<1>2. ASSUME NEW s \in Sigs, Send(s) PROVE IInv'
  <2>1. UNCHANGED <<queues, delivered, at, held>> /\ UNCHANGED <<sigact, blocked, frames>> /\ sent' = sent + 1
    BY <1>2 DEF Send, guest
  <2>2. kpending' \in SUBSET [sig : Sigs, info : Nat] /\ sent' \in Nat
    BY <1>2, <2>1 DEF Send, IInv, TaskTypes
  <2> QED BY <2>1, <2>2, QueuesKept, TaskKept DEF IInv
<1>3. ASSUME NEW e \in kpending, KernelActs(e) PROVE IInv'
  <2>1. UNCHANGED <<queues, delivered, at, held>> /\ UNCHANGED <<sigact, blocked, frames, sent>> /\ kpending' = kpending \ {e}
    BY <1>3 DEF KernelActs, guest
  <2>2. kpending' \in SUBSET [sig : Sigs, info : Nat] /\ sent' \in Nat
    BY <2>1 DEF IInv, TaskTypes
  <2> QED BY <2>1, <2>2, QueuesKept, TaskKept DEF IInv
<1> QED BY <1>1, <1>2, <1>3 DEF Kernel

\* The host's handler, whatever queue holds: the signal is dealt with at once,
\* merged, refused or queued.
LEMMA HostHandlerStep ==
  ASSUME IInv, HostHandler
  PROVE  IInv'
<1>1. PICK e \in kpending : host_signal_handler(e)
  BY DEF HostHandler
<1>2. e.sig \in Sigs /\ e.info \in Nat
  BY DEF IInv, TaskTypes
<1>3. UNCHANGED <<sigact, blocked, frames, sent, delivered, at, held>> /\ kpending' = kpending \ {e}
  BY <1>1 DEF host_signal_handler, guest
<1>4. TaskTypes' /\ MaskInv'
  <2>1. kpending' \in SUBSET [sig : Sigs, info : Nat] /\ sent' \in Nat
    BY <1>3 DEF IInv, TaskTypes
  <2> QED BY <1>3, <2>1, TaskKept DEF IInv
<1>5. UNCHANGED queues \/ \E slot \in Entry(e.sig) : Enqueue(e.sig, e.info, slot)
  BY <1>1 DEF host_signal_handler, queue_signal
<1>6. CASE UNCHANGED queues
  BY <1>3, <1>4, <1>6, QueuesKept DEF IInv
<1>7. ASSUME NEW slot \in Entry(e.sig), Enqueue(e.sig, e.info, slot) PROVE IInv'
  <2>1. PICK s \in Sigs : s = e.sig
    BY <1>2
  <2>2. QueueSound'
    BY <1>2, <1>3, <1>7, EnqueueStep DEF IInv, QueueInv
  <2>3. StepInv'
    <3>1. sigtab \in [Sigs -> [pending : BOOLEAN, first : Seq(Waiting)]] /\ StepInv /\ held.sig \in Sigs
      BY DEF IInv, QueueInv, QueueSound, QueueTypes
    <3>2. \A t \in Sigs : sigtab[t].pending => sigtab'[t].pending
      BY <1>7, <2>1, <3>1 DEF Enqueue
    <3> QED BY <1>3, <3>1, <3>2 DEF StepInv
  <2>4. ~ raced' => NoticeInv'
    BY <1>3, <1>7 DEF Enqueue, NoticeInv, QueuedIsNoticed
  <2> QED BY <1>4, <2>2, <2>3, <2>4 DEF IInv, QueueInv
<1> QED BY <1>5, <1>6, <1>7

\* The guest changes a disposition.
LEMMA SigactionStep ==
  ASSUME IInv, NEW s \in Sigs, NEW act \in UsefulActs, do_sigaction(s, act)
  PROVE  IInv'
<1>1. /\ UNCHANGED <<queues, delivered, at, held>> /\ UNCHANGED <<blocked, frames, sent>>
      /\ sigact' = [sigact EXCEPT ![s] = act] /\ kpending' \subseteq kpending
  BY DEF do_sigaction
<1>2. act \in [handler : {"DFL", "IGN", "ERR", "fn"}, nodefer : BOOLEAN, resethand : BOOLEAN, mask : SUBSET Sigs]
  <2>1. NSig \in Sigs
    BY SignalsAssumption DEF Sigs
  <2> QED BY <2>1 DEF UsefulActs, Acts
<1>3. TaskTypes' /\ MaskInv'
  BY <1>1, <1>2 DEF IInv, TaskTypes, MaskInv
<1> QED BY <1>1, <1>3, QueuesKept DEF IInv

\* A handler returns: the mask of the newest frame is restored.
LEMMA SigreturnStep ==
  ASSUME IInv, do_sigreturn
  PROVE  IInv'
<1>1. /\ UNCHANGED <<queues, delivered, at, held>> /\ UNCHANGED <<sigact, kpending, sent>>
      /\ frames # <<>> /\ blocked' = Last(frames) /\ frames' = Front(frames)
  BY DEF do_sigreturn
<1>2. /\ frames \in Seq(SUBSET Sigs) /\ frames[1] = {}
      /\ Len(frames) \in Nat \ {0} /\ \A i \in 1 .. Len(frames) : frames[i] \in SUBSET Sigs
  <2>1. frames \in Seq(SUBSET Sigs) /\ frames[1] = {}
    BY <1>1 DEF IInv, TaskTypes, MaskInv
  <2> QED BY <1>1, <2>1, EmptySeq, LenProperties
<1>3. /\ Front(frames) \in Seq(SUBSET Sigs) /\ Len(Front(frames)) = Len(frames) - 1
      /\ \A i \in 1 .. Len(frames) - 1 : Front(frames)[i] = frames[i]
  <2>1. 1 \in Int /\ Len(frames) - 1 \in Int /\ \A i \in 1 .. Len(frames) - 1 : frames[i] \in SUBSET Sigs
    BY <1>2
  <2>2. /\ Front(frames) \in Seq(SUBSET Sigs)
        /\ Len(Front(frames)) = IF 1 <= Len(frames) - 1 THEN (Len(frames) - 1) - 1 + 1 ELSE 0
        /\ \A i \in 1 .. (Len(frames) - 1) - 1 + 1 : Front(frames)[i] = frames[1 + i - 1]
    BY ONLY <2>1, SubSeqProperties DEF Front
  <2>3. Len(Front(frames)) = Len(frames) - 1
    <3>1. PICK n : n = Len(frames)
      OBVIOUS
    <3>2. PICK k : k = Len(Front(frames))
      OBVIOUS
    <3>3. n \in Nat \ {0} /\ k = IF 1 <= n - 1 THEN (n - 1) - 1 + 1 ELSE 0
      BY <1>2, <2>2, <3>1, <3>2
    <3>4. k = n - 1
      BY ONLY <3>3
    <3> QED BY <3>1, <3>2, <3>4
  <2>4. \A i \in 1 .. Len(frames) - 1 : i \in 1 .. (Len(frames) - 1) - 1 + 1 /\ 1 + i - 1 = i
    BY <1>2
  <2>5. \A i \in 1 .. Len(frames) - 1 : Front(frames)[i] = frames[i]
    BY ONLY <2>2, <2>4
  <2> QED BY <2>2, <2>3, <2>5
<1>4. Last(frames) = frames[Len(frames)] /\ Last(frames) \in SUBSET Sigs
  BY <1>2 DEF Last
<1>5. MaskInv'
  <2>1. CASE Len(frames) = 1
    <3>1. Front(frames) = <<>>
      BY <1>3, <2>1, EmptySeq
    <3> QED BY <1>1, <1>2, <1>4, <2>1, <3>1 DEF MaskInv
  <2>2. CASE Len(frames) # 1
    <3>1. Front(frames)[1] = {} /\ Front(frames) # <<>>
      BY <1>2, <1>3, <2>2
    <3> QED BY <1>1, <3>1 DEF MaskInv
  <2> QED BY <2>1, <2>2
<1>6. TaskTypes'
  BY <1>1, <1>3, <1>4 DEF IInv, TaskTypes
<1> QED BY <1>1, <1>5, <1>6, QueuesKept DEF IInv

\* The scan notes the signal that is pending, or that none is.
LEMMA ScanStep ==
  ASSUME IInv, Scan
  PROVE  IInv'
<1>1. /\ UNCHANGED <<sigtab, first_free, signal_pending, accepted, raced, delivered>>
      /\ UNCHANGED <<sigact, blocked, frames, kpending, sent>>
      /\ at = "loop"
      /\ \/ at' = "clear" /\ Pending = {} /\ held' = held
         \/ at' = "take" /\ \E s \in Sigs : s \in Pending /\ held' = [Nobody EXCEPT !.sig = s]
  BY DEF Scan, queues, LowestPending
<1>2. held.slot = INFO /\ held' \in [sig : Sigs, slot : {INFO} \cup Slots] /\ held'.slot = INFO
  BY <1>1 DEF IInv, QueueInv, StepInv, QueueSound, QueueTypes, Nobody
<1>3. QueueSound'
  <2>1. QueueTypes' /\ NothingLost'
    <3>1. QueueTypes'
      BY <1>1, <1>2 DEF IInv, QueueInv, QueueSound, QueueTypes
    <3>2. NothingLost'
      BY <1>1 DEF IInv, QueueInv, QueueSound, NothingLost, Queued
    <3> QED BY <3>1, <3>2
  <2>2. \A x : Listed(x)' <=> Listed(x)
    BY <1>1 DEF Listed
  <2>3. UsedSlots' = UsedSlots /\ (held.slot # INFO => ~ Listed(held.slot))'
    BY <1>2, <2>2 DEF UsedSlots
  <2>4. QueuesWellFormed'
    BY <1>1, <2>3 DEF IInv, QueueInv, QueueSound, QueuesWellFormed
  <2> QED BY <2>1, <2>4 DEF QueueSound
<1>4. StepInv'
  BY <1>1, <1>2 DEF StepInv, Pending, Nobody
<1>5. ~ raced' => NoticeInv'
  BY <1>1 DEF IInv, NoticeInv, QueuedIsNoticed, Pending
<1>6. TaskTypes' /\ MaskInv'
  BY <1>1, TaskKept DEF IInv, TaskTypes
<1> QED BY <1>3, <1>4, <1>5, <1>6 DEF IInv, QueueInv

\* signal_pending is cleared: no list has an entry, unless a signal came after the scan.
LEMMA ClearStep ==
  ASSUME IInv, ClearPending
  PROVE  IInv'
<1>1. /\ UNCHANGED <<sigtab, first_free, accepted, raced, delivered, held>>
      /\ UNCHANGED <<sigact, blocked, frames, kpending, sent>>
      /\ at = "clear" /\ at' = "loop" /\ signal_pending' = FALSE
  BY DEF ClearPending
<1>2. QueueSound'
  <2>1. QueueTypes' /\ NothingLost'
    BY <1>1 DEF IInv, QueueInv, QueueSound, QueueTypes, NothingLost, Queued
  <2>2. UsedSlots' = UsedSlots /\ (held.slot # INFO => ~ Listed(held.slot))'
    BY <1>1 DEF UsedSlots, Listed, IInv, QueueInv, QueueSound, QueuesWellFormed
  <2>3. QueuesWellFormed'
    BY <1>1, <2>2 DEF IInv, QueueInv, QueueSound, QueuesWellFormed
  <2> QED BY <2>1, <2>3 DEF QueueSound
<1>3. StepInv' /\ (~ raced' => NoticeInv')
  BY <1>1 DEF IInv, QueueInv, StepInv, NoticeInv, QueuedIsNoticed, Pending
<1>4. TaskTypes' /\ MaskInv'
  BY <1>1, TaskKept DEF IInv, TaskTypes
<1> QED BY <1>2, <1>3, <1>4 DEF IInv, QueueInv

\* The first entry leaves its list.
LEMMA TakeStep ==
  ASSUME IInv, Dequeue
  PROVE  IInv'
<1>1. PICK s : s = held.sig
  OBVIOUS
<1>2. at = "take" /\ s \in Sigs /\ sigtab[s].pending /\ held.slot = INFO
  BY <1>1 DEF Dequeue, IInv, QueueInv, StepInv, QueueSound, QueueTypes
<1>3. QueueSound'
  BY <1>1, <1>2, DequeueStep DEF IInv, QueueInv
<1>4. at' = "deliver" /\ UNCHANGED <<signal_pending, raced, sigact, blocked, frames, kpending, sent>>
  BY DEF Dequeue
<1>5. StepInv'
  BY <1>4 DEF StepInv
<1>6. ~ raced' => NoticeInv'
  <2>1. sigtab \in [Sigs -> [pending : BOOLEAN, first : Seq(Waiting)]]
    BY DEF IInv, QueueInv, QueueSound, QueueTypes
  <2>2. Pending' \subseteq Pending
    BY <1>1, <1>2, <2>1 DEF Dequeue, Pending
  <2> QED BY <1>4, <2>2 DEF IInv, NoticeInv, QueuedIsNoticed
<1>7. TaskTypes' /\ MaskInv'
  BY <1>4, TaskKept DEF IInv, TaskTypes
<1> QED BY <1>3, <1>5, <1>6, <1>7 DEF IInv, QueueInv

\* The signal is handled: a handler is entered with a frame that saves the mask, or
\* the default action is taken.
LEMMA DeliverStep ==
  ASSUME IInv, Deliver
  PROVE  IInv'
<1>1. PICK s : s = held.sig
  OBVIOUS
<1>2. /\ s \in Sigs /\ at' = "loop" /\ held' = Nobody
      /\ UNCHANGED <<sigtab, signal_pending, raced, accepted, delivered, kpending, sent>>
      /\ EnterHandler(s) \/ UNCHANGED <<sigact, blocked, frames>>
      /\ first_free' = IF held.slot = INFO THEN first_free ELSE <<held.slot>> \o first_free
  <2>1. held.sig \in Sigs
    BY DEF IInv, QueueInv, QueueSound, QueueTypes
  <2> QED BY <1>1, <2>1 DEF Deliver
<1>3. QueueInv'
  <2>1. QueueSound'
    BY <1>2, FreeStep DEF IInv, QueueInv
  <2>2. StepInv'
    BY <1>2 DEF StepInv, Nobody
  <2> QED BY <2>1, <2>2 DEF QueueInv
<1>4. ~ raced' => NoticeInv'
  BY <1>2 DEF IInv, NoticeInv, QueuedIsNoticed, Pending
<1>5. TaskTypes' /\ MaskInv'
  <2>1. CASE UNCHANGED <<sigact, blocked, frames>>
    BY <1>2, <2>1, TaskKept DEF IInv, TaskTypes
  <2>2. CASE EnterHandler(s)
    <3>1. /\ frames' = Append(frames, blocked)
          /\ blocked' = blocked \cup sigact[s].mask \cup (IF sigact[s].nodefer THEN {} ELSE {s})
          /\ sigact' = IF sigact[s].resethand THEN [sigact EXCEPT ![s].handler = "DFL"] ELSE sigact
      BY <2>2 DEF EnterHandler, SavedMask
    <3>2. frames \in Seq(SUBSET Sigs) /\ blocked \in SUBSET Sigs
      BY DEF IInv, TaskTypes
    <3>3. frames' \in Seq(SUBSET Sigs) /\ frames' # <<>> /\ frames'[1] = IF frames = <<>> THEN blocked ELSE frames[1]
      BY <3>1, <3>2
    <3>4. MaskInv'
      BY <3>3 DEF IInv, MaskInv
    <3>5. sigact' \in [Sigs -> [handler : {"DFL", "IGN", "ERR", "fn"}, nodefer : BOOLEAN,
                               resethand : BOOLEAN, mask : SUBSET Sigs]]
      BY <1>2, <3>1 DEF IInv, TaskTypes
    <3>6. blocked' \in SUBSET Sigs
      BY <1>2, <3>1, <3>2 DEF IInv, TaskTypes
    <3> QED BY <1>2, <3>3, <3>4, <3>5, <3>6 DEF IInv, TaskTypes
  <2> QED BY <1>2, <2>1, <2>2
<1> QED BY <1>3, <1>4, <1>5 DEF IInv

\* Every step keeps the invariant.
LEMMA NextInv == IInv /\ [Next]_vars => IInv'
<1> SUFFICES ASSUME IInv, [Next]_vars PROVE IInv'
  OBVIOUS
<1>1. CASE GuestCall
  BY <1>1, SigactionStep, SigreturnStep DEF GuestCall
<1>2. CASE UNCHANGED vars
  <2>1. UNCHANGED <<queues, delivered, at, held>> /\ UNCHANGED <<sigact, blocked, frames, kpending, sent>>
    BY <1>2 DEF vars, queues
  <2> QED BY <2>1, QueuesKept, TaskKept DEF IInv, TaskTypes
<1>3. CASE process_pending_signals
  BY <1>3, ScanStep, ClearStep, TakeStep, DeliverStep DEF process_pending_signals
<1> QED BY <1>1, <1>2, <1>3, KernelStep, HostHandlerStep DEF Next

\* The queues, their pool, the histories and the saved masks are sound in every
\* reachable state, with host signals that arrive between any two steps of
\* process_pending_signals; and as long as none of them was queued there, a signal
\* that waits is known to the CPU loop.
THEOREM Invariant == Spec => []IInv
BY InitInv, NextInv, PTL DEF Spec

\* What host_signal_handler queued is delivered exactly once and in order, from lists
\* that share no entry of sigqueue_table, and the CPU loop knows of it, unless a signal
\* was queued inside process_pending_signals; and the mask is restored when all
\* handlers have returned.
THEOREM SignalsDelivered == Spec => []DeliveredInOrder
<1>1. IInv => DeliveredInOrder
  BY DEF IInv, QueueInv, QueueSound, NoticeInv, MaskInv, MaskRestored, DeliveredInOrder
<1> QED BY <1>1, Invariant, PTL

(***************************************************************************)
(* The build as it is                                                      *)
(***************************************************************************)

\* No signal handler of the guest has been entered.
NoHandlerEntered == frames = <<>> /\ delivered = [s \in Sigs |-> <<>>]

\* Until the emulator aborts nothing has been queued, and the CPU loop never looks.
NothingQueued == life # "aborted" => ~ signal_pending /\ at = "loop"

\* Signals are queued only together with the abort.
LEMMA QueuedThenAborted ==
  ASSUME CpuExitAborts = {TRUE}
  PROVE  NoHandlerEntered /\ NothingQueued /\ [Next]_vars => NoHandlerEntered' /\ NothingQueued'
<1> SUFFICES ASSUME NoHandlerEntered, NothingQueued, [Next]_vars PROVE NoHandlerEntered' /\ NothingQueued'
  OBVIOUS
<1>1. CASE Kernel
  BY <1>1 DEF Kernel, Continue, Send, KernelActs, Deliverable, guest, queues, NoHandlerEntered, NothingQueued
<1>2. CASE HostHandler
  <2>1. PICK e \in kpending : host_signal_handler(e)
    BY <1>2 DEF HostHandler
  <2>2. UNCHANGED <<frames, delivered, at>> /\ life = "run"
    BY <2>1 DEF host_signal_handler, guest, Deliverable
  <2>3. UNCHANGED signal_pending \/ life' = "aborted"
    BY <2>1 DEF host_signal_handler, queue_signal, cpu_exit, queues
  <2> QED BY <2>2, <2>3 DEF NoHandlerEntered, NothingQueued
<1>3. CASE GuestCall
  <2>1. UNCHANGED <<delivered, at, life, signal_pending, frames>>
    BY <1>3 DEF GuestCall, do_sigreturn, do_sigaction, queues, NoHandlerEntered
  <2> QED BY <2>1 DEF NoHandlerEntered, NothingQueued
<1>4. CASE process_pending_signals
  <2>1. life = "run" /\ ~ signal_pending /\ at = "loop"
    BY <1>4 DEF process_pending_signals, Scan, ClearPending, Dequeue, Deliver, NothingQueued
  <2> QED BY <1>4, <2>1 DEF process_pending_signals, Scan, ClearPending, Dequeue, Deliver
<1>5. CASE UNCHANGED vars
  BY <1>5 DEF vars, NoHandlerEntered, NothingQueued
<1> QED BY <1>1, <1>2, <1>3, <1>4, <1>5 DEF Next

\* With the cpu_exit of exec.c, which aborts, no handler of the guest is ever entered
\* and nothing is ever taken from the queues: the first signal that is queued ends the
\* emulator.
THEOREM NeverDelivered ==
  ASSUME CpuExitAborts = {TRUE}
  PROVE  Spec => []NoHandlerEntered
<1>1. Init => NoHandlerEntered /\ NothingQueued
  BY DEF Init, NoHandlerEntered, NothingQueued
<1>2. NoHandlerEntered /\ NothingQueued /\ [Next]_vars => (NoHandlerEntered /\ NothingQueued)'
  BY QueuedThenAborted
<1> QED BY <1>1, <1>2, PTL DEF Spec
=============================================================================
