---------------------------- MODULE RtlRxProofs -----------------------------
(***************************************************************************)
(* The safety of RtlRx for every ring size, every number of frames and     *)
(* every choice of requests and empty frames: its invariants, and that the *)
(* ring, the port and the tick together implement Mailbox.                 *)
(*                                                                         *)
(* None of the invariants is inductive alone.  The cursor stays in the     *)
(* ring because every descriptor is well formed; a frame is fed once       *)
(* because it is in one descriptor and in no history; it is answered once  *)
(* because it was fed once and the take follows the peek.                  *)
(***************************************************************************)
EXTENDS RtlRx, TLAPS

\* A descriptor the CPU owns holds a frame that was on the wire.
HeldArrived == \A i \in Desc : ~opts1[i].own => buf[i] \in 1..arrived

\* What was fed, lost or is pending was on the wire.
PastArrived == fed \cup dropped \subseteq 1..arrived

PendingWasFed == pending => frame \in fed

\* An answered request is still in the slot only between the peek and the take.
AnswerLaw ==
  \A p \in Packets :
     answered[p] # 0 => /\ answered[p] = 1
                        /\ p \in fed
                        /\ (pending /\ frame = p) => pc = "take"

IInv == /\ TypeOK /\ RingWellFormed /\ NoReplay /\ Accounted /\ StoppedIsVisible
        /\ HeldArrived /\ PastArrived /\ PendingWasFed /\ AnswerLaw
-----------------------------------------------------------------------------
(* The initial states satisfy the inductive invariant. *)
LEMMA InitIInv == Init => IInv
<1> SUFFICES ASSUME Init PROVE IInv
  OBVIOUS
<1> USE RtlRxAssumption DEF Init, PortInit, Desc, Packets, NoFrame, DescOpts1
<1>1. opts1 \in [Desc -> [own : BOOLEAN, ringEnd : BOOLEAN, sized : BOOLEAN]]
  OBVIOUS
<1>2. cursor \in Desc
  OBVIOUS
<1>3. buf \in [Desc -> Packets \cup {NoFrame}] /\ answered \in [Packets -> Nat]
  OBVIOUS
<1>4. pending \in BOOLEAN /\ rxOn \in BOOLEAN /\ overflow \in BOOLEAN
  OBVIOUS
<1>5. TypeOK
  BY <1>1, <1>2, <1>3, <1>4 DEF TypeOK
<1>6. RingWellFormed
  BY DEF RingWellFormed
<1>7. InRing = {}
  BY DEF InRing
<1>8. NoReplay /\ Accounted
  BY <1>7 DEF NoReplay, Accounted
<1>9. StoppedIsVisible /\ HeldArrived /\ PastArrived /\ PendingWasFed /\ AnswerLaw
  BY DEF StoppedIsVisible, HeldArrived, PastArrived, PendingWasFed, AnswerLaw
<1> QED
  BY <1>5, <1>6, <1>8, <1>9 DEF IInv

(* Re-arming descriptor i takes its frame out of the ring and no other,    *)
(* because no other descriptor of the CPU holds the same frame.            *)
LEMMA RearmInRing ==
  ASSUME IInv, NEW i \in Desc, ~opts1[i].own, Rearm(i), UNCHANGED buf
  PROVE  /\ InRing' = InRing \ {buf[i]}
         /\ buf[i] \in InRing
         /\ RingWellFormed'
         /\ opts1' \in [Desc -> [own : BOOLEAN, ringEnd : BOOLEAN, sized : BOOLEAN]]
<1> USE DEF IInv, Desc
<1>1. opts1' = [opts1 EXCEPT ![i] = DescOpts1(i)]
  BY DEF Rearm
<1>2. opts1'[i] = DescOpts1(i) /\ \A j \in Desc : j # i => opts1'[j] = opts1[j]
  BY <1>1 DEF TypeOK
<1>3. RingWellFormed'
  <2> SUFFICES ASSUME NEW j \in Desc
               PROVE  opts1'[j].sized /\ (opts1'[j].ringEnd <=> j + 1 = N)
    BY DEF RingWellFormed
  <2>1. CASE j = i
    <3>1. /\ DescOpts1(i).sized
          /\ DescOpts1(i).ringEnd <=> i + 1 = N
      BY Zenon DEF DescOpts1
    <3> QED
      BY <1>2, <2>1, <3>1, Zenon
  <2>2. CASE j # i
    BY <1>2, <2>2 DEF RingWellFormed
  <2> QED
    BY <2>1, <2>2
<1>4. opts1' \in [Desc -> [own : BOOLEAN, ringEnd : BOOLEAN, sized : BOOLEAN]]
  BY <1>1 DEF TypeOK, DescOpts1
<1>5. buf[i] \in InRing
  BY DEF InRing
<1>6. \A j \in Desc : ~opts1'[j].own <=> j # i /\ ~opts1[j].own
  BY <1>2 DEF DescOpts1
<1>7. \A j \in Desc : j # i /\ ~opts1[j].own => buf[j] # buf[i]
  BY DEF NoReplay
<1>8. InRing' = InRing \ {buf[i]}
  BY <1>6, <1>7 DEF InRing
<1> QED
  BY <1>3, <1>4, <1>5, <1>8

(* Every step of the chip preserves the inductive invariant. *)
LEMMA ReceiveIInv == IInv /\ ChipReceive => IInv'
<1> SUFFICES ASSUME IInv, ChipReceive PROVE IInv'
  OBVIOUS
<1> USE RtlRxAssumption DEF Desc, Packets
<1> DEFINE p == arrived + 1
<1>1. /\ cursor \in Desc /\ opts1[cursor].own /\ opts1[cursor].sized
      /\ p \in Packets /\ p \notin 1..arrived /\ arrived' = p /\ arrived \in Nat
  BY DEF IInv, TypeOK, ChipReceive, ChipCanReceive
<1>2. /\ opts1'[cursor].own = FALSE
      /\ opts1'[cursor].ringEnd = opts1[cursor].ringEnd
      /\ opts1'[cursor].sized = opts1[cursor].sized
      /\ \A j \in Desc : j # cursor => opts1'[j] = opts1[j]
      /\ opts1' \in [Desc -> [own : BOOLEAN, ringEnd : BOOLEAN, sized : BOOLEAN]]
  BY DEF IInv, TypeOK, ChipReceive
<1>3. /\ buf'[cursor] = p /\ \A j \in Desc : j # cursor => buf'[j] = buf[j]
      /\ buf' \in [Desc -> Packets \cup {NoFrame}]
  BY <1>1 DEF IInv, TypeOK, ChipReceive
<1>4. cursor' \in Desc
  BY <1>1 DEF IInv, TypeOK, RingWellFormed, ChipReceive
<1>5. TypeOK'
  BY <1>1, <1>2, <1>3, <1>4 DEF IInv, TypeOK, ChipReceive, portVars, histVars
<1>6. RingWellFormed'
  BY <1>1, <1>2 DEF IInv, RingWellFormed
<1>7. InRing' = InRing \cup {p}
  <2>1. \A j \in Desc : ~opts1'[j].own <=> (j = cursor \/ ~opts1[j].own)
    BY <1>2
  <2>2. \A j \in Desc : j # cursor /\ ~opts1[j].own => buf'[j] = buf[j]
    BY <1>3
  <2>3. cursor \in Desc /\ opts1[cursor].own /\ ~opts1'[cursor].own /\ buf'[cursor] = p
    BY <1>1, <1>2, <1>3
  <2>4. \A x : x \in InRing <=> \E j \in Desc : ~opts1[j].own /\ x = buf[j]
    BY DEF InRing
  <2>5. \A x : x \in InRing' <=> \E j \in Desc : ~opts1'[j].own /\ x = buf'[j]
    BY DEF InRing
  <2> HIDE DEF Desc, p
  <2>6. \A x : x \in InRing' <=> x \in InRing \/ x = p
    BY <2>1, <2>2, <2>3, <2>4, <2>5
  <2> QED
    BY <2>6
<1>8. HeldArrived'
  <2> SUFFICES ASSUME NEW j \in Desc, ~opts1'[j].own PROVE buf'[j] \in 1..arrived'
    BY DEF HeldArrived
  <2>1. CASE j = cursor
    BY <1>1, <1>3, <2>1
  <2>2. CASE j # cursor
    <3>1. ~opts1[j].own /\ buf'[j] = buf[j]
      BY <1>2, <1>3, <2>2
    <3>2. buf[j] \in 1..arrived
      BY <3>1 DEF IInv, HeldArrived
    <3> QED
      BY <1>1, <3>1, <3>2
  <2> QED
    BY <2>1, <2>2
<1>9. PastArrived'
  BY <1>1 DEF IInv, PastArrived, ChipReceive, histVars
<1>10. InRing \subseteq 1..arrived
  BY DEF IInv, HeldArrived, InRing
<1>11. NoReplay'
  <2>1. ASSUME NEW i \in Desc, NEW j \in Desc, i # j, ~opts1'[i].own, ~opts1'[j].own
        PROVE  buf'[i] # buf'[j]
    <3>0. p \notin 1..arrived
      BY <1>1
    <3>1. CASE i # cursor /\ j # cursor
      <4>1. ~opts1[i].own /\ ~opts1[j].own /\ buf'[i] = buf[i] /\ buf'[j] = buf[j]
        BY <1>2, <1>3, <2>1, <3>1
      <4> QED
        BY <2>1, <4>1 DEF IInv, NoReplay
    <3>2. CASE i = cursor
      <4>1. j # cursor /\ ~opts1[j].own /\ buf'[j] = buf[j]
        BY <1>2, <1>3, <2>1, <3>2
      <4>2. buf'[j] \in 1..arrived
        BY <4>1 DEF IInv, HeldArrived
      <4>3. buf'[i] = p
        BY <1>3, <3>2
      <4> QED
        BY <3>0, <4>2, <4>3
    <3>3. CASE j = cursor
      <4>1. i # cursor /\ ~opts1[i].own /\ buf'[i] = buf[i]
        BY <1>2, <1>3, <2>1, <3>3
      <4>2. buf'[i] \in 1..arrived
        BY <4>1 DEF IInv, HeldArrived
      <4>3. buf'[j] = p
        BY <1>3, <3>3
      <4> QED
        BY <3>0, <4>2, <4>3
    <3> QED
      BY <3>1, <3>2, <3>3
  <2>2. InRing' \cap (fed \cup dropped)' = {}
    BY <1>1, <1>7, <1>9 DEF IInv, NoReplay, PastArrived, ChipReceive, histVars
  <2> QED
    BY <2>1, <2>2 DEF NoReplay
<1>12. Accounted'
  BY <1>1, <1>7 DEF IInv, Accounted, ChipReceive, histVars
<1>13. StoppedIsVisible' /\ PendingWasFed' /\ AnswerLaw'
  BY DEF IInv, StoppedIsVisible, PendingWasFed, AnswerLaw, ChipReceive, histVars, portVars
<1> QED
  BY <1>5, <1>6, <1>8, <1>9, <1>11, <1>12, <1>13 DEF IInv

LEMMA LossIInv == IInv /\ (ChipOverflow \/ ChipMiss) => IInv'
<1> SUFFICES ASSUME IInv, ChipOverflow \/ ChipMiss PROVE IInv'
  OBVIOUS
<1> USE RtlRxAssumption DEF Desc, Packets, ChipOverflow, ChipMiss, portVars, ringVars
<1>0. /\ arrived < MaxPackets /\ arrived' = arrived + 1
      /\ dropped' = dropped \cup {arrived + 1} /\ fed' = fed
      /\ opts1' = opts1 /\ buf' = buf
      /\ rxOn' \in BOOLEAN /\ overflow' \in BOOLEAN
  BY DEF IInv, TypeOK
<1>1. /\ arrived + 1 \in Packets /\ arrived + 1 \notin 1..arrived
      /\ arrived' = arrived + 1 /\ arrived \in Nat
      /\ dropped' = dropped \cup {arrived + 1} /\ fed' = fed
      /\ opts1' = opts1 /\ buf' = buf /\ InRing' = InRing
  BY <1>0 DEF IInv, TypeOK, InRing
<1>2. TypeOK'
  <2>1. arrived' \in 0..MaxPackets /\ dropped' \subseteq Packets
    BY <1>1 DEF IInv, TypeOK
  <2>2. UNCHANGED <<pending, frame, cursor, pc, scan, taken, answered>>
    OBVIOUS
  <2> QED
    BY <1>0, <2>1, <2>2 DEF IInv, TypeOK
<1>3. RingWellFormed'
  BY <1>1 DEF IInv, RingWellFormed
<1>4. HeldArrived' /\ PastArrived'
  BY <1>1 DEF IInv, HeldArrived, PastArrived
<1>5. InRing \subseteq 1..arrived
  BY DEF IInv, HeldArrived, InRing
<1>6. NoReplay'
  BY <1>1, <1>5 DEF IInv, NoReplay
<1>7. Accounted'
  BY <1>1 DEF IInv, Accounted
<1>8. StoppedIsVisible' /\ PendingWasFed' /\ AnswerLaw'
  BY DEF IInv, StoppedIsVisible, PendingWasFed, AnswerLaw
<1> QED
  BY <1>2, <1>3, <1>4, <1>6, <1>7, <1>8 DEF IInv

(* A descriptor of the CPU is emptied: its frame is fed or reported, and   *)
(* the descriptor armed again.                                             *)
LEMMA ScanFeedIInv == IInv /\ ScanFeed => IInv'
<1> SUFFICES ASSUME IInv, ScanFeed PROVE IInv'
  OBVIOUS
<1> USE RtlRxAssumption DEF Desc, Packets
<1>1. /\ scan \in Desc /\ ~opts1[scan].own /\ Rearm(scan) /\ UNCHANGED buf
      /\ pc = "scan" /\ pc' = pc
  BY DEF ScanFeed, AtDesc
<1>2. /\ InRing' = InRing \ {buf[scan]} /\ buf[scan] \in InRing
      /\ RingWellFormed'
      /\ opts1' \in [Desc -> [own : BOOLEAN, ringEnd : BOOLEAN, sized : BOOLEAN]]
  BY <1>1, RearmInRing
<1>3. buf[scan] \in 1..arrived /\ buf[scan] \in Packets
  BY <1>1 DEF IInv, HeldArrived, TypeOK
<1>4. /\ fed' = fed \cup {buf[scan]} /\ pending' = TRUE /\ frame' = buf[scan]
      /\ buf[scan] \notin fed
  BY <1>2 DEF ScanFeed, Feed, IInv, NoReplay
<1>5. TypeOK'
  <2>1. scan' \in 0..N
    BY <1>1 DEF ScanFeed
  <2>2. frame' \in Packets \cup {NoFrame} /\ fed' \subseteq Packets
    BY <1>3, <1>4 DEF IInv, TypeOK
  <2> QED
    BY <1>2, <1>4, <2>1, <2>2 DEF IInv, TypeOK, ScanFeed
<1>6. \A j \in Desc : ~opts1'[j].own => ~opts1[j].own
  BY <1>1 DEF Rearm, DescOpts1, IInv, TypeOK
<1>7. NoReplay'
  BY <1>1, <1>2, <1>4, <1>6 DEF IInv, NoReplay, ScanFeed
<1>8. Accounted'
  BY <1>2, <1>4 DEF IInv, Accounted, ScanFeed
<1>9. HeldArrived' /\ PastArrived'
  BY <1>1, <1>3, <1>4, <1>6 DEF IInv, HeldArrived, PastArrived, ScanFeed
<1>10. StoppedIsVisible' /\ PendingWasFed'
  BY <1>4 DEF IInv, StoppedIsVisible, PendingWasFed, ScanFeed
<1>11. AnswerLaw'
  BY <1>1, <1>4 DEF IInv, AnswerLaw, ScanFeed
<1> QED
  BY <1>2, <1>5, <1>7, <1>8, <1>9, <1>10, <1>11 DEF IInv

LEMMA ScanErrIInv == IInv /\ ScanErr => IInv'
<1> SUFFICES ASSUME IInv, ScanErr PROVE IInv'
  OBVIOUS
<1> USE RtlRxAssumption DEF Desc, Packets
<1>1. /\ scan \in Desc /\ ~opts1[scan].own /\ Rearm(scan) /\ UNCHANGED buf
      /\ dropped' = dropped \cup {buf[scan]}
  BY DEF ScanErr, AtDesc
<1>2. /\ InRing' = InRing \ {buf[scan]} /\ buf[scan] \in InRing
      /\ RingWellFormed'
      /\ opts1' \in [Desc -> [own : BOOLEAN, ringEnd : BOOLEAN, sized : BOOLEAN]]
  BY <1>1, RearmInRing
<1>3. buf[scan] \in 1..arrived /\ buf[scan] \in Packets
  BY <1>1 DEF IInv, HeldArrived, TypeOK
<1>4. TypeOK'
  <2>1. scan' \in 0..N
    BY <1>1 DEF ScanErr
  <2>2. dropped' \subseteq Packets
    BY <1>1, <1>3 DEF IInv, TypeOK
  <2> QED
    BY <1>2, <2>1, <2>2 DEF IInv, TypeOK, ScanErr, portVars
<1>5. \A j \in Desc : ~opts1'[j].own => ~opts1[j].own
  BY <1>1 DEF Rearm, DescOpts1, IInv, TypeOK
<1>6. NoReplay'
  BY <1>1, <1>2, <1>5 DEF IInv, NoReplay, ScanErr
<1>7. Accounted'
  BY <1>1, <1>2 DEF IInv, Accounted, ScanErr
<1>8. HeldArrived' /\ PastArrived'
  BY <1>1, <1>3, <1>5 DEF IInv, HeldArrived, PastArrived, ScanErr
<1>9. StoppedIsVisible' /\ PendingWasFed' /\ AnswerLaw'
  BY DEF IInv, StoppedIsVisible, PendingWasFed, AnswerLaw, ScanErr, portVars
<1> QED
  BY <1>2, <1>4, <1>6, <1>7, <1>8, <1>9 DEF IInv

(* The steps that touch neither the ring nor the port. *)
LEMMA QuietIInv == IInv /\ (PollStatus \/ ScanSkip \/ PollDone) => IInv'
<1> SUFFICES ASSUME IInv, PollStatus \/ ScanSkip \/ PollDone PROVE IInv'
  OBVIOUS
<1> USE RtlRxAssumption
        DEF PollStatus, ScanSkip, PollDone, AtDesc, Desc, portVars, ringVars, histVars
<1>1. UNCHANGED <<portVars, opts1, buf, cursor, arrived, histVars>>
  OBVIOUS
<1>2. scan' \in 0..N /\ pc' \in {"poll", "scan", "arp", "take"}
  BY DEF IInv, TypeOK
<1>3. rxOn' \in BOOLEAN /\ overflow' \in BOOLEAN /\ StoppedIsVisible'
  BY DEF IInv, TypeOK, StoppedIsVisible
<1>4. TypeOK'
  BY <1>1, <1>2, <1>3 DEF IInv, TypeOK
<1>5. RingWellFormed' /\ HeldArrived' /\ PastArrived' /\ PendingWasFed'
  BY <1>1 DEF IInv, RingWellFormed, HeldArrived, PastArrived, PendingWasFed
<1>6. InRing' = InRing
  BY <1>1 DEF InRing
<1>7. NoReplay' /\ Accounted'
  BY <1>1, <1>6 DEF IInv, NoReplay, Accounted
<1>8. AnswerLaw'
  <2>1. pc # "take"
    OBVIOUS
  <2> QED
    BY <1>1, <2>1 DEF IInv, AnswerLaw
<1> QED
  BY <1>3, <1>4, <1>5, <1>7, <1>8 DEF IInv

(* The steps of the tick. *)
LEMMA TickIInv == IInv /\ (TickArp \/ TickTake) => IInv'
<1> SUFFICES ASSUME IInv, TickArp \/ TickTake PROVE IInv'
  OBVIOUS
<1> USE RtlRxAssumption DEF TickArp, TickTake, Take, portVars, ringVars
<1>1. UNCHANGED <<ringVars, scan, arrived, fed, dropped, frame>>
  OBVIOUS
<1>2. (pending' => pending) /\ pending' \in BOOLEAN /\ taken' \subseteq Packets
  BY DEF IInv, TypeOK, PendingWasFed
<1>3. answered' \in [Packets -> Nat]
  BY DEF IInv, TypeOK
<1>4. TypeOK'
  BY <1>1, <1>2, <1>3 DEF IInv, TypeOK
<1>5. RingWellFormed' /\ HeldArrived' /\ PastArrived' /\ StoppedIsVisible'
  BY <1>1 DEF IInv, RingWellFormed, HeldArrived, PastArrived, StoppedIsVisible
<1>6. InRing' = InRing
  BY <1>1 DEF InRing
<1>7. NoReplay' /\ Accounted'
  BY <1>1, <1>6 DEF IInv, NoReplay, Accounted
<1>8. PendingWasFed'
  BY <1>1, <1>2 DEF IInv, PendingWasFed
<1>9. AnswerLaw'
  <2> SUFFICES ASSUME NEW p \in Packets, answered'[p] # 0
               PROVE  /\ answered'[p] = 1
                      /\ p \in fed'
                      /\ (pending' /\ frame' = p) => pc' = "take"
    BY DEF AnswerLaw
  <2>1. CASE TickArp /\ p \in ArpRequester
    <3>1. pending /\ frame = p /\ pc = "arp" /\ pc' = "take"
      BY <2>1 DEF ArpRequester
    <3>2. answered[p] = 0
      BY <3>1 DEF IInv, AnswerLaw
    <3> QED
      BY <2>1, <3>1, <3>2 DEF IInv, PendingWasFed
  <2>2. CASE TickArp /\ p \notin ArpRequester
    BY <2>2 DEF IInv, AnswerLaw
  <2>3. CASE TickTake
    BY <2>3 DEF IInv, AnswerLaw
  <2> QED
    BY <2>1, <2>2, <2>3
<1> QED
  BY <1>4, <1>5, <1>7, <1>8, <1>9 DEF IInv

(* The inductive invariant, in every behaviour. *)
THEOREM Inductive == Spec => []IInv
<1>1. IInv /\ [Next]_vars => IInv'
  <2> SUFFICES ASSUME IInv, [Next]_vars PROVE IInv'
    OBVIOUS
  <2>1. CASE Chip
    BY <2>1, ReceiveIInv, LossIInv DEF Chip
  <2>2. CASE Cpu
    BY <2>2, QuietIInv, ScanFeedIInv, ScanErrIInv, TickIInv DEF Cpu
  <2>3. CASE UNCHANGED vars
    <3>1. InRing' = InRing
      BY <2>3 DEF vars, ringVars, InRing
    <3> QED
      BY <2>3, <3>1 DEF vars, portVars, ringVars, histVars, IInv, TypeOK,
                        RingWellFormed, NoReplay, Accounted, StoppedIsVisible,
                        HeldArrived, PastArrived, PendingWasFed, AnswerLaw
  <2> QED
    BY <2>1, <2>2, <2>3 DEF Next
<1> QED
  BY InitIInv, <1>1, PTL DEF Spec

(* The variables keep their types whatever the size of the ring: the       *)
(* cursor of the chip never leaves it.                                     *)
THEOREM TypeCorrect == Spec => []TypeOK
<1>1. IInv => TypeOK
  BY DEF IInv
<1> QED
  BY Inductive, <1>1, PTL

(* Whoever owns a descriptor, it says what desc_opts1 says.                *)
THEOREM RingStaysWellFormed == Spec => []RingWellFormed
<1>1. IInv => RingWellFormed
  BY DEF IInv
<1> QED
  BY Inductive, <1>1, PTL

(* No frame is in two descriptors, nor in one after it was fed.            *)
THEOREM NeverFedAgain == Spec => []NoReplay
<1>1. IInv => NoReplay
  BY DEF IInv
<1> QED
  BY Inductive, <1>1, PTL

(* Every frame that was on the wire was fed, or lost, or waits in the ring. *)
THEOREM NothingVanishes == Spec => []Accounted
<1>1. IInv => Accounted
  BY DEF IInv
<1> QED
  BY Inductive, <1>1, PTL

(* A stopped receiver shows it, so the next poll wakes it up.              *)
THEOREM StopIsSeen == Spec => []StoppedIsVisible
<1>1. IInv => StoppedIsVisible
  BY DEF IInv
<1> QED
  BY Inductive, <1>1, PTL

(* No ARP request is answered twice.                                       *)
THEOREM OneAnswer == Spec => []AnsweredOnce
<1>1. IInv => AnsweredOnce
  <2> SUFFICES ASSUME IInv, NEW p \in Packets PROVE answered[p] <= 1
    BY DEF AnsweredOnce
  <2>1. answered[p] = 0 \/ answered[p] = 1
    BY DEF IInv, AnswerLaw
  <2> QED
    BY <2>1
<1> QED
  BY Inductive, <1>1, PTL
-----------------------------------------------------------------------------
(* The ring, the port and the tick implement the mailbox: the chip's steps *)
(* are arrivals, a fed frame is posted for the first time, a request is    *)
(* answered for the first time, a take empties the slot, and everything    *)
(* else is invisible.                                                      *)
LEMMA StepImplements == IInv /\ [Next]_vars => [Box!MailNext]_(Box!mailVars)
<1> SUFFICES ASSUME IInv, [Next]_vars
             PROVE  Box!MailNext \/ UNCHANGED Box!mailVars
  OBVIOUS
<1> USE DEF Box!MailNext, Box!mailVars
<1>1. CASE Chip
  <2>1. /\ arrived' = arrived + 1 /\ arrived' \in 0..MaxPackets
        /\ UNCHANGED <<pending, frame, fed, answered>>
    BY <1>1, RtlRxAssumption
       DEF Chip, ChipReceive, ChipOverflow, ChipMiss, portVars, histVars, IInv, TypeOK
  <2> QED
    BY <2>1 DEF Box!Arrive
<1>2. CASE ScanFeed
  <2>1. buf[scan] \in (1..arrived) \ fed
    BY <1>2 DEF ScanFeed, AtDesc, IInv, HeldArrived, NoReplay, InRing
  <2>2. /\ fed' = fed \cup {buf[scan]} /\ arrived' = arrived
        /\ pending' = TRUE /\ frame' = buf[scan] /\ UNCHANGED answered
    BY <1>2 DEF ScanFeed, Feed
  <2> QED
    BY <2>1, <2>2 DEF Box!Post
<1>3. CASE TickTake
  <2>1. CASE pending
    <3>1. frame # 0
      BY <2>1 DEF IInv, PendingWasFed, PastArrived
    <3> QED
      BY <1>3, <2>1, <3>1 DEF TickTake, Take, Box!TakeOut
  <2>2. CASE ~pending
    BY <1>3, <2>2 DEF TickTake, portVars
  <2> QED
    BY <2>1, <2>2
<1>4. CASE PollStatus \/ ScanSkip \/ ScanErr \/ PollDone
  BY <1>4 DEF PollStatus, ScanSkip, ScanErr, PollDone, portVars, histVars
<1>6. CASE TickArp
  <2>1. /\ pc = "arp" /\ UNCHANGED <<pending, frame, arrived, fed>>
        /\ answered' = [p \in Packets |->
                          IF p \in ArpRequester THEN answered[p] + 1 ELSE answered[p]]
        /\ answered \in [Packets -> Nat]
    BY <1>6 DEF TickArp, portVars, IInv, TypeOK
  <2>2. CASE ArpRequester = {}
    <3>1. answered' = answered
      BY <2>1, <2>2
    <3> QED
      BY <2>1, <3>1
  <2>3. CASE ArpRequester # {}
    <3>1. pending /\ frame \in Requests /\ ArpRequester = {frame} /\ frame \in Packets
      BY <2>3, RtlRxAssumption DEF ArpRequester, Packets
    <3>2. answered[frame] = 0
      BY <2>1, <3>1 DEF IInv, AnswerLaw
    <3>3. answered' = [answered EXCEPT ![frame] = 1]
      <4>1. answered' = [p \in Packets |-> IF p = frame THEN answered[p] + 1 ELSE answered[p]]
        BY <2>1, <3>1
      <4>2. answered[frame] + 1 = 1
        BY <3>2
      <4>3. answered' = [p \in Packets |-> IF p = frame THEN 1 ELSE answered[p]]
        BY ONLY <4>1, <4>2, Zenon
      <4> QED
        BY ONLY <2>1, <4>3
    <3> QED
      BY <2>1, <3>1, <3>2, <3>3 DEF Box!Answer
  <2> QED
    BY <2>2, <2>3
<1>5. CASE UNCHANGED vars
  BY <1>5 DEF vars, portVars, histVars
<1> QED
  BY <1>1, <1>2, <1>3, <1>4, <1>5, <1>6 DEF Next, Cpu

(* Nothing is posted that never arrived, and nothing is posted or answered *)
(* twice, for every ring and every number of frames.                       *)
THEOREM ImplementsTheMailbox == Spec => ImplementsMailbox
<1>1. Init => Box!MailInit
  BY DEF Init, PortInit, Box!MailInit, Packets
<1> QED
  BY <1>1, Inductive, StepImplements, PTL DEF Spec, ImplementsMailbox, Box!MailSpec
=============================================================================
