--------------------------- MODULE DevicesProofs ----------------------------
(***************************************************************************)
(* The safety of the devices for every size of their rings, every disk,    *)
(* every machine and every number of calls.                                *)
(*                                                                         *)
(* Each part has an inductive invariant of its own, named after it and     *)
(* proved about the part's next-state relation; Devices moves one part at  *)
(* a time, so the conjunction of them is inductive for Spec.               *)
(***************************************************************************)
EXTENDS Devices, TLAPS, FiniteSetTheorems, WellFoundedInduction

-----------------------------------------------------------------------------
(* The indices of a ring of n entries. *)
LEMMA ModSmall == ASSUME NEW n \in Nat \ {0}, NEW x \in 0..(n - 1) PROVE x % n = x
  OBVIOUS

LEMMA ModWrap ==
  ASSUME NEW n \in Nat \ {0}, NEW x \in 0..(n - 1) PROVE (x + n) % n = x
  OBVIOUS

LEMMA ModNext ==
  ASSUME NEW n \in Nat \ {0}, NEW x \in 0..(n - 1)
  PROVE  (x + 1) % n = IF x + 1 = n THEN 0 ELSE x + 1
  OBVIOUS

(* The distance from b forward to a. *)
LEMMA ModDistance ==
  ASSUME NEW n \in Nat \ {0}, NEW a \in 0..(n - 1), NEW b \in 0..(n - 1)
  PROVE  (a - b + n) % n = IF b <= a THEN a - b ELSE a - b + n
<1>1. CASE b <= a
  BY <1>1, ModWrap, a - b \in 0..(n - 1)
<1>2. CASE a < b
  BY <1>2, ModSmall, a - b + n \in 0..(n - 1)
<1> QED
  BY <1>1, <1>2
-----------------------------------------------------------------------------
(* RtlTx.  A frame in the FIFO of the chip holds the descriptor, whoever   *)
(* has given up on it; and between its look at the descriptor and its copy *)
(* the telemetry is alone, so the descriptor it saw free is still free.    *)
InFlightOwned  == sending # None => own
TelemetrySawIt == txPc = "copied" /\ by = "telemetry" => ~own

\* What the chip can find in the buffer is a frame of some call.
BufferOffered == /\ own \/ txPc # "idle" => rtlBuf \in 1..MaxCalls
                 /\ sending # None => sending \in 1..MaxCalls

\* Every call that has returned was counted once.
CallsCounted == okCount + failCount = calls - (IF txPc = "idle" THEN 0 ELSE 1)

RtlIInv == /\ RtlTypeOK /\ InFlightOwned /\ TelemetrySawIt
           /\ BufferOffered /\ CallsCounted

LEMMA RtlInitIInv == RtlInit => RtlIInv
<1> SUFFICES ASSUME RtlInit PROVE RtlIInv
  OBVIOUS
<1> USE RtlTxAssumption DEF RtlInit, None, Callers
<1>1. own \in BOOLEAN /\ poked \in BOOLEAN /\ onWire \subseteq 1..MaxCalls
  OBVIOUS
<1>2. sending \in -1..MaxCalls /\ rtlBuf \in 0..MaxCalls /\ calls \in 0..MaxCalls
  OBVIOUS
<1>3. RtlTypeOK
  BY <1>1, <1>2 DEF RtlTypeOK
<1>4. InFlightOwned /\ TelemetrySawIt /\ BufferOffered /\ CallsCounted
  BY DEF InFlightOwned, TelemetrySawIt, BufferOffered, CallsCounted
<1> QED
  BY <1>3, <1>4 DEF RtlIInv

LEMMA RtlNextIInv == RtlIInv /\ RtlNext => RtlIInv'
<1> SUFFICES ASSUME RtlIInv, RtlNext PROVE RtlIInv'
  OBVIOUS
<1> USE RtlTxAssumption DEF RtlIInv, None, Callers, chipVars
<1>1. CASE ChipFetch
  <2>1. RtlTypeOK'
    <3>1. RtlTypeOK /\ rtlBuf \in -1..MaxCalls
      BY DEF RtlTypeOK
    <3> QED
      BY <1>1, <3>1 DEF ChipFetch, RtlTypeOK
  <2>2. InFlightOwned' /\ TelemetrySawIt'
    BY <1>1 DEF ChipFetch, InFlightOwned, TelemetrySawIt
  <2>3. BufferOffered' /\ CallsCounted'
    BY <1>1 DEF ChipFetch, BufferOffered, CallsCounted
  <2> QED
    BY <2>1, <2>2, <2>3
<1>2. CASE ChipComplete
  <2>1. RtlTypeOK /\ sending \in 1..MaxCalls /\ sending' = -1
    BY <1>2 DEF ChipComplete, BufferOffered
  <2>2. RtlTypeOK'
    <3>1. onWire' \subseteq 1..MaxCalls /\ sending' \in -1..MaxCalls
      BY <1>2, <2>1 DEF ChipComplete, RtlTypeOK
    <3>2. own' \in BOOLEAN
      BY <1>2 DEF ChipComplete
    <3> QED
      BY <1>2, <2>1, <3>1, <3>2 DEF ChipComplete, RtlTypeOK
  <2>3. InFlightOwned' /\ TelemetrySawIt'
    BY <1>2 DEF ChipComplete, InFlightOwned, TelemetrySawIt
  <2>4. BufferOffered' /\ CallsCounted'
    BY <1>2 DEF ChipComplete, BufferOffered, CallsCounted
  <2> QED
    BY <2>2, <2>3, <2>4
<1>3. CASE Arm
  <2>1. RtlTypeOK /\ Arm
    BY <1>3
  <2>2. RtlTypeOK'
    BY <2>1 DEF Arm, RtlTypeOK
  <2>3. InFlightOwned' /\ TelemetrySawIt' /\ BufferOffered' /\ CallsCounted'
    BY <1>3 DEF Arm, InFlightOwned, TelemetrySawIt, BufferOffered, CallsCounted
  <2> QED
    BY <2>2, <2>3
<1>4. CASE WaitDone \/ WaitTimeout
  <2>1. RtlTypeOK'
    <3>1. okCount' \in Nat /\ failCount' \in Nat /\ txPc' \in {"idle", "copied", "waiting"}
      BY <1>4 DEF WaitDone, WaitTimeout, RtlTypeOK
    <3>2. UNCHANGED <<own, poked, rtlBuf, sending, onWire, by, calls>>
      BY <1>4 DEF WaitDone, WaitTimeout
    <3> QED
      BY <3>1, <3>2 DEF RtlTypeOK
  <2>2. InFlightOwned' /\ TelemetrySawIt' /\ BufferOffered'
    BY <1>4 DEF WaitDone, WaitTimeout, InFlightOwned, TelemetrySawIt, BufferOffered
  <2>3. CallsCounted'
    BY <1>4 DEF WaitDone, WaitTimeout, CallsCounted, RtlTypeOK
  <2> QED
    BY <2>1, <2>2, <2>3
<1>5. ASSUME NEW c \in Callers, Call(c) PROVE RtlIInv'
  <2> USE <1>5 DEF Call, Copy, TxReady
  <2>1. RtlTypeOK' /\ BufferOffered'
    BY DEF RtlTypeOK, BufferOffered
  <2>2. InFlightOwned' /\ TelemetrySawIt'
    BY DEF InFlightOwned, TelemetrySawIt
  <2>3. CallsCounted'
    BY DEF RtlTypeOK, CallsCounted
  <2> QED
    BY <2>1, <2>2, <2>3
<1> QED
  BY <1>1, <1>2, <1>3, <1>4, <1>5 DEF RtlNext, RtlCpu

LEMMA RtlSafe == RtlIInv => RtlTypeOK /\ TelemetryHarmless
  BY DEF RtlIInv, InFlightOwned, TelemetrySawIt, TelemetryHarmless
-----------------------------------------------------------------------------
(* E1000Tx.  The transmitter lives through three phases.  After the boot   *)
(* the first frame is written in descriptor 0 behind the tail, so that the *)
(* chip never marks it done again: no later turn gets past it, and from    *)
(* the second frame on head and tail go round the ring once.  Until then   *)
(* index 0 stands for the end of the ring.                                 *)
End(p) == IF p = 0 THEN TxRing ELSE p

BeforeTest == /\ ~booted /\ tdh = 0 /\ tdt = 0 /\ txNext = 0 /\ filled = {}
              /\ txBuf = 0
              /\ \A i \in TxDesc : txDd[i]

Tested == /\ tdt = 1 /\ tdh \in {0, 1} /\ txNext = 0 /\ filled = {0}
          /\ txBuf = 0 /\ (tdh = 1 => wire = 0)
          /\ txDd[0] <=> tdh = 1
          /\ \A i \in 1..(TxRing - 1) : txDd[i]

Working == /\ booted /\ tdt = txNext /\ End(tdh) <= End(txNext)
           /\ filled = 0..(End(txNext) - 1)
           /\ ~txDd[0]
           /\ \A i \in 1..(TxRing - 1) :
                txDd[i] <=> ~(End(tdh) <= i /\ i < End(txNext))
           /\ End(tdh) = End(txNext) => wire = IF End(txNext) = 1 THEN 0 ELSE txBuf

TxIInv == TxTypeOK /\ txBuf <= offered /\ (BeforeTest \/ Tested \/ Working)

LEMMA TxInitIInv == TxInit => TxIInv
<1> SUFFICES ASSUME TxInit PROVE TxIInv
  OBVIOUS
<1> USE E1000TxAssumption DEF TxInit, TxDesc
<1>1. /\ tdh \in TxDesc /\ tdt \in TxDesc /\ txNext \in TxDesc
      /\ txBuf \in 0..MaxFrames /\ offered \in 0..MaxFrames /\ wire \in -1..MaxFrames
  OBVIOUS
<1>2. TxTypeOK
  BY <1>1 DEF TxTypeOK
<1> QED
  BY <1>2 DEF TxIInv, BeforeTest

(* The chip takes the descriptor at its head. *)
LEMMA ChipSendIInv == TxIInv /\ ChipSend => TxIInv'
<1> SUFFICES ASSUME TxIInv, ChipSend PROVE TxIInv'
  OBVIOUS
<1> USE E1000TxAssumption DEF TxDesc
<1>1. /\ TxTypeOK /\ tdh # tdt /\ tdh \in TxDesc
      /\ UNCHANGED <<tdt, filled, txBuf, txNext, booted, offered, lastCall>>
      /\ wire' = txBuf /\ txDd' = [txDd EXCEPT ![tdh] = TRUE]
  BY DEF TxIInv, TxTypeOK, ChipSend
<1>2. tdh' = IF tdh + 1 = TxRing THEN 0 ELSE tdh + 1
  BY <1>1, ModNext DEF ChipSend
<1>3. /\ txDd'[tdh] /\ \A i \in TxDesc : i # tdh => txDd'[i] = txDd[i]
      /\ txDd' \in [TxDesc -> BOOLEAN]
  BY <1>1 DEF TxTypeOK
<1>4. TxTypeOK' /\ txBuf' <= offered'
  <2>1. tdh' \in TxDesc /\ wire' \in -1..MaxFrames
    BY <1>1, <1>2 DEF TxTypeOK
  <2> QED
    BY <1>1, <1>3, <2>1 DEF TxTypeOK, TxIInv
<1>5. CASE Tested
  <2>1. tdh = 0 /\ tdh' = 1
    BY <1>1, <1>2, <1>5 DEF Tested
  <2>2. Tested'
    BY <1>1, <1>3, <1>5, <2>1 DEF Tested
  <2> QED
    BY <1>4, <2>2 DEF TxIInv
<1>6. CASE Working
  <2>1. /\ tdh \in 1..(TxRing - 1) /\ End(tdh) = tdh /\ tdh < End(txNext)
        /\ End(tdh') = tdh + 1 /\ End(txNext') = End(txNext)
    BY <1>1, <1>2, <1>6 DEF Working, End, TxTypeOK
  <2>2. ~txDd'[0] /\ booted' /\ tdt' = txNext' /\ filled' = 0..(End(txNext') - 1)
    BY <1>1, <1>3, <1>6, <2>1 DEF Working
  <2>3. ASSUME NEW i \in 1..(TxRing - 1)
        PROVE  txDd'[i] <=> ~(End(tdh') <= i /\ i < End(txNext'))
    <3>1. txDd[i] <=> ~(End(tdh) <= i /\ i < End(txNext))
      BY <1>6 DEF Working
    <3>2. CASE i = tdh
      BY <1>3, <2>1, <3>2
    <3>3. CASE i # tdh
      <4>1. txDd'[i] = txDd[i]
        BY <1>3, <3>3
      <4>2. End(tdh') <= i <=> End(tdh) <= i
        BY <2>1, <3>3
      <4> QED
        BY <2>1, <3>1, <4>1, <4>2
    <3> QED
      BY <3>2, <3>3
  <2>4. wire' = txBuf' /\ End(tdh') <= End(txNext') /\ End(txNext') # 1
    <3>1. End(txNext) \in Nat /\ tdh \in Nat
      BY <1>1 DEF End, TxTypeOK
    <3> QED
      BY <1>1, <2>1, <3>1
  <2>5. Working'
    BY <2>2, <2>3, <2>4 DEF Working, End
  <2> QED
    BY <1>4, <2>5 DEF TxIInv
<1>7. ~BeforeTest
  BY <1>1 DEF BeforeTest
<1> QED
  BY <1>5, <1>6, <1>7 DEF TxIInv

LEMMA TxTestIInv == TxIInv /\ (TestTx \/ TestTxEnd) => TxIInv'
<1> SUFFICES ASSUME TxIInv, TestTx \/ TestTxEnd PROVE TxIInv'
  OBVIOUS
<1> USE E1000TxAssumption DEF TxDesc
<1>1. CASE TestTx
  <2>1. BeforeTest
    BY <1>1 DEF TestTx, TxIInv, BeforeTest, Tested, Working
  <2>2. /\ txDd' = [txDd EXCEPT ![0] = FALSE] /\ tdt' = 1 /\ filled' = {0}
        /\ UNCHANGED <<tdh, txBuf, txNext, booted, offered, wire, lastCall>>
    BY <1>1 DEF TestTx
  <2>3. TxTypeOK' /\ txBuf' <= offered'
    BY <2>2 DEF TxIInv, TxTypeOK
  <2>4. ~txDd'[0] /\ \A i \in 1..(TxRing - 1) : txDd'[i]
    BY <2>1, <2>2 DEF TxIInv, TxTypeOK, BeforeTest
  <2>5. Tested'
    BY <2>1, <2>2, <2>4 DEF BeforeTest, Tested
  <2> QED
    BY <2>3, <2>5 DEF TxIInv
<1>2. CASE TestTxEnd
  <2>1. Tested
    BY <1>2 DEF TestTxEnd, TxIInv, BeforeTest, Tested, Working
  <2>2. TxTypeOK' /\ txBuf' <= offered' /\ Tested'
    BY <1>2, <2>1 DEF TestTxEnd, TxIInv, TxTypeOK, Tested
  <2> QED
    BY <2>2 DEF TxIInv
<1> QED
  BY <1>1, <1>2

(* A call that finds descriptor TX_NEXT done, or not. *)
LEMMA TxCallIInv == TxIInv /\ (TxRefuse \/ TxFrame) => TxIInv'
<1> SUFFICES ASSUME TxIInv, TxRefuse \/ TxFrame PROVE TxIInv'
  OBVIOUS
<1> USE E1000TxAssumption DEF TxDesc
<1>1. CASE TxRefuse
  <2>1. /\ offered' = offered + 1 /\ offered' \in 0..MaxFrames /\ lastCall' = "refused"
        /\ UNCHANGED <<tdh, tdt, txDd, filled, txBuf, txNext, booted, wire>>
    BY <1>1 DEF TxRefuse, TxIInv, TxTypeOK
  <2>2. TxTypeOK' /\ txBuf' <= offered'
    BY <2>1 DEF TxIInv, TxTypeOK
  <2>3. BeforeTest' = BeforeTest /\ Tested' = Tested /\ Working' = Working
    BY <2>1 DEF BeforeTest, Tested, Working
  <2> QED
    BY <2>2, <2>3 DEF TxIInv
<1>2. CASE TxFrame
  <2> DEFINE k == txNext
  <2>1. /\ booted /\ txDd[k] /\ k \in TxDesc /\ k < TxRing
        /\ txDd' = [txDd EXCEPT ![k] = FALSE] /\ filled' = filled \cup {k}
        /\ tdt' = txNext' /\ UNCHANGED <<tdh, booted, wire>>
        /\ txNext' = (k + 1) % TxRing
        /\ txBuf' = offered + 1 /\ offered' = offered + 1
        /\ offered < MaxFrames /\ lastCall' = "accepted"
    BY <1>2 DEF TxFrame, Claimed, TailValue, NextTdt, TxIInv, TxTypeOK
  <2>2. txNext' = IF k + 1 = TxRing THEN 0 ELSE k + 1
    BY <2>1, ModNext
  <2>3. /\ End(txNext') = k + 1 /\ txNext' \in TxDesc
    BY <2>1, <2>2 DEF End
  <2>4. /\ ~txDd'[k] /\ \A i \in TxDesc : i # k => txDd'[i] = txDd[i]
        /\ txDd' \in [TxDesc -> BOOLEAN]
    BY <2>1 DEF TxIInv, TxTypeOK
  <2>5. TxTypeOK' /\ txBuf' <= offered'
    <3>1. txBuf' \in 0..MaxFrames /\ offered' \in 0..MaxFrames /\ filled' \subseteq TxDesc
      BY <2>1 DEF TxIInv, TxTypeOK
    <3> QED
      BY <2>1, <2>3, <2>4, <3>1 DEF TxIInv, TxTypeOK
  <2>6. CASE Tested
    <3>1. k = 0 /\ tdh = 1 /\ End(tdh) = 1
      BY <2>1, <2>6 DEF Tested, End
    <3>2. filled' = 0..(End(txNext') - 1) /\ End(tdh') = 1 /\ End(txNext') = 1
      BY <2>1, <2>3, <2>6, <3>1 DEF Tested
    <3>3. ~txDd'[0] /\ \A i \in 1..(TxRing - 1) : txDd'[i]
      BY <2>4, <2>6, <3>1 DEF Tested
    <3>4. txDd[0] /\ wire' = 0
      BY <2>1, <2>6, <3>1 DEF Tested
    <3>5. Working'
      BY <2>1, <3>2, <3>3, <3>4 DEF Working
    <3> QED
      BY <2>5, <3>5 DEF TxIInv
  <2>7. CASE Working
    <3>0. k # 0
      BY <2>1, <2>7 DEF Working
    <3>1. k \in 1..(TxRing - 1) /\ End(k) = k /\ End(tdh) <= k
      BY <2>1, <2>7, <3>0 DEF Working, End
    <3>2. /\ ~txDd'[0] /\ filled' = 0..(End(txNext') - 1)
          /\ End(tdh') = End(tdh) /\ End(tdh') < End(txNext')
      <4>1. 0..k = 0..(k - 1) \cup {k}
        BY <3>1
      <4>2. ~txDd'[0]
        BY <2>4, <2>7, <3>1 DEF Working
      <4>3. filled' = 0..k
        BY <2>1, <2>7, <3>1, <4>1 DEF Working
      <4>4. End(tdh) \in Nat
        BY DEF TxIInv, TxTypeOK, End
      <4> QED
        BY <2>1, <2>3, <3>1, <4>2, <4>3, <4>4
    <3>3. ASSUME NEW i \in 1..(TxRing - 1)
          PROVE  txDd'[i] <=> ~(End(tdh') <= i /\ i < End(txNext'))
      <4>1. txDd[i] <=> ~(End(tdh) <= i /\ i < k)
        BY <2>7, <3>1 DEF Working
      <4>2. CASE i = k
        BY <2>3, <2>4, <3>1, <3>2, <4>2
      <4>3. CASE i # k
        <5>1. txDd'[i] = txDd[i]
          BY <2>4, <4>3
        <5>2. i < End(txNext') <=> i < k
          BY <2>3, <3>1, <4>3
        <5> QED
          BY <3>2, <4>1, <5>1, <5>2
      <4> QED
        BY <4>2, <4>3
    <3>4. End(tdh') <= End(txNext') /\ End(tdh') # End(txNext')
      <4>1. End(tdh) \in Nat
        BY DEF TxIInv, TxTypeOK, End
      <4> QED
        BY <2>3, <3>1, <3>2, <4>1
    <3>5. Working'
      BY <2>1, <3>2, <3>3, <3>4 DEF Working
    <3> QED
      BY <2>5, <3>5 DEF TxIInv
  <2>8. ~BeforeTest
    BY <2>1 DEF BeforeTest
  <2> QED
    BY <2>6, <2>7, <2>8 DEF TxIInv
<1> QED
  BY <1>1, <1>2

LEMMA TxNextIInv == TxIInv /\ [TxNext]_txVars => TxIInv'
<1> SUFFICES ASSUME TxIInv, [TxNext]_txVars PROVE TxIInv'
  OBVIOUS
<1>1. CASE UNCHANGED txVars
  <2>1. BeforeTest' = BeforeTest /\ Tested' = Tested /\ Working' = Working
    BY <1>1 DEF txVars, BeforeTest, Tested, Working
  <2>2. TxTypeOK' /\ txBuf' <= offered'
    BY <1>1 DEF txVars, TxIInv, TxTypeOK
  <2> QED
    BY <2>1, <2>2 DEF TxIInv
<1> QED
  BY <1>1, ChipSendIInv, TxTestIInv, TxCallIInv DEF TxNext

(* The phases say what the ring shows the chip. *)
LEMMA TxSafe == TxIInv => TxTypeOK /\ RingAgrees
<1> SUFFICES ASSUME TxIInv PROVE RingAgrees
  BY DEF TxIInv
<1> USE E1000TxAssumption DEF TxDesc
<1>1. tdh \in TxDesc /\ tdt \in TxDesc /\ TxTypeOK
  BY DEF TxIInv, TxTypeOK
<1>2. ASSUME NEW i \in TxDesc, Held(i) PROVE i \in filled /\ ~txDd[i]
  <2>1. Span = IF tdh <= tdt THEN tdt - tdh ELSE tdt - tdh + TxRing
    BY <1>1, ModDistance DEF Span
  <2>2. (i - tdh + TxRing) % TxRing = IF tdh <= i THEN i - tdh ELSE i - tdh + TxRing
    BY <1>1, ModDistance
  <2>3. (IF tdh <= i THEN i - tdh ELSE i - tdh + TxRing) < Span
    BY <1>2, <2>2 DEF Held
  <2>4. CASE BeforeTest
    BY <2>1, <2>3, <2>4 DEF BeforeTest
  <2>5. CASE Tested
    BY <1>1, <2>1, <2>3, <2>5 DEF Tested
  <2>6. CASE Working
    <3>1. i \in 1..(TxRing - 1) /\ End(tdh) <= i /\ i < End(txNext)
      BY <1>1, <2>1, <2>3, <2>6 DEF Working, End
    <3>2. ~txDd[i]
      BY <2>6, <3>1 DEF Working
    <3>3. i \in 0..(End(txNext) - 1)
      BY <3>1 DEF TxIInv, TxTypeOK, End
    <3> QED
      BY <2>6, <3>2, <3>3 DEF Working
  <2> QED
    BY <2>4, <2>5, <2>6 DEF TxIInv
<1>3. ASSUME booted, tdh = tdt PROVE wire = IF filled = {0} THEN 0 ELSE txBuf
  <2>1. CASE Tested
    BY <1>3, <2>1 DEF Tested
  <2>2. CASE Working
    <3>1. End(txNext) \in Nat \ {0} /\ End(tdh) = End(txNext)
      BY <1>3, <2>2 DEF TxIInv, TxTypeOK, End, Working
    <3>2. filled = {0} <=> End(txNext) = 1
      <4>1. End(txNext) # 1 => 1 \in 0..(End(txNext) - 1)
        BY <3>1
      <4>2. 0..(1 - 1) = {0}
        OBVIOUS
      <4> QED
        BY <2>2, <4>1, <4>2 DEF Working
    <3> QED
      BY <2>2, <3>1, <3>2 DEF Working
  <2> QED
    BY <1>3, <2>1, <2>2 DEF TxIInv, BeforeTest
<1>4. ASSUME booted, ~txDd[txNext] PROVE Held(txNext) \/ (txNext = 0 /\ filled = TxDesc)
  <2>1. CASE Tested
    <3>1. tdh = 0 /\ tdt = 1 /\ txNext = 0
      BY <1>4, <2>1 DEF Tested
    <3>2. Span = 1 /\ (txNext - tdh + TxRing) % TxRing = 0
      BY <1>1, <3>1, ModDistance DEF Span
    <3> QED
      BY <3>2 DEF Held
  <2>2. CASE Working
    <3>1. txNext \in TxDesc
      BY <1>1 DEF TxTypeOK
    <3>2. txNext = 0
      BY <1>4, <2>2, <3>1 DEF Working, End
    <3> QED
      BY <2>2, <3>2 DEF Working, End
  <2> QED
    BY <1>4, <2>1, <2>2 DEF TxIInv, BeforeTest
<1> QED
  BY <1>2, <1>3, <1>4 DEF RingAgrees
-----------------------------------------------------------------------------
(* E1000Rx.  RDT never moves, so the chip fills descriptors 0..RxRing-2    *)
(* once, frame i+1 in descriptor i: what is behind RDH tells what was      *)
(* received, and what is beyond was lost.  Descriptor 0 also holds, for a  *)
(* time, the frame of the software loopback.                               *)
Lent == /\ rdt = RxRing - 1
        /\ rdh <= arrived /\ (rdh < arrived => rdh = RxRing - 1)
        /\ dropped = (rdh + 1)..arrived
        /\ fed \subseteq 1..rdh \cup {LoopFrame}

Booting == rxPc \in {"testtx", "loopback"} => fed = {}

ReadingScans == reading => AtDesc

\* A descriptor that only the chip fills, and the first.
SlotLaw(i) == /\ rxDd[i] => i < rdh
              /\ i < rdh => pool[i] = i + 1 /\ (rxDd[i] \/ i + 1 \in fed)
              /\ rxDd[i] /\ ~(reading /\ i = scan) => i + 1 \notin fed
              /\ reading /\ i = scan => i + 1 \in fed

FirstLaw == /\ rxDd[0] => pool[0] \in {1, LoopFrame}
            /\ pool[0] = 1 => rdh > 0
            /\ rxDd[0] /\ ~(reading /\ scan = 0) => pool[0] \notin fed

RxIInv == /\ RxTypeOK /\ Lent /\ Booting /\ ReadingScans
          /\ \A i \in 1..(RxRing - 1) : SlotLaw(i)
          /\ FirstLaw

LEMMA RxInitIInv == RxInit => RxIInv
<1> SUFFICES ASSUME RxInit PROVE RxIInv
  OBVIOUS
<1> USE E1000RxAssumption
        DEF RxInit, PortInit, RxDesc, Packets, NoFrame, LoopFrame, Frames
<1>1. rxDd \in [RxDesc -> BOOLEAN] /\ pool \in [RxDesc -> Frames]
  OBVIOUS
<1>2. rdh \in RxDesc /\ rdt \in RxDesc /\ scan \in 0..RxRing /\ arrived \in 0..MaxPackets
  OBVIOUS
<1>3. RxTypeOK
  BY <1>1, <1>2 DEF RxTypeOK
<1>4. Lent /\ Booting /\ ReadingScans
  BY DEF Lent, Booting, ReadingScans
<1>5. FirstLaw
  BY DEF FirstLaw
<1>6. ASSUME NEW i \in 1..(RxRing - 1) PROVE SlotLaw(i)
  BY DEF SlotLaw
<1> QED
  BY <1>3, <1>4, <1>5, <1>6 DEF RxIInv

LEMMA RxChipIInv == RxIInv /\ Chip => RxIInv'
<1> SUFFICES ASSUME RxIInv, Chip PROVE RxIInv'
  OBVIOUS
<1> USE E1000RxAssumption DEF RxDesc, Packets, LoopFrame
<1>1. CASE ChipReceive
  <2>1. /\ rdh \in RxDesc /\ rdh # RxRing - 1 /\ rdh < RxRing - 1 /\ arrived = rdh
        /\ rdh + 1 \in Packets /\ arrived' = rdh + 1
        /\ pool' = [pool EXCEPT ![rdh] = rdh + 1]
        /\ rxDd' = [rxDd EXCEPT ![rdh] = TRUE]
        /\ UNCHANGED <<pending, frame, rdt, rxPc, scan, reading, fed, dropped>>
    <3>1. /\ rdh \in RxDesc /\ rdh # RxRing - 1 /\ arrived < MaxPackets
          /\ arrived \in Nat /\ rdh <= arrived /\ ~(rdh < arrived)
      BY <1>1 DEF ChipReceive, RxIInv, RxTypeOK, Lent
    <3>2. /\ arrived = rdh /\ rdh < RxRing - 1 /\ rdh + 1 \in Packets
      BY <3>1
    <3> QED
      BY <1>1, <3>1, <3>2 DEF ChipReceive, portVars, cpuVars
  <2>2. rdh' = rdh + 1
    BY <1>1, <2>1, ModNext DEF ChipReceive
  <2>3. /\ rxDd'[rdh] /\ pool'[rdh] = rdh + 1
        /\ \A i \in RxDesc : i # rdh => rxDd'[i] = rxDd[i] /\ pool'[i] = pool[i]
        /\ rxDd' \in [RxDesc -> BOOLEAN]
    BY <2>1 DEF RxIInv, RxTypeOK
  <2>4. RxTypeOK'
    <3>1. rdh' \in RxDesc /\ arrived' \in 0..MaxPackets /\ pool' \in [RxDesc -> Frames]
      BY <2>1, <2>2 DEF RxIInv, RxTypeOK, Frames
    <3> QED
      BY <2>1, <2>3, <3>1 DEF RxIInv, RxTypeOK
  <2>5. Lent'
    <3>1. dropped' = {} /\ rdh' <= arrived' /\ ~(rdh' < arrived')
      BY <2>1, <2>2 DEF RxIInv, Lent
    <3>2. (rdh' + 1)..arrived' = {}
      BY <2>1, <2>2
    <3>3. fed' \subseteq 1..rdh' \cup {LoopFrame}
      BY <2>1, <2>2 DEF RxIInv, Lent
    <3>4. rdt' = RxRing - 1
      BY <2>1 DEF RxIInv, Lent
    <3> QED
      BY <3>1, <3>2, <3>3, <3>4 DEF Lent
  <2>6. Booting' /\ ReadingScans'
    BY <2>1 DEF RxIInv, Booting, ReadingScans, AtDesc
  <2>7. rdh + 1 \notin fed
    BY <2>1 DEF RxIInv, Lent
  <2>8. ASSUME NEW i \in 1..(RxRing - 1) PROVE SlotLaw(i)'
    <3>1. SlotLaw(i)
      BY DEF RxIInv
    <3>2. CASE i = rdh
      <4>1. ~(reading /\ i = scan)
        BY <2>7, <3>1, <3>2 DEF SlotLaw
      <4>2. /\ rxDd'[i] /\ i < rdh' /\ pool'[i] = i + 1 /\ i + 1 \notin fed'
            /\ ~(reading' /\ i = scan')
        BY <2>1, <2>2, <2>3, <2>7, <3>2, <4>1
      <4> QED
        BY <4>2 DEF SlotLaw
    <3>3. CASE i # rdh
      <4>1. /\ rxDd'[i] = rxDd[i] /\ pool'[i] = pool[i]
            /\ i < rdh' <=> i < rdh
        BY <2>1, <2>2, <2>3, <3>3
      <4> QED
        BY <2>1, <3>1, <4>1 DEF SlotLaw
    <3> QED
      BY <3>2, <3>3
  <2>9. FirstLaw'
    <3>1. CASE rdh = 0
      <4>1. rxDd'[0] /\ pool'[0] = 1 /\ rdh' > 0 /\ 1 \notin fed'
        BY <2>1, <2>2, <2>3, <2>7, <3>1
      <4> QED
        BY <4>1 DEF FirstLaw
    <3>2. CASE rdh # 0
      <4>1. 0 \in RxDesc /\ rdh' > 0
        BY <2>1, <2>2
      <4>2. rxDd'[0] = rxDd[0] /\ pool'[0] = pool[0]
        BY <2>3, <3>2, <4>1
      <4>3. FirstLaw
        BY DEF RxIInv
      <4>4. scan' = scan /\ reading' = reading /\ fed' = fed
        BY <2>1
      <4>5. (pool[0] = 1 => rdh > 0)'
        BY <4>1
      <4> QED
        BY <4>2, <4>3, <4>4, <4>5, Zenon DEF FirstLaw
    <3> QED
      BY <3>1, <3>2
  <2> QED
    BY <2>4, <2>5, <2>6, <2>8, <2>9 DEF RxIInv
<1>2. CASE ChipNoBuffer
  <2>1. /\ rdh = RxRing - 1 /\ arrived \in 0..(MaxPackets - 1) /\ arrived' = arrived + 1
        /\ dropped' = dropped \cup {arrived + 1} /\ rdh <= arrived
        /\ UNCHANGED <<pending, frame, rdh, rdt, rxDd, pool, rxPc, scan, reading, fed>>
    BY <1>2 DEF ChipNoBuffer, RxIInv, RxTypeOK, Lent, portVars, ringVars, cpuVars
  <2>2. Lent'
    <3>1. dropped' = (rdh' + 1)..arrived'
      BY <2>1 DEF RxIInv, Lent
    <3> QED
      BY <2>1, <3>1 DEF RxIInv, Lent
  <2>3. RxTypeOK'
    <3>1. arrived' \in 0..MaxPackets /\ dropped' \subseteq Packets
      BY <2>1 DEF RxIInv, RxTypeOK
    <3> QED
      BY <2>1, <3>1 DEF RxIInv, RxTypeOK
  <2>4. Booting' /\ ReadingScans'
    BY <2>1 DEF RxIInv, Booting, ReadingScans, AtDesc
  <2>5. FirstLaw' /\ \A i \in 1..(RxRing - 1) : SlotLaw(i)'
    BY <2>1 DEF RxIInv, FirstLaw, SlotLaw
  <2> QED
    BY <2>2, <2>3, <2>4, <2>5 DEF RxIInv
<1> QED
  BY <1>1, <1>2 DEF Chip

(* The scan feeds a descriptor, then clears it. *)
LEMMA RxScanIInv == RxIInv /\ (ScanSkip \/ ScanFeed \/ ScanClear) => RxIInv'
<1> SUFFICES ASSUME RxIInv, ScanSkip \/ ScanFeed \/ ScanClear PROVE RxIInv'
  OBVIOUS
<1> USE E1000RxAssumption DEF RxDesc, Packets, LoopFrame
<1>1. CASE ScanSkip
  <2>1. /\ AtDesc /\ ~reading /\ scan' = scan + 1 /\ scan' \in 0..RxRing
        /\ UNCHANGED <<pending, frame, rdh, rdt, rxDd, pool, rxPc, reading, arrived, fed, dropped>>
    BY <1>1 DEF ScanSkip, AtDesc, portVars, ringVars
  <2>2. RxTypeOK'
    BY <2>1 DEF RxIInv, RxTypeOK
  <2>3. Lent' /\ Booting' /\ ReadingScans'
    BY <2>1 DEF RxIInv, Lent, Booting, ReadingScans
  <2>4. FirstLaw' /\ \A i \in 1..(RxRing - 1) : SlotLaw(i)'
    BY <2>1 DEF RxIInv, FirstLaw, SlotLaw
  <2> QED
    BY <2>2, <2>3, <2>4 DEF RxIInv
<1>2. CASE ScanFeed
  <2>1. /\ AtDesc /\ scan \in RxDesc /\ ~reading /\ rxDd[scan]
        /\ frame' = pool[scan] /\ pending' = TRUE /\ fed' = fed \cup {pool[scan]}
        /\ reading' = TRUE
        /\ UNCHANGED <<rdh, rdt, rxDd, pool, rxPc, scan, arrived, dropped>>
    BY <1>2 DEF ScanFeed, Feed, AtDesc, ringVars
  <2> DEFINE Fed == /\ FirstLaw' /\ \A i \in 1..(RxRing - 1) : SlotLaw(i)'
                    /\ pool[scan] \in 1..rdh \cup {LoopFrame}
  <2>2. ASSUME scan = 0 PROVE Fed
    <3>1. pool[0] \in {1, LoopFrame} /\ (pool[0] = 1 => rdh > 0)
      BY <2>1, <2>2 DEF RxIInv, FirstLaw
    <3>2. pool[scan] \in 1..rdh \cup {LoopFrame}
      BY <2>2, <3>1 DEF RxIInv, RxTypeOK
    <3>3. \A i \in 1..(RxRing - 1) : pool[scan] # i + 1
      BY <2>2, <3>1
    <3>4. \A i \in 1..(RxRing - 1) : SlotLaw(i)'
      <4> SUFFICES ASSUME NEW i \in 1..(RxRing - 1) PROVE SlotLaw(i)'
        OBVIOUS
      <4>1. SlotLaw(i) /\ i # scan /\ (i + 1 \in fed' <=> i + 1 \in fed)
        BY <2>1, <2>2, <3>3 DEF RxIInv
      <4> QED
        BY <2>1, <4>1 DEF SlotLaw
    <3>5. FirstLaw'
      BY <2>1, <2>2, <3>1 DEF FirstLaw
    <3> QED
      BY <3>2, <3>4, <3>5
  <2>3. ASSUME scan # 0 PROVE Fed
    <3>1. scan \in 1..(RxRing - 1) /\ SlotLaw(scan)
      BY <2>1, <2>3 DEF RxIInv
    <3>2. scan < rdh /\ pool[scan] = scan + 1
      BY <2>1, <3>1 DEF SlotLaw
    <3>3. pool[scan] \in 1..rdh \cup {LoopFrame}
      BY <2>1, <3>2 DEF RxIInv, RxTypeOK
    <3>4. \A i \in 1..(RxRing - 1) : SlotLaw(i)'
      <4> SUFFICES ASSUME NEW i \in 1..(RxRing - 1) PROVE SlotLaw(i)'
        OBVIOUS
      <4>1. SlotLaw(i)
        BY DEF RxIInv
      <4>2. CASE i = scan
        BY <2>1, <3>2, <4>1, <4>2 DEF SlotLaw
      <4>3. CASE i # scan
        <5>1. i + 1 \in fed' <=> i + 1 \in fed
          BY <2>1, <3>2, <4>3
        <5> QED
          BY <2>1, <4>1, <4>3, <5>1 DEF SlotLaw
      <4> QED
        BY <4>2, <4>3
    <3>5. FirstLaw'
      <4>1. FirstLaw /\ (rxDd[0] => pool[0] \in {1, -1}) /\ pool[scan] \notin {1, -1}
        BY <2>1, <2>3, <3>2 DEF RxIInv, FirstLaw
      <4>2. rxDd[0] => (pool[0] \in fed' <=> pool[0] \in fed)
        BY <2>1, <4>1
      <4> QED
        BY <2>1, <2>3, <4>1, <4>2 DEF FirstLaw
    <3> QED
      BY <3>3, <3>4, <3>5
  <2>4. Fed
    BY <2>2, <2>3
  <2>5. Lent'
    BY <2>1, <2>4 DEF RxIInv, Lent
  <2>6. RxTypeOK'
    <3>1. fed' \subseteq Packets \cup {LoopFrame}
      BY <2>1, <2>5 DEF RxIInv, RxTypeOK, Lent
    <3>2. frame' \in Frames
      BY <2>1 DEF RxIInv, RxTypeOK
    <3> QED
      BY <2>1, <3>1, <3>2 DEF RxIInv, RxTypeOK
  <2>7. Booting' /\ ReadingScans'
    BY <2>1 DEF AtDesc, Booting, ReadingScans
  <2> QED
    BY <2>4, <2>5, <2>6, <2>7 DEF RxIInv
<1>3. CASE ScanClear
  <2>1. /\ AtDesc /\ scan \in RxDesc /\ reading /\ reading' = FALSE
        /\ scan' = scan + 1 /\ scan' \in 0..RxRing
        /\ rxDd' = [rxDd EXCEPT ![scan] = FALSE]
        /\ UNCHANGED <<pending, frame, rdh, rdt, pool, rxPc, arrived, fed, dropped>>
    BY <1>3 DEF ScanClear, Clear, AtDesc, portVars
  <2>2. /\ ~rxDd'[scan] /\ \A i \in RxDesc : i # scan => rxDd'[i] = rxDd[i]
        /\ rxDd' \in [RxDesc -> BOOLEAN]
    BY <2>1 DEF RxIInv, RxTypeOK
  <2>3. RxTypeOK'
    BY <2>1, <2>2 DEF RxIInv, RxTypeOK
  <2>4. Lent' /\ Booting' /\ ReadingScans'
    BY <2>1 DEF RxIInv, Lent, Booting, ReadingScans
  <2>5. \A i \in 1..(RxRing - 1) : SlotLaw(i)'
    <3> SUFFICES ASSUME NEW i \in 1..(RxRing - 1) PROVE SlotLaw(i)'
      OBVIOUS
    <3>1. SlotLaw(i)
      BY DEF RxIInv
    <3>2. CASE i = scan
      BY <2>1, <2>2, <3>1, <3>2 DEF SlotLaw
    <3>3. CASE i # scan
      <4>1. rxDd'[i] = rxDd[i]
        BY <2>2, <3>3
      <4> QED
        BY <2>1, <3>1, <3>3, <4>1 DEF SlotLaw
    <3> QED
      BY <3>2, <3>3
  <2>6. FirstLaw'
    <3>1. CASE scan = 0
      BY <2>1, <2>2, <3>1 DEF RxIInv, FirstLaw
    <3>2. CASE scan # 0
      <4>1. 0 \in RxDesc
        OBVIOUS
      <4>2. rxDd'[0] = rxDd[0] /\ FirstLaw
        BY <2>2, <3>2, <4>1 DEF RxIInv
      <4> QED
        BY <2>1, <3>2, <4>2 DEF FirstLaw
    <3> QED
      BY <3>1, <3>2
  <2> QED
    BY <2>3, <2>4, <2>5, <2>6 DEF RxIInv
<1> QED
  BY <1>1, <1>2, <1>3

(* The boot: the loopback overwrites what the chip has in descriptor 0. *)
LEMMA RxBootIInv == RxIInv /\ (TestTxReturns \/ LoopbackTest) => RxIInv'
<1> SUFFICES ASSUME RxIInv, TestTxReturns \/ LoopbackTest PROVE RxIInv'
  OBVIOUS
<1> USE E1000RxAssumption DEF RxDesc, Packets, LoopFrame
<1>1. CASE TestTxReturns
  <2>1. /\ rxPc = "testtx" /\ rxPc' = "loopback" /\ ~reading
        /\ UNCHANGED <<pending, frame, rdh, rdt, rxDd, pool, scan, reading, arrived, fed, dropped>>
    BY <1>1 DEF TestTxReturns, portVars, ringVars, RxIInv, ReadingScans, AtDesc
  <2>2. RxTypeOK' /\ Lent' /\ Booting' /\ ReadingScans'
    BY <2>1 DEF RxIInv, RxTypeOK, Lent, Booting, ReadingScans
  <2>3. FirstLaw' /\ \A i \in 1..(RxRing - 1) : SlotLaw(i)'
    BY <2>1 DEF RxIInv, FirstLaw, SlotLaw
  <2> QED
    BY <2>2, <2>3 DEF RxIInv
<1>2. CASE LoopbackTest
  <2>1. /\ rxPc = "loopback" /\ rxPc' = "scan" /\ scan' = 0 /\ ~reading /\ fed = {}
        /\ pool' = [pool EXCEPT ![0] = LoopFrame] /\ rxDd' = [rxDd EXCEPT ![0] = TRUE]
        /\ UNCHANGED <<pending, frame, rdh, rdt, reading, arrived, fed, dropped>>
    BY <1>2 DEF LoopbackTest, portVars, RxIInv, ReadingScans, AtDesc, Booting
  <2>2. /\ pool'[0] = LoopFrame /\ rxDd'[0]
        /\ \A i \in RxDesc : i # 0 => pool'[i] = pool[i] /\ rxDd'[i] = rxDd[i]
        /\ rxDd' \in [RxDesc -> BOOLEAN] /\ pool' \in [RxDesc -> Frames]
    BY <2>1 DEF RxIInv, RxTypeOK, Frames
  <2>3. RxTypeOK'
    BY <2>1, <2>2 DEF RxIInv, RxTypeOK
  <2>4. Lent' /\ Booting' /\ ReadingScans'
    BY <2>1 DEF RxIInv, Lent, Booting, ReadingScans
  <2>5. FirstLaw'
    BY <2>1, <2>2 DEF FirstLaw
  <2>6. ASSUME NEW i \in 1..(RxRing - 1) PROVE SlotLaw(i)'
    <3>1. SlotLaw(i) /\ i \in RxDesc /\ i # 0
      BY DEF RxIInv
    <3>2. rxDd'[i] = rxDd[i] /\ pool'[i] = pool[i]
      BY <2>2, <3>1
    <3> QED
      BY <2>1, <3>1, <3>2 DEF SlotLaw
  <2> QED
    BY <2>3, <2>4, <2>5, <2>6 DEF RxIInv
<1> QED
  BY <1>1, <1>2

(* The steps of the loop and of the tick leave the ring alone. *)
LEMMA RxTickIInv ==
  RxIInv /\ (Poll \/ PollDone \/ TickArp \/ TickTake \/ TickEnds) => RxIInv'
<1> SUFFICES ASSUME RxIInv, Poll \/ PollDone \/ TickArp \/ TickTake \/ TickEnds
             PROVE  RxIInv'
  OBVIOUS
<1> USE E1000RxAssumption DEF RxDesc, Packets, LoopFrame
<1>1. ~reading
  BY DEF RxIInv, ReadingScans, AtDesc, RxTypeOK, Poll, PollDone, TickArp, TickTake, TickEnds
<1>2. /\ UNCHANGED <<frame, rdh, rdt, rxDd, pool, reading, arrived, fed, dropped>>
      /\ rxPc' \in {"poll", "scan", "arp", "take", "rest"} /\ scan' \in {0, scan}
  BY DEF Poll, PollDone, TickArp, TickTake, TickEnds, Take, portVars, ringVars
<1>3. pending' \in BOOLEAN
  BY DEF Poll, PollDone, TickArp, TickTake, TickEnds, Take, portVars, RxIInv, RxTypeOK
<1>4. RxTypeOK'
  BY <1>2, <1>3 DEF RxIInv, RxTypeOK
<1>5. Lent' /\ Booting' /\ ReadingScans'
  BY <1>1, <1>2 DEF RxIInv, Lent, Booting, ReadingScans
<1>6. FirstLaw'
  BY <1>1, <1>2 DEF RxIInv, FirstLaw
<1>7. \A i \in 1..(RxRing - 1) : SlotLaw(i)'
  BY <1>1, <1>2 DEF RxIInv, SlotLaw
<1> QED
  BY <1>4, <1>5, <1>6, <1>7 DEF RxIInv

LEMMA RxNextIInv == RxIInv /\ [RxNext]_rxVars => RxIInv'
<1> SUFFICES ASSUME RxIInv, [RxNext]_rxVars PROVE RxIInv'
  OBVIOUS
<1>1. CASE UNCHANGED rxVars
  <2>1. UNCHANGED <<pending, frame, rdh, rdt, rxDd, pool, rxPc, scan, reading, arrived, fed, dropped>>
    BY <1>1 DEF rxVars, portVars, ringVars, cpuVars
  <2>2. RxTypeOK' /\ Lent' /\ Booting' /\ ReadingScans'
    BY <2>1 DEF RxIInv, RxTypeOK, Lent, Booting, ReadingScans, AtDesc
  <2>3. FirstLaw' /\ \A i \in 1..(RxRing - 1) : SlotLaw(i)'
    BY <2>1 DEF RxIInv, FirstLaw, SlotLaw
  <2> QED
    BY <2>2, <2>3 DEF RxIInv
<1> QED
  BY <1>1, RxChipIInv, RxScanIInv, RxBootIInv, RxTickIInv DEF RxNext, RxCpu

LEMMA RxSafe == RxIInv => RxTypeOK /\ EachFrameOnce
<1> SUFFICES ASSUME RxIInv PROVE EachFrameOnce
  BY DEF RxIInv
<1> USE E1000RxAssumption DEF RxDesc, Packets, LoopFrame
<1>1. ASSUME NEW i \in RxDesc, rxDd[i], ~(reading /\ i = scan) PROVE pool[i] \notin fed
  <2>1. CASE i = 0
    BY <1>1, <2>1 DEF RxIInv, FirstLaw
  <2>2. CASE i # 0
    <3>1. i \in 1..(RxRing - 1) /\ SlotLaw(i)
      BY <2>2 DEF RxIInv
    <3> QED
      BY <1>1, <3>1 DEF SlotLaw
  <2> QED
    BY <2>1, <2>2
<1>2. ASSUME NEW n \in 1..arrived, n \notin fed, n \notin dropped, n \notin InRing
      PROVE  n = 1
  <2> SUFFICES ASSUME n # 1 PROVE FALSE
    OBVIOUS
  <2>1. rdh \in RxDesc /\ arrived \in Nat /\ n <= rdh
    BY <1>2 DEF RxIInv, RxTypeOK, Lent
  <2> DEFINE i == n - 1
  <2>2. i \in 1..(RxRing - 1) /\ i < rdh
    BY <2>1
  <2>3. SlotLaw(i)
    BY <2>2 DEF RxIInv
  <2>4. pool[i] = n /\ rxDd[i]
    BY <1>2, <2>2, <2>3 DEF SlotLaw
  <2> QED
    BY <1>2, <2>2, <2>4 DEF InRing
<1>3. NotFedYet \cap fed = {}
  BY <1>1 DEF NotFedYet
<1> QED
  BY <1>2, <1>3 DEF EachFrameOnce
-----------------------------------------------------------------------------
(* Hda.  The verbs in CORB are the last ones sent, counted back from its   *)
(* write pointer; the distance from its read pointer is what the codec has *)
(* not answered.  Each call that returns an answer has seen RIRB move, so  *)
(* that distance grows only by a verb that is given up.                    *)
Ring == 0..(Entries - 1)

\* The verbs sent, and the entry of CORB written j sends ago.
Sent    == IF linkPc = "send" THEN verb - 1 ELSE verb
Back(j) == IF j <= corbwp THEN corbwp - j ELSE corbwp - j + Entries

Unanswered == IF corbrp <= corbwp THEN corbwp - corbrp ELSE corbwp - corbrp + Entries

CorbHolds == /\ corb \in [Ring -> 0..MaxVerbs] /\ rirb \in [Ring -> 0..MaxVerbs]
             /\ \A j \in Ring : j < Sent => corb[Back(j)] = Sent - j

GivenUp == /\ unheard \subseteq 1..verb
           /\ linkPc # "free" => verb \notin unheard
           /\ linkPc # "free" => verb > 0

\* What the codec owes, and how old the last answer is.
Owed == LET u == Cardinality(unheard) IN
  /\ Unanswered <= Sent
  /\ Unanswered <= u + (IF linkPc = "wait" THEN 1 ELSE 0)
  /\ linkPc \in {"send", "wait"} /\ rirbwp # oldRp =>
       Unanswered + (IF linkPc = "send" THEN 1 ELSE 0) <= u

LastAnswer == LET age == verb - rirb[rirbwp] IN
  linkPc = "read" \/ (linkPc \in {"send", "wait"} /\ rirbwp # oldRp) =>
    rirb[rirbwp] <= Sent /\ age <= Cardinality(unheard)

LinkIInv == LinkTypeOK /\ CorbHolds /\ GivenUp /\ Owed /\ LastAnswer /\ AnswersLag

LEMMA LinkInitIInv == LinkInit => LinkIInv
<1> SUFFICES ASSUME LinkInit PROVE LinkIInv
  OBVIOUS
<1> USE HdaAssumption DEF LinkInit, Ring
<1>1. LinkTypeOK
  BY DEF LinkTypeOK
<1>2. CorbHolds /\ GivenUp
  BY DEF CorbHolds, GivenUp, Sent
<1>3. Cardinality(unheard) = 0
  BY FS_EmptySet
<1>4. Owed /\ LastAnswer /\ AnswersLag
  BY <1>3 DEF Owed, LastAnswer, AnswersLag, Unanswered, Sent
<1> QED
  BY <1>1, <1>2, <1>4 DEF LinkIInv

\* The verbs given up are finitely many, and one more is one more.
LEMMA UnheardCount ==
  ASSUME LinkIInv
  PROVE  /\ Cardinality(unheard) \in Nat
         /\ linkPc # "free" => Cardinality(unheard \cup {verb}) = Cardinality(unheard) + 1
<1>1. verb \in Nat /\ unheard \subseteq 1..verb
  BY HdaAssumption DEF LinkIInv, LinkTypeOK, GivenUp
<1>2. IsFiniteSet(unheard)
  <2>1. IsFiniteSet(1..verb) /\ unheard \in SUBSET (1..verb)
    BY <1>1, FS_Interval
  <2> QED
    BY <2>1, FS_Subset
<1> QED
  BY <1>2, FS_CardinalityType, FS_AddElement DEF LinkIInv, GivenUp

LEMMA CodecAnswersIInv == LinkIInv /\ CodecAnswers => LinkIInv'
<1> SUFFICES ASSUME LinkIInv, CodecAnswers PROVE LinkIInv'
  OBVIOUS
<1> USE HdaAssumption DEF Ring
<1> DEFINE u == Cardinality(unheard)
<1>0. u \in Nat
  BY UnheardCount
<1>1. /\ corbrp \in Ring /\ corbwp \in Ring /\ rirbwp \in Ring /\ oldRp \in Ring
      /\ verb \in 0..MaxVerbs /\ corbrp # corbwp /\ linkPc \in {"free", "send", "wait", "read"}
      /\ UNCHANGED <<corb, corbwp, halts, verb, oldRp, linkPc, heardOf, unheard>>
      /\ rirb' = [rirb EXCEPT ![rirbwp'] = corb[corbrp']]
  BY DEF CodecAnswers, LinkIInv, LinkTypeOK
<1>2. /\ corbrp' = IF corbrp + 1 = Entries THEN 0 ELSE corbrp + 1
      /\ rirbwp' = IF rirbwp + 1 = Entries THEN 0 ELSE rirbwp + 1
  BY <1>1, ModNext DEF CodecAnswers, After
<1>3. corbrp' \in Ring /\ rirbwp' \in Ring
  BY <1>1, <1>2
<1>4. /\ Unanswered \in Nat \ {0} /\ Unanswered' = Unanswered - 1
      /\ Unanswered' \in Ring /\ Back(Unanswered') = corbrp'
  BY <1>1, <1>2 DEF Unanswered, Back
<1>5. Unanswered <= Sent /\ Sent \in Nat /\ Sent' = Sent
  BY <1>1 DEF LinkIInv, Owed, GivenUp, Sent
<1>6. corb[corbrp'] = Sent - Unanswered'
  BY <1>4, <1>5 DEF LinkIInv, CorbHolds
<1>7. /\ rirb' \in [Ring -> 0..MaxVerbs] /\ rirb'[rirbwp'] = Sent - Unanswered'
  BY <1>1, <1>3, <1>6 DEF LinkIInv, CorbHolds
<1>8. LinkTypeOK'
  <2>1. \A i \in 0..(Entries - 1) : {corb'[i], rirb'[i]} \subseteq 0..MaxVerbs
    BY <1>1, <1>7 DEF LinkIInv, CorbHolds
  <2> QED
    BY <1>1, <1>3, <2>1 DEF LinkTypeOK
<1>9. CorbHolds' /\ GivenUp'
  BY <1>1, <1>5, <1>7 DEF LinkIInv, CorbHolds, GivenUp, Back
<1>10. Owed'
  BY <1>0, <1>1, <1>4, <1>5 DEF LinkIInv, Owed
<1>11. LastAnswer'
  <2>1. verb - Sent \in {0, 1} /\ (verb - Sent = 1 <=> linkPc = "send")
    BY <1>1 DEF Sent
  <2>2. ASSUME linkPc # "free" PROVE verb - (Sent - (Unanswered - 1)) <= u
    BY <1>0, <1>1, <1>4, <1>5, <2>1, <2>2 DEF LinkIInv, Owed
  <2> QED
    BY <1>0, <1>1, <1>4, <1>5, <1>7, <2>2 DEF LastAnswer
<1>12. AnswersLag'
  BY <1>1 DEF LinkIInv, AnswersLag
<1> QED
  BY <1>8, <1>9, <1>10, <1>11, <1>12 DEF LinkIInv

LEMMA VerbSendIInv == LinkIInv /\ VerbSend => LinkIInv'
<1> SUFFICES ASSUME LinkIInv, VerbSend PROVE LinkIInv'
  OBVIOUS
<1> USE HdaAssumption DEF Ring
<1> DEFINE u == Cardinality(unheard)
<1>0. u \in Nat
  BY UnheardCount
<1>1. /\ corbrp \in Ring /\ corbwp \in Ring /\ rirbwp \in Ring /\ oldRp \in Ring
      /\ verb \in 1..MaxVerbs /\ linkPc = "send" /\ linkPc' = "wait"
      /\ UNCHANGED <<corbrp, rirb, rirbwp, rirbsts, halts, verb, oldRp, heardOf, unheard>>
      /\ corb' = [corb EXCEPT ![corbwp'] = verb]
      /\ Sent = verb - 1 /\ Sent' = verb
  BY DEF VerbSend, LinkIInv, LinkTypeOK, GivenUp, linkChip, Sent
<1>2. corbwp' = (IF corbwp + 1 = Entries THEN 0 ELSE corbwp + 1) /\ corbwp' \in Ring
  BY <1>1, ModNext DEF VerbSend, After
<1>3. /\ corb'[corbwp'] = verb /\ corb' \in [Ring -> 0..MaxVerbs]
      /\ \A i \in Ring : i # corbwp' => corb'[i] = corb[i]
  BY <1>1, <1>2 DEF LinkIInv, CorbHolds
<1>4. LinkTypeOK'
  BY <1>1, <1>2, <1>3 DEF LinkIInv, LinkTypeOK, CorbHolds
<1>5. CorbHolds'
  <2>1. ASSUME NEW j \in Ring, j < Sent' PROVE corb'[Back(j)'] = Sent' - j
    <3>1. CASE j = 0
      <4>1. Back(0)' = corbwp'
        BY <1>2 DEF Back
      <4> QED
        BY <1>1, <1>3, <3>1, <4>1
    <3>2. CASE j # 0
      <4>1. j - 1 \in Ring /\ j - 1 < Sent
        BY <1>1, <2>1, <3>2
      <4>2. Back(j)' = Back(j - 1) /\ Back(j - 1) \in Ring /\ Back(j - 1) # corbwp'
        BY <1>1, <1>2, <3>2, <4>1 DEF Back
      <4>3. corb[Back(j - 1)] = Sent - (j - 1)
        BY <4>1 DEF LinkIInv, CorbHolds
      <4> QED
        BY <1>1, <1>3, <4>2, <4>3
    <3> QED
      BY <3>1, <3>2
  <2> QED
    BY <1>1, <1>3, <2>1 DEF LinkIInv, CorbHolds
<1>6. GivenUp' /\ AnswersLag'
  BY <1>1 DEF LinkIInv, GivenUp, AnswersLag
<1>7. /\ Unanswered \in Ring
      /\ Unanswered' = IF Unanswered = Entries - 1 THEN 0 ELSE Unanswered + 1
  BY <1>1, <1>2 DEF Unanswered
<1>8. Owed'
  BY <1>0, <1>1, <1>7 DEF LinkIInv, Owed
<1>9. LastAnswer'
  <2>1. rirb[rirbwp] \in Nat /\ rirb' = rirb /\ rirbwp' = rirbwp
    BY <1>1 DEF LinkIInv, CorbHolds
  <2> QED
    BY <1>0, <1>1, <2>1 DEF LinkIInv, LastAnswer
<1> QED
  BY <1>4, <1>5, <1>6, <1>8, <1>9 DEF LinkIInv

(* The steps of the driver that touch neither ring. *)
LEMMA VerbLocalIInv == LinkIInv /\ (VerbCall \/ VerbWait \/ VerbRead) => LinkIInv'
<1> SUFFICES ASSUME LinkIInv, VerbCall \/ VerbWait \/ VerbRead PROVE LinkIInv'
  OBVIOUS
<1> USE HdaAssumption DEF Ring
<1>0. /\ Cardinality(unheard) \in Nat
      /\ linkPc # "free" => Cardinality(unheard \cup {verb}) = Cardinality(unheard) + 1
  BY UnheardCount
<1>1. /\ UNCHANGED <<corb, corbwp, corbrp, rirb, rirbwp, halts>>
      /\ Unanswered' = Unanswered /\ \A j \in Ring : Back(j)' = Back(j)
      /\ rirbwp \in Ring /\ verb \in 0..MaxVerbs /\ rirb[rirbwp] \in 0..MaxVerbs
  BY DEF VerbCall, VerbWait, VerbRead, linkChip, Unanswered, Back, LinkIInv, LinkTypeOK
<1>2. CASE VerbCall
  <2>1. /\ linkPc = "free" /\ linkPc' = "send" /\ verb' = verb + 1 /\ verb' \in 0..MaxVerbs
        /\ oldRp' = rirbwp /\ UNCHANGED <<heardOf, unheard>> /\ Sent = verb /\ Sent' = verb
    BY <1>1, <1>2 DEF VerbCall, Before, Sent
  <2>2. LinkTypeOK' /\ CorbHolds'
    BY <1>1, <2>1 DEF LinkIInv, LinkTypeOK, CorbHolds
  <2>3. GivenUp' /\ AnswersLag'
    BY <1>1, <2>1 DEF LinkIInv, GivenUp, AnswersLag
  <2>4. Owed' /\ LastAnswer'
    BY <1>1, <2>1 DEF LinkIInv, Owed, LastAnswer
  <2> QED
    BY <2>2, <2>3, <2>4 DEF LinkIInv
<1>3. CASE VerbWait
  <2>1. /\ linkPc = "wait" /\ UNCHANGED <<verb, oldRp>> /\ Sent = verb
    BY <1>3 DEF VerbWait, Sent
  <2>2. CASE rirbwp # oldRp /\ linkPc' = "read" /\ UNCHANGED <<heardOf, unheard>>
    <3>1. Sent' = Sent
      BY <2>1, <2>2 DEF Sent
    <3>2. LinkTypeOK' /\ CorbHolds'
      BY <1>1, <2>1, <2>2, <3>1 DEF LinkIInv, LinkTypeOK, CorbHolds
    <3>3. GivenUp' /\ AnswersLag'
      BY <2>1, <2>2 DEF LinkIInv, GivenUp, AnswersLag
    <3>4. Owed' /\ LastAnswer'
      <4>1. rirb' = rirb /\ rirbwp' = rirbwp /\ linkPc' # "wait" /\ linkPc' # "send"
        BY <1>1, <2>2
      <4>2. Unanswered <= Cardinality(unheard)
        BY <1>1, <2>1, <2>2 DEF LinkIInv, Owed, LinkTypeOK, Unanswered
      <4>3. Owed'
        <5>1. Unanswered' <= Sent'
          BY <1>1, <3>1 DEF LinkIInv, Owed
        <5>2. Cardinality(unheard') = Cardinality(unheard)
          BY <2>2
        <5> QED
          BY <1>0, <1>1, <4>1, <4>2, <5>1, <5>2 DEF Owed
      <4>4. LastAnswer'
        BY <2>1, <2>2, <3>1, <4>1 DEF LinkIInv, LastAnswer
      <4> QED
        BY <4>3, <4>4
    <3> QED
      BY <3>2, <3>3, <3>4 DEF LinkIInv
  <2>3. CASE rirbwp = oldRp /\ linkPc' = "free" /\ heardOf' = 0 /\ unheard' = unheard \cup {verb}
    <3>1. Sent' = Sent /\ Cardinality(unheard') = Cardinality(unheard) + 1
      BY <1>0, <2>1, <2>3 DEF Sent
    <3>2. LinkTypeOK' /\ CorbHolds'
      BY <1>1, <2>1, <2>3, <3>1 DEF LinkIInv, LinkTypeOK, CorbHolds
    <3>3. GivenUp' /\ AnswersLag' /\ LastAnswer'
      BY <1>1, <2>1, <2>3 DEF LinkIInv, GivenUp, AnswersLag, LastAnswer
    <3>4. Owed'
      BY <1>0, <1>1, <2>1, <2>3, <3>1 DEF LinkIInv, Owed
    <3> QED
      BY <3>2, <3>3, <3>4 DEF LinkIInv
  <2> QED
    BY <1>3, <2>2, <2>3 DEF VerbWait
<1>4. CASE VerbRead
  <2>1. /\ linkPc = "read" /\ linkPc' = "free" /\ heardOf' = rirb[rirbwp]
        /\ UNCHANGED <<verb, oldRp, unheard>> /\ Sent = verb /\ Sent' = verb
    BY <1>4 DEF VerbRead, Sent
  <2>2. LinkTypeOK' /\ CorbHolds'
    BY <1>1, <2>1 DEF LinkIInv, LinkTypeOK, CorbHolds
  <2>3. GivenUp' /\ LastAnswer'
    BY <2>1 DEF LinkIInv, GivenUp, LastAnswer
  <2>4. Owed'
    BY <1>1, <2>1 DEF LinkIInv, Owed
  <2>5. AnswersLag'
    BY <1>0, <1>1, <2>1 DEF LinkIInv, LastAnswer, AnswersLag
  <2> QED
    BY <2>2, <2>3, <2>4, <2>5 DEF LinkIInv
<1> QED
  BY <1>2, <1>3, <1>4

LEMMA LinkNextIInv == LinkIInv /\ [LinkNext]_linkOwn => LinkIInv'
<1> SUFFICES ASSUME LinkIInv, [LinkNext]_linkOwn PROVE LinkIInv'
  OBVIOUS
<1>1. CASE UNCHANGED linkOwn
  <2>1. /\ UNCHANGED <<corb, corbwp, corbrp, rirb, rirbwp, verb, oldRp, linkPc, heardOf, unheard>>
    BY <1>1 DEF linkOwn, linkChip
  <2>2. Sent' = Sent /\ Unanswered' = Unanswered /\ \A j \in Ring : Back(j)' = Back(j)
    BY <2>1 DEF Sent, Unanswered, Back
  <2>3. LinkTypeOK' /\ CorbHolds' /\ GivenUp'
    BY <2>1, <2>2 DEF LinkIInv, LinkTypeOK, CorbHolds, GivenUp
  <2>4. Owed' /\ LastAnswer' /\ AnswersLag'
    BY <2>1, <2>2 DEF LinkIInv, Owed, LastAnswer, AnswersLag
  <2> QED
    BY <2>3, <2>4 DEF LinkIInv
<1> QED
  BY <1>1, CodecAnswersIInv, VerbSendIInv, VerbLocalIInv DEF LinkNext
-----------------------------------------------------------------------------
(* Ahci.  Until a call gives up, disk and driver are in step: the command  *)
(* in the disk is the one of the call, and a port that shows CI between    *)
(* two calls is one that an error has stopped.                             *)
Transfer == {"read", "write"}
Asked == \/ request \in {Identify, Flush}
         \/ /\ request \in [op : Transfer, lba : Lbas, mem : Memories]
OneTable == table = request

InDisk == \A c \in running : /\ c.op \in Transfer \cup {"flush", "identify"}
                             /\ c.op \in Transfer => c.lba \in Lbas

\* What the answer to a call stands for.
Effect == /\ request.op = "read"  => memory[request.mem] = cached[request.lba]
          /\ request.op = "write" => cached[request.lba] = requests
          /\ request.op = "flush" => platter = cached

InStep ==
  /\ diskPc # "wait" => ~bsy /\ (ci => stopped)
  /\ diskPc # "free" /\ request.op = "write" => memory[request.mem] = requests
  /\ diskPc = "wait" =>
       \/ ci /\ ~bsy /\ is = {}
       \/ bsy /\ is = {} /\ running = {[op |-> request.op, lba |-> request.lba]}
       \/ ~ci /\ ~bsy /\ is = {"DHRS"} /\ Effect
       \/ ~bsy /\ stopped /\ is = {"TFES"}
  /\ diskPc = "free" /\ done = "true" => Effect

DiskIInv == DiskTypeOK /\ Asked /\ OneTable /\ InDisk /\ (~gaveUp => InStep)

LEMMA DiskInitIInv == DiskInit => DiskIInv
<1> SUFFICES ASSUME DiskInit PROVE DiskIInv
  OBVIOUS
<1> USE AhciAssumption DEF DiskInit, Identify, Places
<1>1. /\ cached \in [Lbas -> 0..MaxRequests] /\ platter \in [Lbas -> 0..MaxRequests]
      /\ memory \in [Places -> 0..MaxRequests]
  OBVIOUS
<1>2. DiskTypeOK
  BY <1>1 DEF DiskTypeOK
<1>3. Asked /\ OneTable /\ InDisk
  BY DEF Asked, OneTable, InDisk
<1>4. InStep
  BY DEF InStep
<1> QED
  BY <1>2, <1>3, <1>4 DEF DiskIInv

\* What is in the request, whichever it is.
LEMMA RequestFields ==
  ASSUME DiskIInv
  PROVE  /\ request.lba \in Lbas \cup {0} /\ request.mem \in Places
         /\ request.op \in Transfer \cup {"flush", "identify"}
         /\ request.op \in Transfer => request.lba \in Lbas /\ request.mem \in Memories
<1>1. CASE request \in {Identify, Flush}
  BY <1>1 DEF Identify, Flush, Places, Transfer
<1>2. CASE request \in [op : Transfer, lba : Lbas, mem : Memories]
  BY <1>2 DEF Places, Transfer
<1> QED
  BY <1>1, <1>2 DEF DiskIInv, Asked

LEMMA DiskFetchIInv == DiskIInv /\ DiskFetch
                       /\ UNCHANGED <<present, request, diskPc, requests, gaveUp, done>> => DiskIInv'
<1> SUFFICES ASSUME DiskIInv, DiskFetch,
                    UNCHANGED <<present, request, diskPc, requests, gaveUp, done>>
             PROVE  DiskIInv'
  OBVIOUS
<1> USE AhciAssumption DEF DiskFetch
<1>1. table = request
  BY DEF DiskIInv, OneTable
<1>2. running' = {[op |-> request.op, lba |-> request.lba]} /\ bsy' = TRUE /\ ci /\ ~bsy /\ ~stopped
  BY <1>1
<1>3. DiskTypeOK'
  BY <1>2 DEF DiskIInv, DiskTypeOK
<1>4. Asked' /\ OneTable'
  BY DEF DiskIInv, Asked, OneTable, Identify, Flush
<1>5. InDisk'
  BY <1>2, RequestFields DEF InDisk
<1>6. ASSUME ~gaveUp' PROVE InStep'
  <2>1. InStep
    BY <1>6 DEF DiskIInv
  <2>2. diskPc = "wait" /\ is = {}
    BY <1>2, <2>1 DEF InStep
  <2> QED
    BY <1>2, <2>1, <2>2 DEF InStep
<1> QED
  BY <1>3, <1>4, <1>5, <1>6 DEF DiskIInv

LEMMA DiskDoneIInv == DiskIInv /\ DiskDone
                      /\ UNCHANGED <<present, request, diskPc, requests, gaveUp, done>> => DiskIInv'
<1> SUFFICES ASSUME DiskIInv, DiskDone,
                    UNCHANGED <<present, request, diskPc, requests, gaveUp, done>>
             PROVE  DiskIInv'
  OBVIOUS
<1> USE AhciAssumption
<1>1. PICK c \in running : Moves(c)
  BY DEF DiskDone
<1>2. /\ running' = {} /\ bsy' = FALSE /\ ci' = FALSE /\ is' = is \cup {"DHRS"}
      /\ UNCHANGED <<table, stopped>> /\ bsy /\ table = request
  BY DEF DiskDone, DiskIInv, DiskTypeOK, OneTable
<1>3. /\ c.op \in Transfer \cup {"flush", "identify"}
      /\ c.op \in Transfer => c.lba \in Lbas
      /\ table.mem \in Places
  BY DEF DiskIInv, InDisk, DiskTypeOK
<1>4. \/ /\ c.op = "read" /\ memory' = [memory EXCEPT ![table.mem] = cached[c.lba]]
         /\ UNCHANGED <<cached, platter>>
      \/ /\ c.op = "write" /\ cached' = [cached EXCEPT ![c.lba] = memory[table.mem]]
         /\ UNCHANGED <<memory, platter>>
      \/ c.op = "flush" /\ platter' = cached /\ UNCHANGED <<memory, cached>>
      \/ c.op = "identify" /\ UNCHANGED <<memory, cached, platter>>
  BY <1>1, <1>3 DEF Moves, Transfer
<1>5. DiskTypeOK'
  <2>1. cached' \in [Lbas -> 0..MaxRequests] /\ platter' \in [Lbas -> 0..MaxRequests]
        /\ memory' \in [Places -> 0..MaxRequests]
    BY <1>3, <1>4 DEF DiskIInv, DiskTypeOK, Transfer
  <2> QED
    BY <1>2, <2>1 DEF DiskIInv, DiskTypeOK
<1>6. Asked' /\ OneTable' /\ InDisk'
  BY <1>2 DEF DiskIInv, Asked, OneTable, InDisk, Identify, Flush
<1>7. ASSUME ~gaveUp' PROVE InStep'
  <2>1. InStep
    BY <1>7 DEF DiskIInv
  <2>2. /\ diskPc = "wait" /\ is = {} /\ c.op = request.op /\ c.lba = request.lba
    BY <1>1, <1>2, <2>1 DEF InStep
  <2>3. Effect'
    <3>1. request.op = "read" => memory'[request.mem] = cached'[request.lba]
      BY <1>2, <1>3, <1>4, <2>2 DEF DiskIInv, DiskTypeOK
    <3>2. request.op = "write" => cached'[request.lba] = requests
      <4>1. request.op = "write" => memory[request.mem] = requests
        BY <2>1, <2>2 DEF InStep
      <4> QED
        BY <1>2, <1>3, <1>4, <2>2, <4>1 DEF DiskIInv, DiskTypeOK, Transfer
    <3>3. request.op = "flush" => platter' = cached'
      BY <1>4, <2>2
    <3> QED
      BY <3>1, <3>2, <3>3 DEF Effect
  <2>4. is' = {"DHRS"} /\ ~ci' /\ ~bsy' /\ diskPc' = "wait"
    BY <1>2, <2>2
  <2>5. request.op = "write" => memory'[request.mem] = requests
    BY <1>4, <2>1, <2>2 DEF InStep
  <2> QED
    BY <2>3, <2>4, <2>5 DEF InStep
<1> QED
  BY <1>5, <1>6, <1>7 DEF DiskIInv

LEMMA DiskFaultIInv == DiskIInv /\ (DiskError \/ DiskWritesBack)
                       /\ UNCHANGED <<present, request, diskPc, requests, gaveUp, done>> => DiskIInv'
<1> SUFFICES ASSUME DiskIInv, DiskError \/ DiskWritesBack,
                    UNCHANGED <<present, request, diskPc, requests, gaveUp, done>>
             PROVE  DiskIInv'
  OBVIOUS
<1> USE AhciAssumption
<1>1. CASE DiskError
  <2>1. /\ bsy /\ running' = {} /\ bsy' = FALSE /\ is' = is \cup {"TFES"} /\ stopped' = TRUE
        /\ UNCHANGED <<table, ci, cached, platter, memory>>
    BY <1>1 DEF DiskError, DiskIInv, DiskTypeOK
  <2>2. DiskTypeOK'
    BY <2>1 DEF DiskIInv, DiskTypeOK
  <2>3. Asked' /\ OneTable' /\ InDisk'
    BY <2>1 DEF DiskIInv, Asked, OneTable, InDisk, Identify, Flush
  <2>4. ASSUME ~gaveUp' PROVE InStep'
    <3>1. InStep
      BY <2>4 DEF DiskIInv
    <3>2. diskPc = "wait" /\ is = {}
      BY <2>1, <3>1 DEF InStep
    <3> QED
      BY <2>1, <3>1, <3>2 DEF InStep
  <2> QED
    BY <2>2, <2>3, <2>4 DEF DiskIInv
<1>2. CASE DiskWritesBack
  <2>1. PICK l \in Lbas : platter[l] # cached[l] /\ platter' = [platter EXCEPT ![l] = cached[l]]
    BY <1>2 DEF DiskWritesBack
  <2>2. UNCHANGED <<table, ci, bsy, is, running, stopped, cached, memory>> /\ platter # cached
    BY <1>2, <2>1 DEF DiskWritesBack
  <2>3. DiskTypeOK'
    <3>1. platter' \in [Lbas -> 0..MaxRequests]
      BY <2>1 DEF DiskIInv, DiskTypeOK
    <3> QED
      BY <2>2, <3>1 DEF DiskIInv, DiskTypeOK
  <2>4. Asked' /\ OneTable' /\ InDisk'
    BY <2>2 DEF DiskIInv, Asked, OneTable, InDisk, Identify, Flush
  <2>5. Effect => Effect'
    BY <2>2 DEF Effect
  <2>6. InStep => InStep'
    BY <2>2, <2>5 DEF InStep
  <2> QED
    BY <2>3, <2>4, <2>6 DEF DiskIInv
<1> QED
  BY <1>1, <1>2

LEMMA RequestIInv == DiskIInv /\ Request => DiskIInv'
<1> SUFFICES ASSUME DiskIInv, Request PROVE DiskIInv'
  OBVIOUS
<1> USE AhciAssumption
<1>1. /\ diskPc = "free" /\ diskPc' = "issue" /\ requests' = requests + 1
      /\ requests' \in 0..MaxRequests /\ table' = request'
      /\ UNCHANGED <<ci, bsy, is, running, stopped, cached, platter, present, gaveUp, done>>
  BY DEF Request, diskChip, DiskIInv, DiskTypeOK
<1>2. /\ \/ request' = Flush
         \/ request' \in [op : Transfer, lba : Lbas, mem : Memories]
      /\ memory' \in [Places -> 0..MaxRequests]
      /\ request'.op = "write" => memory'[request'.mem] = requests'
  <2>1. CASE request' = Flush /\ UNCHANGED memory
    BY <2>1 DEF Flush, DiskIInv, DiskTypeOK
  <2>2. ASSUME NEW l \in Lbas, NEW b \in Memories,
               request' = [op |-> "read", lba |-> l, mem |-> b] /\ UNCHANGED memory
        PROVE  <1>2!1 /\ <1>2!2 /\ <1>2!3
    BY <2>2 DEF Transfer, DiskIInv, DiskTypeOK
  <2>3. ASSUME NEW l \in Lbas, NEW b \in Memories,
               request' = [op |-> "write", lba |-> l, mem |-> b],
               memory' = [memory EXCEPT ![b] = requests']
        PROVE  <1>2!1 /\ <1>2!2 /\ <1>2!3
    BY <1>1, <2>3 DEF Transfer, DiskIInv, DiskTypeOK, Places
  <2> QED
    BY <2>1, <2>2, <2>3 DEF Request
<1>3. Asked' /\ OneTable'
  BY <1>1, <1>2 DEF Asked, OneTable, Flush, Identify
<1>4. table'.lba \in Lbas \cup {0} /\ table'.mem \in Places
  BY <1>1, <1>2 DEF Flush, Transfer, Places
<1>5. DiskTypeOK'
  BY <1>1, <1>2, <1>4 DEF DiskIInv, DiskTypeOK
<1>6. InDisk'
  BY <1>1 DEF DiskIInv, InDisk
<1>7. ~gaveUp' => InStep'
  BY <1>1, <1>2 DEF DiskIInv, InStep
<1> QED
  BY <1>3, <1>5, <1>6, <1>7 DEF DiskIInv

LEMMA CallIInv == DiskIInv /\ (Issue \/ Await) => DiskIInv'
<1> SUFFICES ASSUME DiskIInv, Issue \/ Await PROVE DiskIInv'
  OBVIOUS
<1> USE AhciAssumption DEF Returns, Cleared
<1>1. CASE Issue
  <2>1. /\ diskPc = "issue" /\ diskPc' \in {"free", "wait"}
        /\ UNCHANGED <<table, bsy, running, stopped, cached, platter, memory, present, request, requests>>
    BY <1>1 DEF Issue
  <2>2. ci' \in BOOLEAN /\ is' \subseteq {"DHRS", "TFES"} /\ (bsy => ci')
    BY <1>1 DEF Issue, DiskIInv, DiskTypeOK
  <2>3. DiskTypeOK'
    BY <2>1, <2>2 DEF DiskIInv, DiskTypeOK
  <2>4. Asked' /\ OneTable' /\ InDisk'
    BY <2>1 DEF DiskIInv, Asked, OneTable, InDisk, Identify, Flush
  <2>5. ASSUME ~gaveUp' PROVE InStep'
    <3>1. ~gaveUp
      BY <1>1, <2>5 DEF Issue
    <3>2. InStep /\ ~bsy
      BY <2>1, <3>1 DEF DiskIInv, InStep
    <3>3. is' = {} /\ ci' = TRUE /\ diskPc' = "wait"
      BY <1>1, <3>2 DEF Issue
    <3> QED
      BY <2>1, <3>2, <3>3 DEF InStep
  <2> QED
    BY <2>3, <2>4, <2>5 DEF DiskIInv
<1>2. CASE Await
  <2>1. /\ diskPc = "wait" /\ diskPc' = "free"
        /\ UNCHANGED <<table, ci, bsy, is, running, stopped, cached, platter, memory, request, requests>>
        /\ ~gaveUp' => ~gaveUp /\ is # {}
        /\ done' = "true" => is # {} /\ "TFES" \notin is
    BY <1>2 DEF Await, Failed, Answered, diskChip
  <2>2. DiskTypeOK'
    BY <2>1 DEF DiskIInv, DiskTypeOK
  <2>3. Asked' /\ OneTable' /\ InDisk'
    BY <2>1 DEF DiskIInv, Asked, OneTable, InDisk, Identify, Flush
  <2>4. ASSUME ~gaveUp' PROVE InStep'
    <3>1. InStep /\ is # {}
      BY <2>1, <2>4 DEF DiskIInv
    <3>2. ~bsy /\ (ci => stopped) /\ (done' = "true" => Effect)
      BY <2>1, <3>1 DEF InStep
    <3>3. Effect' = Effect
      BY <2>1 DEF Effect
    <3> QED
      BY <2>1, <3>2, <3>3 DEF InStep
  <2> QED
    BY <2>2, <2>3, <2>4 DEF DiskIInv
<1> QED
  BY <1>1, <1>2

LEMMA DiskNextIInv == DiskIInv /\ [DiskNext]_diskVars => DiskIInv'
<1> SUFFICES ASSUME DiskIInv, [DiskNext]_diskVars PROVE DiskIInv'
  OBVIOUS
<1>1. CASE DiskChip
  BY <1>1, DiskFetchIInv, DiskDoneIInv, DiskFaultIInv DEF DiskChip
<1>2. CASE UNCHANGED diskVars
  <2>1. UNCHANGED <<table, ci, bsy, is, running, stopped, cached, platter, memory,
                    present, request, diskPc, requests, gaveUp, done>>
    BY <1>2 DEF diskVars, diskOwn, diskChip
  <2>2. DiskTypeOK' /\ Asked' /\ OneTable' /\ InDisk'
    BY <2>1 DEF DiskIInv, DiskTypeOK, Asked, OneTable, InDisk, Identify, Flush
  <2>3. InStep' = InStep
    BY <2>1 DEF InStep, Effect
  <2> QED
    BY <2>1, <2>2, <2>3 DEF DiskIInv
<1> QED
  BY <1>1, <1>2, RequestIInv, CallIInv DEF DiskNext

LEMMA DiskSafe == DiskIInv => DiskTypeOK /\ TrueIsDone
<1> SUFFICES ASSUME DiskIInv PROVE TrueIsDone
  BY DEF DiskIInv
<1>1. diskPc = "free" /\ done = "true" /\ ~gaveUp => Effect
  BY DEF DiskIInv, InStep
<1> QED
  BY <1>1, RequestFields DEF TrueIsDone, Effect, Transfer
-----------------------------------------------------------------------------
(* A set of numbers that is not empty has a least one. *)
LEMMA MinIsLeast ==
  ASSUME NEW S, S \subseteq Nat, S # {}
  PROVE  Min(S) \in S /\ \A y \in S : Min(S) <= y
<1> DEFINE R == {ss \in Nat \X Nat : ss[1] < ss[2]}
<1>1. IsWellFoundedOn(R, Nat)
  BY NatLessThanWellFounded DEF OpToRel
<1> HIDE DEF R
<1>2. PICK x \in S : \A y \in S : ~(<<y, x>> \in R)
  BY <1>1, WFMin
<1>3. \A y \in S : ~(y < x)
  BY <1>2 DEF R
<1>4. \A y \in S : x <= y
  BY <1>3
<1> QED
  BY <1>4 DEF Min

(* Udito.  The choice of the controller is made of what the probes found,  *)
(* which nothing changes afterwards, and the chosen one is brought up      *)
(* last; the chain is searched for in the codecs of the registers that     *)
(* are mapped then.                                                        *)
LEMMA FirstIsHit ==
  ASSUME NEW S, S \subseteq Nat PROVE FirstOf(S) \subseteq S /\ (FirstOf(S) = {} <=> S = {})
  BY MinIsLeast DEF FirstOf

Heard == {{}} \cup {{v} : v \in Vendors}

Probed == /\ machine \in Hardware /\ cands \in Seq(Heard)
          /\ \A i \in DOMAIN cands : cands[i] # {} => machine[i].bar
          /\ earPc # "probe" => probing = Len(machine) + 1

Awaken == earPc = "stream" =>
            /\ ScegliController = {mmio} /\ codec = {Min(DOMAIN machine[mmio].codecs)}
            /\ mask = DOMAIN machine[mmio].codecs
            /\ {REALTEK} \in {cands[i] : i \in DOMAIN cands} => cands[mmio] = {REALTEK}

\* Where the chain comes from: the first of the codecs walked with a pin.
HasNoPin(b) == \E w \in heard : w.codec = b /\ Pin(w) = {}

FromWalk == /\ heard # {} => \A a \in chain.codec :
                 /\ \E w \in heard : w.codec = a /\ chain.via = Via(w) /\ chain.pin = Pin(w)
                 /\ \A b \in mask : b < a => HasNoPin(b)
            /\ heard # {} /\ chain = NoChain /\ earPc # "stream" => \A b \in mask : HasNoPin(b)

EarIInv == /\ EarTypeOK /\ Probed /\ Awaken /\ FromWalk
           /\ earPc = "probe" => heard = {}
           /\ earPc \in {"probe", "stream"} => chain = NoChain
           /\ earPc = "stream" => \A w \in heard : Pin(w) = {}

\* The machine in hand is one the assumption speaks of.
LEMMA MachineShape ==
  ASSUME Probed
  PROVE  /\ Len(machine) \in Nat /\ DOMAIN machine = 1..Len(machine)
         /\ \A k \in DOMAIN machine : DOMAIN machine[k].codecs \subseteq Nat
  BY UditoAssumption DEF Probed

LEMMA EarInitIInv == EarInit => EarIInv
<1> SUFFICES ASSUME EarInit PROVE EarIInv
  OBVIOUS
<1>1. Probed
  BY DEF EarInit, Probed
<1>2. EarTypeOK
  BY <1>1, MachineShape DEF EarInit, EarTypeOK
<1>3. Awaken /\ FromWalk
  BY DEF EarInit, Awaken, FromWalk
<1> QED
  BY <1>1, <1>2, <1>3 DEF EarIInv, EarInit

\* What bringing a controller up leaves.
LEMMA BringUpLeaves ==
  ASSUME Probed, EarTypeOK, NEW k \in DOMAIN machine, NEW found, BringUp(k, found)
  PROVE  /\ mmio' \in 0..Len(machine) /\ codec' \subseteq Nat /\ mask' \subseteq Nat
         /\ found # {} => /\ mmio' = k /\ mask' = DOMAIN machine[k].codecs
                          /\ codec' = {Min(mask')}
         /\ hearsCodec' => found # {} \/ hearsCodec
<1>1. k \in 0..Len(machine) /\ DOMAIN machine[k].codecs \subseteq Nat
  BY MachineShape
<1>2. CASE ~machine[k].bar
  BY <1>2 DEF BringUp, EarTypeOK
<1>3. CASE machine[k].bar /\ mmio' = k /\ found = {} /\ mask' = {} /\ hearsCodec' = FALSE
           /\ UNCHANGED codec
  BY <1>1, <1>3 DEF EarTypeOK
<1>4. CASE /\ machine[k].bar /\ mmio' = k /\ mask' = DOMAIN machine[k].codecs /\ mask' # {}
           /\ codec' = {Min(mask')} /\ hearsCodec' = (found # {})
  <2>1. mask' \subseteq Nat /\ Min(mask') \in mask'
    BY <1>1, <1>4, MinIsLeast
  <2> QED
    BY <1>1, <1>4, <2>1
<1> QED
  BY <1>2, <1>3, <1>4 DEF BringUp

\* The choice is one of the probed, and a Realtek if there is one.
LEMMA ChosenIsProbed ==
  ASSUME Probed, EarTypeOK
  PROVE  /\ ScegliController \subseteq DOMAIN cands
         /\ \A k \in ScegliController : ScegliController = {k} /\ cands[k] # {}
         /\ \A k \in ScegliController :
              {REALTEK} \in {cands[i] : i \in DOMAIN cands} => cands[k] = {REALTEK}
<1> DEFINE realtek == {i \in DOMAIN cands : cands[i] = {REALTEK}}
           any     == {i \in DOMAIN cands : cands[i] # {}}
<1>1. realtek \subseteq Nat /\ any \subseteq Nat
  BY DEF Probed
<1>2. ScegliController = IF realtek = {} THEN FirstOf(any) ELSE FirstOf(realtek)
  BY <1>1, FirstIsHit DEF ScegliController
<1>3. FirstOf(any) \subseteq any /\ FirstOf(realtek) \subseteq realtek
  BY <1>1, FirstIsHit
<1>4. \A S : \A k \in FirstOf(S) : FirstOf(S) = {k}
  BY DEF FirstOf
<1>5. {REALTEK} \in {cands[i] : i \in DOMAIN cands} => realtek # {}
  OBVIOUS
<1> QED
  BY <1>2, <1>3, <1>4, <1>5

LEMMA EarProbeIInv == EarIInv /\ EarProbe => EarIInv'
<1> SUFFICES ASSUME EarIInv, EarProbe PROVE EarIInv'
  OBVIOUS
<1>0. EarTypeOK /\ Probed /\ chain = NoChain /\ heard = {}
  BY DEF EarIInv, EarProbe
<1>1. PICK found \in Heard : BringUp(probing, found) /\ cands' = Append(cands, found)
  BY Zenon DEF EarProbe, Heard
<1>2. /\ earPc = "probe" /\ earPc' = "probe" /\ probing <= Len(machine) /\ probing' = probing + 1
      /\ UNCHANGED <<machine, chain, heard>>
  BY DEF EarProbe
<1>3. Len(machine) \in Nat /\ probing \in 1..Len(machine) /\ probing \in DOMAIN machine
  BY <1>0, <1>2, MachineShape DEF EarTypeOK
<1>4. mmio' \in 0..Len(machine) /\ codec' \subseteq Nat /\ mask' \subseteq Nat
  BY <1>0, <1>1, <1>3, BringUpLeaves
<1>5. cands' \in Seq(Heard) /\ Len(cands') = probing
  BY <1>0, <1>1, <1>3 DEF Probed, EarTypeOK
<1>9. \A i \in DOMAIN cands' : cands'[i] # {} => machine[i].bar
  <2> SUFFICES ASSUME NEW i \in DOMAIN cands', cands'[i] # {} PROVE machine[i].bar
    OBVIOUS
  <2>1. CASE i = probing
    <3>1. cands'[i] = found
      BY <1>0, <1>1, <1>3, <2>1 DEF Probed, EarTypeOK
    <3> QED
      BY <1>1, <2>1, <3>1 DEF BringUp
  <2>2. CASE i # probing
    <3>1. i \in DOMAIN cands /\ cands'[i] = cands[i]
      BY <1>0, <1>1, <1>3, <1>5, <2>2 DEF Probed, EarTypeOK
    <3> QED
      BY <1>0, <3>1 DEF Probed
  <2> QED
    BY <2>1, <2>2
<1>6. EarTypeOK'
  BY <1>2, <1>3, <1>4, <1>5 DEF EarTypeOK
<1>7. Probed' /\ Awaken'
  BY <1>0, <1>2, <1>5, <1>9 DEF Probed, Awaken
<1>8. FromWalk'
  BY <1>0, <1>2 DEF FromWalk
<1> QED
  BY <1>0, <1>2, <1>6, <1>7, <1>8 DEF EarIInv

LEMMA EarChooseIInv == EarIInv /\ EarChoose => EarIInv'
<1> SUFFICES ASSUME EarIInv, EarChoose PROVE EarIInv'
  OBVIOUS
<1>0. EarTypeOK /\ Probed /\ chain = NoChain /\ heard = {}
  BY DEF EarIInv, EarChoose
<1>1. /\ earPc = "probe" /\ probing > Len(machine) /\ earPc' \in {"stream", "senses"}
      /\ UNCHANGED <<machine, probing, cands, chain, heard>>
      /\ earPc' = "stream" => hearsCodec' /\ ScegliController # {}
  BY DEF EarChoose
<1>2. /\ Len(machine) \in Nat /\ DOMAIN machine = 1..Len(machine) /\ probing = Len(machine) + 1
      /\ DOMAIN cands = DOMAIN machine
  BY <1>0, <1>1, MachineShape DEF EarTypeOK, Probed
<1>3. ScegliController' = ScegliController
  BY <1>1 DEF ScegliController
<1> DEFINE Upright == /\ mmio' \in 0..Len(machine) /\ codec' \subseteq Nat /\ mask' \subseteq Nat
                      /\ Awaken'
<1>4. Upright
  <2>1. CASE ScegliController = {} /\ UNCHANGED <<mmio, mask, codec, hearsCodec>>
    BY <1>0, <1>1, <1>3, <2>1 DEF EarTypeOK, Awaken
  <2>2. ASSUME NEW k \in ScegliController, Again(k) PROVE Upright
    <3>1. PICK found : BringUp(k, found)
      BY <2>2 DEF Again
    <3>2. k \in DOMAIN machine
      BY <1>0, <1>2, ChosenIsProbed
    <3>3. /\ mmio' \in 0..Len(machine) /\ codec' \subseteq Nat /\ mask' \subseteq Nat
          /\ found # {} => /\ mmio' = k /\ mask' = DOMAIN machine[k].codecs
                           /\ codec' = {Min(mask')}
      BY <1>0, <3>1, <3>2, BringUpLeaves
    <3>4. CASE found # {}
      <4>1. ScegliController' = {k}
        BY <1>0, <1>3, ChosenIsProbed
      <4>2. {REALTEK} \in {cands[i] : i \in DOMAIN cands} => cands[k] = {REALTEK}
        BY <1>0, ChosenIsProbed
      <4>3. Awaken'
        BY <1>1, <3>3, <3>4, <4>1, <4>2 DEF Awaken
      <4> QED
        BY <3>3, <4>3
    <3>5. CASE found = {}
      <4>1. machine[k].bar
        BY <1>0, <1>2, <3>2, ChosenIsProbed DEF Probed
      <4>2. ~hearsCodec'
        BY <3>1, <3>5, <4>1 DEF BringUp
      <4> QED
        BY <1>1, <3>3, <4>2 DEF Awaken
    <3> QED
      BY <3>4, <3>5
  <2> QED
    BY <2>1, <2>2 DEF EarChoose
<1>5. EarTypeOK'
  BY <1>0, <1>1, <1>4 DEF EarTypeOK
<1>6. Probed'
  BY <1>0, <1>1, <1>2 DEF Probed
<1>7. FromWalk'
  BY <1>0, <1>1 DEF FromWalk
<1> QED
  BY <1>0, <1>1, <1>4, <1>5, <1>6, <1>7 DEF EarIInv

(* What is chosen of a list of which some verbs were not answered: a       *)
(* router if one was heard, and the pin worth the most.                    *)
LEMMA RouterHeard ==
  ASSUME NEW list, NEW lost, NEW i \in Entries8(list),
         list[i].tipo \in {"mixer", "selector"}, <<i, "cap">> \notin lost,
         NEW via, via = ScegliInstradatore(LeggiSorgenti(list, lost))
  PROVE  via # {} /\ (list[i].tipo = "mixer" => \A v \in via : list[v].tipo = "mixer")
<1> DEFINE s == LeggiSorgenti(list, lost)
           mixers    == {j \in DOMAIN s : s[j].tipo = "mixer"}
           selectors == {j \in DOMAIN s : s[j].tipo = "selector"}
<1>1. DOMAIN s = Entries8(list) /\ Entries8(list) \subseteq Nat
  BY DEF LeggiSorgenti, Entries8, Most
<1>2. s[i].tipo = list[i].tipo
  BY DEF LeggiSorgenti
<1>3. ASSUME NEW v \in mixers PROVE list[v].tipo = "mixer"
  BY <1>1, <1>3 DEF LeggiSorgenti, Deaf
<1> HIDE DEF s
<1>4. /\ FirstOf(mixers) \subseteq mixers /\ (FirstOf(mixers) = {} <=> mixers = {})
      /\ (FirstOf(selectors) = {} <=> selectors = {})
  BY <1>1, FirstIsHit
<1>5. via = IF FirstOf(mixers) # {} THEN FirstOf(mixers) ELSE FirstOf(selectors)
  BY DEF ScegliInstradatore, s
<1>6. i \in mixers \/ (i \in selectors /\ list[i].tipo # "mixer")
  BY <1>1, <1>2
<1> QED
  BY <1>3, <1>4, <1>5, <1>6

LEMMA PinHeard ==
  ASSUME NEW list, NEW lost, NEW q \in Entries8(list), Worth(list[q]) > 0,
         {<<q, "cap">>, <<q, "pin">>, <<q, "config">>} \cap lost = {}
  PROVE  \E p \in ScegliPin(LeggiSorgenti(list, lost)) :
           Worth(list[p]) >= Worth(list[q]) \/ ~list[p].input
<1> DEFINE s == LeggiSorgenti(list, lost)
           inputs == {i \in DOMAIN s : s[i].tipo = "pin" /\ s[i].input}
           mics   == {i \in DOMAIN s : s[i].tipo = "pin" /\ s[i].input /\ s[i].mic}
           inners == {i \in DOMAIN s : /\ s[i].tipo = "pin" /\ s[i].input /\ s[i].mic
                                       /\ s[i].internal}
<1>1. DOMAIN s = Entries8(list) /\ Entries8(list) \subseteq Nat
  BY DEF LeggiSorgenti, Entries8, Most
<1>2. /\ s[q].tipo = list[q].tipo /\ (s[q].input <=> list[q].input)
      /\ (s[q].mic <=> list[q].mic) /\ (s[q].internal <=> list[q].internal)
  BY Zenon DEF LeggiSorgenti
<1>3. ASSUME NEW p \in inputs
      PROVE  /\ list[p].tipo = "pin"
             /\ s[p].mic => list[p].mic
             /\ s[p].internal => list[p].internal
  <2>1. <<p, "cap">> \notin lost
    BY <1>1 DEF LeggiSorgenti, Deaf
  <2> QED
    BY <1>1, <2>1, Zenon DEF LeggiSorgenti
<1>4. /\ list[q].tipo = "pin" /\ list[q].input
      /\ Worth(list[q]) \in {1, 2, 3}
      /\ Worth(list[q]) = 3 => list[q].mic /\ list[q].internal
      /\ Worth(list[q]) = 2 => list[q].mic
  BY DEF Worth
<1> HIDE DEF s
<1>5. /\ FirstOf(inputs) \subseteq inputs /\ (FirstOf(inputs) = {} <=> inputs = {})
      /\ FirstOf(mics) \subseteq mics /\ (FirstOf(mics) = {} <=> mics = {})
      /\ FirstOf(inners) \subseteq inners /\ (FirstOf(inners) = {} <=> inners = {})
  BY <1>1, FirstIsHit
<1>6. ScegliPin(s) = IF FirstOf(inners) # {} THEN FirstOf(inners)
                     ELSE IF FirstOf(mics) # {} THEN FirstOf(mics) ELSE FirstOf(inputs)
  BY DEF ScegliPin
<1>7. /\ q \in inputs
      /\ Worth(list[q]) = 3 => q \in inners
      /\ Worth(list[q]) = 2 => q \in mics
  BY <1>1, <1>2, <1>4
<1>8. PICK p \in ScegliPin(s) : /\ p \in inputs
                                /\ inners # {} => p \in inners
                                /\ mics # {} => p \in mics
  BY <1>5, <1>6, <1>7
<1>9. CASE list[p].input
  <2>1. list[p].tipo = "pin"
    BY <1>3, <1>8
  <2>2. Worth(list[p]) >= 1
    BY <1>9, <2>1 DEF Worth
  <2>3. mics # {} => Worth(list[p]) >= 2
    <3>1. mics # {} => list[p].mic
      BY <1>3, <1>8
    <3> QED
      BY <1>9, <2>1, <3>1 DEF Worth
  <2>4. inners # {} => Worth(list[p]) >= 3
    <3>1. inners # {} => list[p].mic /\ list[p].internal
      BY <1>3, <1>8
    <3> QED
      BY <1>9, <2>1, <3>1 DEF Worth
  <2> QED
    BY <1>4, <1>7, <1>8, <2>2, <2>3, <2>4 DEF s
<1> QED
  BY <1>8, <1>9 DEF s

LEMMA WalkTakes == \A w : RouterTaken(w) /\ PinTaken(w)
<1> SUFFICES ASSUME NEW w PROVE RouterTaken(w) /\ PinTaken(w)
  OBVIOUS
<1>1. RouterTaken(w)
  <2> SUFFICES ASSUME NEW i \in Entries8(Sources(w)),
                      Sources(w)[i].tipo \in {"mixer", "selector"}, <<i, "cap">> \notin w.first
               PROVE  /\ Via(w) # {}
                      /\ Sources(w)[i].tipo = "mixer" =>
                           \A v \in Via(w) : Sources(w)[v].tipo = "mixer"
    BY Zenon DEF RouterTaken
  <2>1. Via(w) = ScegliInstradatore(LeggiSorgenti(Sources(w), w.first))
    BY DEF Via
  <2> QED
    BY <2>1, RouterHeard
<1>2. PinTaken(w)
  BY PinHeard, Zenon DEF PinTaken, Pin, InFull
<1> QED
  BY <1>1, <1>2

\* What was walked does not change under the walk.
LEMMA SameWalks ==
  ASSUME UNCHANGED <<machine, mmio>>
  PROVE  \A v : Pin(v)' = Pin(v) /\ Via(v)' = Via(v)
<1>1. \A v : Codec(v)' = Codec(v)
  BY DEF Codec
<1>2. \A v : Sources(v)' = Sources(v)
  BY <1>1 DEF Sources
<1>3. \A v : Via(v)' = Via(v)
  BY <1>2 DEF Via
<1>4. \A v : Behind(v)' = Behind(v)
  BY <1>1, <1>2, <1>3 DEF Behind
<1>5. \A v : Lost(v)' = Lost(v)
  BY <1>3 DEF Lost
<1> QED
  BY <1>3, <1>4, <1>5 DEF Pin

LEMMA EarWalkIInv == EarIInv /\ EarWalk => EarIInv'
<1> SUFFICES ASSUME EarIInv, EarWalk PROVE EarIInv'
  OBVIOUS
<1>0. /\ EarTypeOK /\ Probed /\ Awaken /\ chain = NoChain
      /\ \A w \in heard : Pin(w) = {}
  BY DEF EarIInv, EarWalk
<1>1. /\ earPc = "stream" /\ mask \ Walked # {} /\ mask \subseteq Nat
      /\ UNCHANGED <<machine, probing, cands, mmio, mask, hearsCodec, udito>>
  BY <1>0 DEF EarWalk, EarTypeOK
<1> DEFINE Caught(w) == /\ Pin(w) # {}
                        /\ chain' = [codec |-> {w.codec}, via |-> Via(w), pin |-> Pin(w)]
                        /\ codec' = {w.codec} /\ streamOn' \in BOOLEAN /\ earPc' = "senses"
           Missed(w) == /\ Pin(w) = {} /\ UNCHANGED <<chain, codec, streamOn>>
                        /\ earPc' = IF mask \ Walked = {w.codec} THEN "senses" ELSE "stream"
<1> DEFINE walk(adc, first, second) ==
             [codec |-> Min(mask \ Walked), adc |-> adc, first |-> first, second |-> second]
<1>8. PICK adc, first, second :
        LET w == walk(adc, first, second)
        IN /\ heard' = heard \cup {w}
           /\ \/ /\ Pin(w) # {}
                 /\ chain' = [codec |-> {Min(mask \ Walked)}, via |-> Via(w), pin |-> Pin(w)]
                 /\ codec' = {Min(mask \ Walked)} /\ streamOn' \in BOOLEAN /\ earPc' = "senses"
              \/ /\ Pin(w) = {} /\ UNCHANGED <<chain, codec, streamOn>>
                 /\ earPc' = IF mask \ Walked = {Min(mask \ Walked)} THEN "senses" ELSE "stream"
  BY Zenon DEF EarWalk
<1>2. PICK w : w.codec = Min(mask \ Walked) /\ heard' = heard \cup {w} /\ (Caught(w) \/ Missed(w))
  <2>1. walk(adc, first, second).codec = Min(mask \ Walked)
    OBVIOUS
  <2> HIDE DEF walk
  <2> QED
    BY <1>8, <2>1
<1>3. w.codec \in mask /\ w.codec \in Nat /\ \A b \in mask : b \in Walked \/ w.codec <= b
  BY <1>1, <1>2, MinIsLeast
<1>4. \A v : Pin(v)' = Pin(v) /\ Via(v)' = Via(v)
  BY <1>1, SameWalks
<1>5. \A b \in Walked : HasNoPin(b)'
  BY <1>0, <1>2, <1>4 DEF Walked, HasNoPin
<1>6. CASE Caught(w)
  <2>1. EarTypeOK' /\ Probed' /\ Awaken'
    BY <1>0, <1>1, <1>3, <1>6 DEF EarTypeOK, Probed, Awaken
  <2>2. FromWalk'
    <3>1. chain'.codec = {w.codec} /\ chain'.via = Via(w)' /\ chain'.pin = Pin(w)' /\ chain'.codec # {}
      BY <1>4, <1>6
    <3>2. \A b \in mask : b < w.codec => b \in Walked
      BY <1>1, <1>3
    <3>3. chain' # NoChain
      BY <3>1 DEF NoChain
    <3> QED
      BY <1>1, <1>2, <1>5, <3>1, <3>2, <3>3 DEF FromWalk
  <2> QED
    BY <1>6, <2>1, <2>2 DEF EarIInv
<1>7. CASE Missed(w)
  <2>1. earPc' \in {"senses", "stream"} /\ chain' = NoChain /\ codec' = codec
    BY <1>0, <1>7
  <2>2. ScegliController' = ScegliController
    BY <1>1 DEF ScegliController
  <2>3. EarTypeOK' /\ Probed' /\ Awaken'
    BY <1>0, <1>1, <2>1, <2>2 DEF EarTypeOK, Probed, Awaken
  <2>4. HasNoPin(w.codec)'
    <3>1. w \in heard' /\ Pin(w)' = {}
      BY <1>2, <1>4, <1>7
    <3> QED
      BY <3>1, Zenon DEF HasNoPin
  <2>5. ASSUME earPc' # "stream", NEW b \in mask PROVE HasNoPin(b)'
    <3>1. b \in Walked \/ b = w.codec
      BY <1>7, <2>5
    <3> QED
      BY <1>5, <2>4, <3>1
  <2>6. FromWalk'
    BY <1>1, <2>1, <2>5 DEF FromWalk, NoChain
  <2>7. \A v \in heard' : Pin(v)' = {}
    BY <1>0, <1>2, <1>4, <1>7
  <2> QED
    BY <2>1, <2>3, <2>6, <2>7 DEF EarIInv
<1> QED
  BY <1>2, <1>6, <1>7

LEMMA EarAstrayIInv == EarIInv /\ EarAstray => EarIInv'
<1> SUFFICES ASSUME EarIInv, EarAstray PROVE EarIInv'
  OBVIOUS
<1>1. /\ earPc' = "senses" /\ earPc = "stream" /\ heard' = {} /\ codec' \subseteq codec \cup mask
      /\ UNCHANGED <<machine, probing, cands, mmio, mask, hearsCodec, udito>>
  BY DEF EarAstray
<1>2. EarTypeOK' /\ Probed' /\ Awaken'
  BY <1>1 DEF EarIInv, EarTypeOK, Probed, Awaken
<1> QED
  BY <1>1, <1>2 DEF EarIInv, FromWalk

LEMMA EarNextIInv == EarIInv /\ [EarNext]_earVars => EarIInv'
<1> SUFFICES ASSUME EarIInv, [EarNext]_earVars PROVE EarIInv'
  OBVIOUS
<1>1. CASE EarRegister \/ UNCHANGED earVars
  <2>1. /\ UNCHANGED <<machine, probing, cands, mmio, mask, codec, chain, heard>>
        /\ earPc' = earPc \/ (earPc = "senses" /\ earPc' = "awake")
    BY <1>1 DEF EarRegister, earVars
  <2>2. ScegliController' = ScegliController
    BY <2>1 DEF ScegliController
  <2>3. EarTypeOK' /\ Probed' /\ Awaken'
    BY <2>1, <2>2 DEF EarIInv, EarTypeOK, Probed, Awaken
  <2>4. \A v : Pin(v)' = Pin(v) /\ Via(v)' = Via(v)
    BY <2>1, SameWalks
  <2>5. FromWalk'
    BY <2>1, <2>4 DEF EarIInv, FromWalk, HasNoPin
  <2> QED
    BY <2>1, <2>3, <2>4, <2>5 DEF EarIInv
<1> QED
  BY <1>1, EarProbeIInv, EarChooseIInv, EarWalkIInv, EarAstrayIInv DEF EarNext

LEMMA EarSafe == EarIInv => EarTypeOK /\ BestMicrophone
  BY WalkTakes DEF EarIInv, Awaken, FromWalk, HasNoPin, BestMicrophone
-----------------------------------------------------------------------------
(* Platform.  Entry i of the window is either absent or page i of its      *)
(* gigabyte, whoever wrote it: a driver that maps its page can neither     *)
(* take the entry of another nor lose its own.                             *)
WindowInPlace == /\ DOMAIN window \subseteq 0..(Entries2M - 1)
                 /\ \A i \in DOMAIN window : window[i] = Low + i

ZonesMapped == bootPc # "paging" => {p - Low : p \in Fixed} \subseteq DOMAIN window

BootIInv == /\ board \in Boards /\ DOMAIN base = Drivers /\ DOMAIN of = Drivers
            /\ (bootPc = "paging" => \A d \in Drivers : base[d] = {})
            /\ BootTypeOK /\ WindowInPlace /\ ZonesMapped /\ TouchesItsOwn

LEMMA BootInitIInv == BootInit => BootIInv
  BY DEF BootInit, BootIInv, BootTypeOK, WindowInPlace, ZonesMapped, TouchesItsOwn,
         Drivers

(* The finds: a function of the scan, of the device that was asked for. *)
LEMMA Found ==
  ASSUME BootIInv, NEW id
  PROVE  /\ \A f \in PciFindDevice(id) : f \in DOMAIN board /\ board[f].id = id
         /\ \A f \in FindClassAll(id) \cup FindClass(id) :
              f \in DOMAIN board /\ board[f].class = id
<1>1. DOMAIN board \subseteq Nat
  BY PlatformAssumption DEF BootIInv
<1>2. ASSUME NEW f \in PciFindDevice(id) PROVE f \in DOMAIN board /\ board[f].id = id
  <2> DEFINE hits == {g \in DOMAIN board : board[g].id = id /\ board[g].bus < 5}
  <2>1. hits # {} /\ f = Min(hits)
    BY <1>2 DEF PciFindDevice
  <2>2. hits \subseteq Nat
    BY <1>1
  <2>3. f \in hits
    BY <2>1, <2>2, MinIsLeast
  <2> QED
    BY <2>3
<1>3. ASSUME NEW f \in FindClass(id) PROVE f \in FindClassAll(id)
  <2>1. FindClassAll(id) # {} /\ f = Min(FindClassAll(id))
    BY <1>3 DEF FindClass
  <2>2. FindClassAll(id) \subseteq Nat
    BY <1>1 DEF FindClassAll
  <2> QED
    BY <2>1, <2>2, MinIsLeast
<1> QED
  BY <1>2, <1>3 DEF FindClassAll

(* A driver that maps the page its device decodes, and may become master,  *)
(* finds its registers there; every other driver still finds its own.      *)
LEMMA TakesItsOwn ==
  ASSUME BootIInv, bootPc # "paging", bootPc' # "paging", UNCHANGED board,
         NEW d \in {"hda", "ahci", "rtl"}, NEW f \in master', NEW page \in Nat,
         master \subseteq master', master' \subseteq DOMAIN board,
         page \in Low..High => page \in Decodes(f),
         MapsAndTakes(d, f, page)
  PROVE  BootIInv'
<1> DEFINE i == page % Entries2M
<1>1. CASE UNCHANGED <<window, base, of>>
  <2>1. /\ UNCHANGED <<board, window, base, of>>
        /\ \A g : Decodes(g)' = Decodes(g)
    BY <1>1 DEF Decodes
  <2>2. BootTypeOK' /\ WindowInPlace' /\ ZonesMapped'
    BY <2>1 DEF BootIInv, BootTypeOK, WindowInPlace, ZonesMapped
  <2>3. TouchesItsOwn'
    BY <2>1 DEF BootIInv, TouchesItsOwn
  <2> QED
    BY <2>1, <2>2, <2>3 DEF BootIInv
<1>2. CASE ~UNCHANGED <<window, base, of>>
  <2>1. /\ page \in Low..High /\ window' = WithEntry(i, page)
        /\ base' = [base EXCEPT ![d] = {i}] /\ of' = [of EXCEPT ![d] = f]
    BY <1>2 DEF MapsAndTakes, MapMmioPage, Takes, MmioVirtAddr
  <2>2. i \in 0..(Entries2M - 1) /\ page = Low + i
    <3>1. page \in 1536..2047
      BY <2>1 DEF Low, High, Entries2M
    <3>2. page % 512 = page - 1536
      BY <3>1
    <3> QED
      BY <3>1, <3>2 DEF Low, Entries2M
  <2>3. /\ DOMAIN window' = DOMAIN window \cup {i} /\ window'[i] = page
        /\ \A k \in DOMAIN window : k # i => window'[k] = window[k]
    BY <2>1 DEF WithEntry
  <2>4. \A k \in DOMAIN window : window'[k] = window[k]
    BY <2>2, <2>3 DEF BootIInv, WindowInPlace
  <2>5. WindowInPlace'
    BY <2>2, <2>3, <2>4 DEF BootIInv, WindowInPlace
  <2>6. ZonesMapped'
    BY <2>3 DEF BootIInv, ZonesMapped
  <2>7. /\ DOMAIN base' = Drivers /\ DOMAIN of' = Drivers
        /\ base'[d] = {i} /\ of'[d] = f
        /\ \A e \in Drivers \ {d} : base'[e] = base[e] /\ of'[e] = of[e]
    BY <2>1 DEF BootIInv, Drivers
  <2>8. BootTypeOK'
    <3>1. \A k \in DOMAIN window' : window'[k] \in Low..High
      BY <2>5 DEF WindowInPlace, Low, High, Entries2M
    <3>2. \A e \in Drivers : base'[e] \subseteq 0..(Entries2M - 1)
      BY <2>2, <2>7 DEF BootIInv, BootTypeOK
    <3> QED
      BY <3>1, <3>2 DEF BootTypeOK
  <2>9. \A g : Decodes(g)' = Decodes(g)
    BY DEF Decodes
  <2>10. TouchesItsOwn'
    <3> SUFFICES ASSUME NEW e \in {"e1000", "hda", "ahci", "rtl"}, NEW k \in base'[e]
                 PROVE  /\ of'[e] \in master'
                        /\ \/ k \in DOMAIN window' /\ window'[k] \in Decodes(of'[e])
                           \/ e = "e1000" /\ Decodes(of'[e]) \cap Fixed = {}
      BY <2>9 DEF TouchesItsOwn
    <3>1. CASE e = d
      BY <3>1, <2>1, <2>3, <2>7
    <3>2. CASE e # d
      <4>1. k \in base[e] /\ of'[e] = of[e]
        BY <3>2, <2>7 DEF Drivers
      <4>2. /\ of[e] \in master
            /\ \/ k \in DOMAIN window /\ window[k] \in Decodes(of[e])
               \/ e = "e1000" /\ Decodes(of[e]) \cap Fixed = {}
        BY <4>1 DEF BootIInv, TouchesItsOwn
      <4> QED
        BY <4>1, <4>2, <2>3, <2>4
    <3> QED
      BY <3>1, <3>2
  <2> QED
    BY <2>5, <2>6, <2>7, <2>8, <2>10 DEF BootIInv
<1> QED
  BY <1>1, <1>2

LEMMA PagingIInv == BootIInv /\ PagingInit => BootIInv'
<1> SUFFICES ASSUME BootIInv, PagingInit PROVE BootIInv'
  OBVIOUS
<1>1. /\ UNCHANGED <<board, master, base, of>> /\ bootPc' = "e1000"
      /\ \A d \in Drivers : base[d] = {}
  BY DEF BootIInv, PagingInit
<1>2. {p - Low : p \in Fixed} \subseteq 0..(Entries2M - 1)
  BY DEF Fixed, Low, Entries2M
<1>3. /\ DOMAIN window' = {p - Low : p \in Fixed}
      /\ \A k \in DOMAIN window' : window'[k] = Low + k
  BY DEF PagingInit
<1>4. WindowInPlace' /\ ZonesMapped'
  BY <1>2, <1>3 DEF WindowInPlace, ZonesMapped
<1>5. \A k \in DOMAIN window' : window'[k] \in Low..High
  <2>1. \A k \in 0..(Entries2M - 1) : Low + k \in Low..High
    BY DEF Low, High, Entries2M
  <2> QED
    BY <1>2, <1>3, <2>1
<1>6. BootTypeOK' /\ TouchesItsOwn'
  BY <1>1, <1>5 DEF BootIInv, BootTypeOK, TouchesItsOwn, Drivers
<1> QED
  BY <1>1, <1>4, <1>6 DEF BootIInv

LEMMA E1000IInv == BootIInv /\ E1000Boot => BootIInv'
<1> SUFFICES ASSUME BootIInv, E1000Boot PROVE BootIInv'
  OBVIOUS
<1>1. /\ UNCHANGED <<board, window>> /\ bootPc = "e1000" /\ bootPc' = "hda"
      /\ master' = master \cup PciFindDevice("8086:100e")
  BY DEF E1000Boot
<1>2. master \subseteq master' /\ master' \subseteq DOMAIN board
  BY <1>1, Found DEF BootIInv, BootTypeOK
<1>3. WindowInPlace' /\ ZonesMapped'
  BY <1>1 DEF BootIInv, WindowInPlace, ZonesMapped
<1>4. \A g : Decodes(g)' = Decodes(g)
  BY <1>1 DEF Decodes
<1>5. CASE UNCHANGED <<base, of>>
  <2>1. BootTypeOK'
    BY <1>1, <1>2, <1>5 DEF BootIInv, BootTypeOK
  <2>2. TouchesItsOwn'
    BY <1>1, <1>2, <1>4, <1>5 DEF BootIInv, TouchesItsOwn
  <2> QED
    BY <1>1, <1>3, <1>5, <2>1, <2>2 DEF BootIInv
<1>6. ASSUME NEW f \in PciFindDevice("8086:100e"), Takes("e1000", f, ReadBars(f))
      PROVE  BootIInv'
  <2> DEFINE b == board[f].bars
             page == b[0].page
             i == page % Entries2M
  <2>1. /\ f \in DOMAIN board /\ f \in master' /\ DOMAIN b = 0..5 /\ page \in Nat
        /\ ~b[0].wide /\ \A k \in 1..5 : b[k].io \/ b[k].page = 0
    BY <1>1, Found, PlatformAssumption DEF BootIInv
  <2>2. ReadBars(f) = page
    BY <2>1 DEF ReadBars
  <2>3. /\ base' = [base EXCEPT !["e1000"] = {i}] /\ of' = [of EXCEPT !["e1000"] = f]
    BY <1>6, <2>2 DEF Takes, MmioVirtAddr
  <2>4. /\ DOMAIN base' = Drivers /\ DOMAIN of' = Drivers
        /\ base'["e1000"] = {i} /\ of'["e1000"] = f
        /\ \A e \in Drivers \ {"e1000"} : base'[e] = base[e] /\ of'[e] = of[e]
    BY <2>3 DEF BootIInv, Drivers
  <2>5. i \in 0..(Entries2M - 1)
    <3>1. \A x \in Nat : x % Entries2M \in 0..(Entries2M - 1)
      BY DEF Entries2M
    <3> QED
      BY <2>1, <3>1
  <2>6. BootTypeOK'
    <3>1. \A e \in Drivers : base'[e] \subseteq 0..(Entries2M - 1)
      BY <2>4, <2>5 DEF BootIInv, BootTypeOK
    <3> QED
      BY <3>1, <1>1, <1>2 DEF BootIInv, BootTypeOK
  <2>7. Decodes(f) \subseteq {page}
    <3> SUFFICES ASSUME NEW j \in DOMAIN b, ~b[j].io /\ b[j].page # 0
                 PROVE  (IF b[j].wide THEN b[j].page + b[j + 1].page * 2048
                                      ELSE b[j].page) = page
      BY DEF Decodes
    <3>1. j = 0
      BY <2>1
    <3> QED
      BY <2>1, <3>1
  <2>8. (i \in DOMAIN window /\ window[i] \in Decodes(f)) \/ Decodes(f) \cap Fixed = {}
    <3> SUFFICES ASSUME page \in Decodes(f), page \in Fixed
                 PROVE  i \in DOMAIN window /\ window[i] \in Decodes(f)
      BY <2>7
    <3>1. page % 512 = page - 1536
      BY DEF Fixed
    <3>2. i = page - Low
      BY <3>1 DEF Low, Entries2M
    <3>3. i \in DOMAIN window
      BY <1>1, <3>2 DEF BootIInv, ZonesMapped
    <3>4. window[i] = page
      BY <2>1, <3>2, <3>3 DEF BootIInv, WindowInPlace, Low, Entries2M
    <3> QED
      BY <3>3, <3>4
  <2>9. TouchesItsOwn'
    <3> SUFFICES ASSUME NEW e \in {"e1000", "hda", "ahci", "rtl"}, NEW k \in base'[e]
                 PROVE  /\ of'[e] \in master'
                        /\ \/ k \in DOMAIN window /\ window[k] \in Decodes(of'[e])
                           \/ e = "e1000" /\ Decodes(of'[e]) \cap Fixed = {}
      BY <1>1, <1>4 DEF TouchesItsOwn
    <3>1. CASE e = "e1000"
      BY <3>1, <2>1, <2>4, <2>8
    <3>2. CASE e # "e1000"
      <4>1. k \in base[e] /\ of'[e] = of[e]
        BY <3>2, <2>4 DEF Drivers
      <4> QED
        BY <4>1, <3>2, <1>2 DEF BootIInv, TouchesItsOwn
    <3> QED
      BY <3>1, <3>2
  <2> QED
    BY <1>1, <1>3, <2>4, <2>6, <2>9 DEF BootIInv
<1> QED
  BY <1>5, <1>6 DEF E1000Boot

(* What a driver takes for its base is a page its device decodes. *)
LEMMA FirstBarDecodes ==
  ASSUME BootIInv, NEW f \in HdaControllers, ReadBars(f) \in Low..High
  PROVE  ReadBars(f) \in Decodes(f)
<1> DEFINE b == board[f].bars
<1>1. f \in DOMAIN board /\ (board[f].class = "04:03" \/ board[f].id = "8086:2668")
  BY Found DEF HdaControllers
<1>2. DOMAIN b = 0..5 /\ (\A j \in 0..5 : b[j].page \in Nat) /\ ~b[0].io
  BY <1>1, PlatformAssumption DEF BootIInv
<1>3. b[0].page # 0 => ReadBars(f) \in Decodes(f)
  BY <1>2 DEF ReadBars, Decodes
<1>4. ASSUME b[0].page = 0 PROVE FALSE
  <2>1. b[1].page \in Nat /\ ReadBars(f) \in 1536..2047
    <3>1. Low = 1536 /\ High = 2047
      BY DEF Low, High, Entries2M
    <3>2. ReadBars(f) \in 1536..2047
      BY ONLY <3>1, ReadBars(f) \in Low..High
    <3> QED
      BY <1>2, <3>2
  <2>2. ReadBars(f) \in {0, b[1].page * 2048}
    <3>1. \A x \in Nat : 0 + x = x
      OBVIOUS
    <3>2. ReadBars(f) = IF b[0].wide THEN 0 + b[1].page * 2048 ELSE 0
      BY <1>4 DEF ReadBars
    <3>3. b[1].page * 2048 \in Nat
      BY <2>1
    <3> QED
      BY <3>1, <3>2, <3>3
  <2>3. b[1].page * 2048 = 0 \/ b[1].page * 2048 > 2047
    BY <2>1
  <2> QED
    BY <2>1, <2>2, <2>3
<1> QED
  BY <1>3, <1>4

LEMMA LastBarDecodes ==
  ASSUME BootIInv, NEW f \in PciFindDevice("10ec:8136"), NEW i \in RtlBar(f)
  PROVE  /\ i \in 0..2 /\ board[f].bars[i].page \in Nat
         /\ board[f].bars[i].page \in Low..High => board[f].bars[i].page \in Decodes(f)
<1> DEFINE b == board[f].bars
           usable == {j \in 0..2 : ~b[j].io /\ b[j].page # 0}
<1>1. f \in DOMAIN board /\ board[f].id = "10ec:8136"
  BY Found
<1>2. /\ DOMAIN b = 0..5 /\ \A j \in 0..5 : b[j].page \in Nat
      /\ \A j \in 0..2 : b[j].wide => b[j + 1].page = 0
  BY <1>1, PlatformAssumption DEF BootIInv
<1>3. i \in usable
  <2>1. usable # {} /\ i = Max(usable)
    BY DEF RtlBar
  <2>2. \E m \in usable : \A j \in usable : j <= m
    <3>1. \A j \in usable : j = 0 \/ j = 1 \/ j = 2
      OBVIOUS
    <3>2. CASE 2 \in usable
      BY <3>1, <3>2
    <3>3. CASE 2 \notin usable /\ 1 \in usable
      BY <3>1, <3>3
    <3>4. CASE 2 \notin usable /\ 1 \notin usable
      BY <2>1, <3>1, <3>4
    <3> QED
      BY <3>2, <3>3, <3>4
  <2> QED
    BY <2>1, <2>2 DEF Max
<1>4. i = 0 \/ ~b[i - 1].wide
  <2>1. ASSUME i # 0, b[i - 1].wide PROVE b[i].page = 0
    <3>1. i - 1 \in 0..2 /\ (i - 1) + 1 = i
      BY <1>3, <2>1
    <3> QED
      BY <1>2, <2>1, <3>1
  <2> QED
    BY <1>3, <2>1
<1>5. b[i].wide => b[i].page + b[i + 1].page * 2048 = b[i].page
  BY <1>2, <1>3
<1>6. (IF b[i].wide THEN b[i].page + b[i + 1].page * 2048 ELSE b[i].page) = b[i].page
  BY <1>5
<1>7. i \in {j \in DOMAIN b : ~b[j].io /\ b[j].page # 0 /\ (j = 0 \/ ~b[j - 1].wide)}
  BY <1>2, <1>3, <1>4
<1> QED
  BY <1>2, <1>3, <1>6, <1>7 DEF Decodes

LEMMA HdaIInv == BootIInv /\ (HdaProbe \/ HdaAgain) => BootIInv'
<1> SUFFICES ASSUME BootIInv, HdaProbe \/ HdaAgain PROVE BootIInv'
  OBVIOUS
<1>1. /\ UNCHANGED board /\ bootPc = "hda" /\ bootPc' # "paging"
      /\ master \subseteq DOMAIN board
  BY DEF HdaProbe, HdaAgain, BootIInv, BootTypeOK
<1>2. \A f \in HdaControllers : f \in DOMAIN board /\ ReadBars(f) \in Nat
  <2> SUFFICES ASSUME NEW f \in HdaControllers
               PROVE  f \in DOMAIN board /\ ReadBars(f) \in Nat
    OBVIOUS
  <2>1. f \in DOMAIN board
    BY Found DEF HdaControllers
  <2>2. \A j \in 0..5 : board[f].bars[j].page \in Nat
    BY <2>1, PlatformAssumption DEF BootIInv
  <2>3. board[f].bars[0].page \in Nat /\ board[f].bars[1].page \in Nat
    BY <2>2
  <2> QED
    BY <2>1, <2>3 DEF ReadBars
<1>3. ASSUME HdaProbe PROVE BootIInv'
  <2> DEFINE S == HdaControllers \ master
             f == Min(S)
  <2>1. S \subseteq Nat /\ S # {}
    BY <1>2, <1>3, PlatformAssumption DEF HdaProbe, BootIInv
  <2>2. f \in HdaControllers
    BY <2>1, MinIsLeast
  <2>3. master' = master \cup {f} /\ MapsAndTakes("hda", f, ReadBars(f))
    BY <1>3 DEF HdaProbe
  <2> QED
    BY <1>1, <1>2, <2>2, <2>3, FirstBarDecodes, TakesItsOwn
<1>4. ASSUME HdaAgain, UNCHANGED <<window, base, of>> PROVE BootIInv'
  <2>1. UNCHANGED <<board, window, master, base, of>>
    BY <1>4 DEF HdaAgain
  <2>2. \A g : Decodes(g)' = Decodes(g)
    BY <2>1 DEF Decodes
  <2>3. BootTypeOK' /\ WindowInPlace' /\ ZonesMapped'
    BY <1>1, <2>1 DEF BootIInv, BootTypeOK, WindowInPlace, ZonesMapped
  <2>4. TouchesItsOwn'
    BY <2>1, <2>2 DEF BootIInv, TouchesItsOwn
  <2> QED
    BY <1>1, <2>1, <2>3, <2>4 DEF BootIInv
<1>5. ASSUME HdaAgain, NEW f \in HdaControllers, MapsAndTakes("hda", f, ReadBars(f))
      PROVE  BootIInv'
  <2>1. UNCHANGED master /\ f \in master
    BY <1>5 DEF HdaAgain
  <2> QED
    BY <1>1, <1>2, <1>5, <2>1, FirstBarDecodes, TakesItsOwn
<1> QED
  BY <1>3, <1>4, <1>5 DEF HdaAgain

LEMMA AhciIInv == BootIInv /\ AhciBoot => BootIInv'
<1> SUFFICES ASSUME BootIInv, AhciBoot PROVE BootIInv'
  OBVIOUS
<1>1. /\ UNCHANGED board /\ bootPc = "ahci" /\ bootPc' # "paging"
      /\ master' = master \cup FindClass("01:06")
  BY DEF AhciBoot
<1>2. master' \subseteq DOMAIN board
  BY <1>1, Found DEF BootIInv, BootTypeOK
<1>3. ASSUME UNCHANGED <<window, base, of>> PROVE BootIInv'
  <2>1. \A g : Decodes(g)' = Decodes(g)
    BY <1>1 DEF Decodes
  <2>2. BootTypeOK' /\ WindowInPlace' /\ ZonesMapped'
    BY <1>1, <1>2, <1>3 DEF BootIInv, BootTypeOK, WindowInPlace, ZonesMapped
  <2>3. TouchesItsOwn'
    BY <1>1, <1>3, <2>1 DEF BootIInv, TouchesItsOwn
  <2> QED
    BY <1>1, <1>3, <2>2, <2>3 DEF BootIInv
<1>4. ASSUME NEW f \in FindClass("01:06"),
             MapsAndTakes("ahci", f, board[f].bars[5].page)
      PROVE  BootIInv'
  <2> DEFINE b == board[f].bars
  <2>1. f \in DOMAIN board /\ board[f].class = "01:06"
    BY Found
  <2>2. /\ DOMAIN b = 0..5 /\ b[5].page \in Nat /\ ~b[5].io /\ ~b[5].wide /\ ~b[4].wide
    <3>1. DOMAIN b = 0..5 /\ \A j \in 0..5 : b[j].page \in Nat
      BY <2>1, PlatformAssumption DEF BootIInv
    <3>2. ~b[5].io /\ ~b[5].wide /\ ~b[4].wide
      BY <2>1, PlatformAssumption DEF BootIInv
    <3> QED
      BY <3>1, <3>2
  <2>3. b[5].page # 0 => b[5].page \in Decodes(f)
    <3>1. 5 \in 0..5 /\ 5 - 1 = 4
      OBVIOUS
    <3>2. b[5].page # 0 =>
            5 \in {j \in DOMAIN b : ~b[j].io /\ b[j].page # 0 /\ (j = 0 \/ ~b[j - 1].wide)}
      BY <2>2, <3>1
    <3> QED
      BY <2>2, <3>2 DEF Decodes
  <2>4. b[5].page \in Low..High => b[5].page \in Decodes(f)
    BY <2>3 DEF Low, Entries2M
  <2> QED
    BY <1>1, <1>2, <1>4, <2>2, <2>4, TakesItsOwn
<1> QED
  BY <1>3, <1>4 DEF AhciBoot

LEMMA RtlBootIInv == BootIInv /\ RtlBoot => BootIInv'
<1> SUFFICES ASSUME BootIInv, RtlBoot PROVE BootIInv'
  OBVIOUS
<1>1. /\ UNCHANGED board /\ bootPc = "rtl" /\ bootPc' # "paging"
      /\ master' = master \cup PciFindDevice("10ec:8136")
  BY DEF RtlBoot
<1>2. master' \subseteq DOMAIN board
  BY <1>1, Found DEF BootIInv, BootTypeOK
<1>3. ASSUME UNCHANGED <<window, base, of>> PROVE BootIInv'
  <2>1. \A g : Decodes(g)' = Decodes(g)
    BY <1>1 DEF Decodes
  <2>2. BootTypeOK' /\ WindowInPlace' /\ ZonesMapped'
    BY <1>1, <1>2, <1>3 DEF BootIInv, BootTypeOK, WindowInPlace, ZonesMapped
  <2>3. TouchesItsOwn'
    BY <1>1, <1>3, <2>1 DEF BootIInv, TouchesItsOwn
  <2> QED
    BY <1>1, <1>3, <2>2, <2>3 DEF BootIInv
<1>4. ASSUME NEW f \in PciFindDevice("10ec:8136"), NEW i \in RtlBar(f),
             MapsAndTakes("rtl", f, board[f].bars[i].page)
      PROVE  BootIInv'
  BY <1>1, <1>2, <1>4, LastBarDecodes, TakesItsOwn
<1>5. ASSUME NEW c \in PciFindDevice("10ec:8136") \X (0..2), c[2] \in RtlBar(c[1]),
             MapsAndTakes("rtl", c[1], board[c[1]].bars[c[2]].page)
      PROVE  BootIInv'
  BY <1>4, <1>5
<1> QED
  BY <1>3, <1>5 DEF RtlBoot

LEMMA ApicIInv == BootIInv /\ ApicBoot => BootIInv'
<1> SUFFICES ASSUME BootIInv, ApicBoot PROVE BootIInv'
  OBVIOUS
<1>1. /\ UNCHANGED <<board, window, master, of>> /\ bootPc = "apic" /\ bootPc' = "loop"
      /\ base' = [base EXCEPT !["apic"] = {MmioVirtAddr(2039)},
                              !["ioapic"] = {MmioVirtAddr(2038)}]
  BY DEF ApicBoot
<1>2. MmioVirtAddr(2039) \in 0..511 /\ MmioVirtAddr(2038) \in 0..511
  BY DEF MmioVirtAddr, Entries2M
<1>3. /\ DOMAIN base' = Drivers
      /\ \A d \in Drivers \ {"apic", "ioapic"} : base'[d] = base[d]
      /\ \A d \in {"apic", "ioapic"} : base'[d] \subseteq 0..511
  BY <1>1, <1>2 DEF BootIInv, Drivers
<1>4. BootTypeOK'
  <2>1. \A d \in Drivers : base'[d] \subseteq 0..(Entries2M - 1)
    BY <1>3 DEF BootIInv, BootTypeOK, Drivers, Entries2M
  <2> QED
    BY <1>1, <2>1 DEF BootIInv, BootTypeOK
<1>5. WindowInPlace' /\ ZonesMapped'
  BY <1>1 DEF BootIInv, WindowInPlace, ZonesMapped
<1>6. \A g : Decodes(g)' = Decodes(g)
  BY <1>1 DEF Decodes
<1>7. TouchesItsOwn'
  BY <1>1, <1>3, <1>6 DEF BootIInv, TouchesItsOwn, Drivers
<1> QED
  BY <1>1, <1>3, <1>4, <1>5, <1>7 DEF BootIInv

LEMMA BootNextIInv == BootIInv /\ [BootNext]_bootVars => BootIInv'
<1>1. ASSUME BootIInv, UNCHANGED bootVars PROVE BootIInv'
  <2>1. UNCHANGED <<board, window, master, base, of, bootPc>>
    BY <1>1 DEF bootVars
  <2>2. \A g : Decodes(g)' = Decodes(g)
    BY <2>1 DEF Decodes
  <2>3. BootTypeOK' /\ WindowInPlace' /\ ZonesMapped'
    BY <1>1, <2>1 DEF BootIInv, BootTypeOK, WindowInPlace, ZonesMapped
  <2>4. TouchesItsOwn'
    BY <1>1, <2>1, <2>2 DEF BootIInv, TouchesItsOwn
  <2> QED
    BY <1>1, <2>1, <2>3, <2>4 DEF BootIInv
<1> QED
  BY <1>1, PagingIInv, E1000IInv, HdaIInv, AhciIInv, RtlBootIInv, ApicIInv DEF BootNext
-----------------------------------------------------------------------------
(* The composition: a step of the machine is a step, or no step, of each   *)
(* part.                                                                   *)
LEMMA E1000Splits == E1000 => [RxNext]_rxVars /\ [TxNext]_txVars
<1>1. Send => [TxNext]_txVars
  BY DEF Send, TxNext
<1>2. TickArp \/ TickEnds \/ TestTxReturns \/ RxAlone \/ Chip => RxNext
  BY DEF RxNext, RxCpu, RxAlone
<1> QED
  BY <1>1, <1>2
     DEF E1000, BootTestTx, BootTested, AnswerArp, Telemetry, TxNext

LEMMA RtlStepIInv == RtlIInv /\ [RtlNext]_rtlVars => RtlIInv'
<1>1. ASSUME RtlIInv, UNCHANGED rtlVars PROVE RtlIInv'
  <2>1. UNCHANGED <<own, rtlBuf, poked, sending, onWire, txPc, by, calls, okCount, failCount>>
    BY <1>1 DEF rtlVars, chipVars
  <2> QED
    BY <1>1, <2>1
       DEF RtlIInv, RtlTypeOK, InFlightOwned, TelemetrySawIt, BufferOffered, CallsCounted
<1> QED
  BY <1>1, RtlNextIInv

DevicesIInv == /\ RxIInv /\ TxIInv /\ RtlIInv
               /\ DiskIInv /\ LinkIInv /\ EarIInv /\ BootIInv

LEMMA DevicesInit == Init => DevicesIInv
  BY RxInitIInv, TxInitIInv, RtlInitIInv, DiskInitIInv, LinkInitIInv, EarInitIInv,
     BootInitIInv DEF Init, NicsInit, DevicesIInv

LEMMA DevicesStep ==
  [Next]_devicesVars => /\ [RxNext]_rxVars /\ [TxNext]_txVars /\ [RtlNext]_rtlVars
                        /\ [DiskNext]_diskVars /\ [LinkNext]_linkOwn
                        /\ [EarNext]_earVars /\ [BootNext]_bootVars
<1>1. NicsNext => [RxNext]_rxVars /\ [TxNext]_txVars /\ [RtlNext]_rtlVars
  BY E1000Splits DEF NicsNext, Realtek
<1>2. UNCHANGED nicsVars => UNCHANGED <<rxVars, txVars, rtlVars>>
  BY DEF nicsVars
<1>3. CASE UNCHANGED devicesVars
  BY <1>2, <1>3 DEF devicesVars
<1>4. CASE Next
  BY <1>1, <1>2, <1>4 DEF Next
<1> QED
  BY <1>3, <1>4

(* The conjunction of the inductive invariants holds of the whole machine: *)
(* no device takes another out of its own.                                 *)
THEOREM DevicesInductive == Spec => []DevicesIInv
<1>1. Init => DevicesIInv
  BY DevicesInit
<1>2. DevicesIInv /\ [Next]_devicesVars => DevicesIInv'
  BY DevicesStep, RxNextIInv, TxNextIInv, RtlStepIInv, DiskNextIInv, LinkNextIInv,
     EarNextIInv, BootNextIInv DEF DevicesIInv
<1> QED
  BY <1>1, <1>2, PTL DEF Spec

(* No index leaves its ring and no driver the gigabyte of its window, for  *)
(* every size of the rings and every number of frames, calls and verbs.    *)
THEOREM DevicesTypeCorrect == Spec => []TypeOK
<1>1. DevicesIInv => TypeOK
  BY RtlSafe, DiskSafe, EarSafe, RxSafe, TxSafe
     DEF DevicesIInv, TypeOK, NicsTypeOK, LinkIInv, BootIInv
<1> QED
  BY <1>1, DevicesInductive, PTL

(* poll_rx feeds the port no frame whose status it has still to clear, and *)
(* the driver loses at most the first frame of all, to the boot's own      *)
(* loopback test.                                                          *)
THEOREM FramesOnce == Spec => []EachFrameOnce
<1>1. DevicesIInv => EachFrameOnce
  BY RxSafe DEF DevicesIInv
<1> QED
  BY <1>1, DevicesInductive, PTL

(* Every descriptor the card is shown was written and is not yet done; a   *)
(* card at rest has sent the last frame offered, the first alone excepted, *)
(* in whose place its last is that of test_tx; and a call is refused while *)
(* the card holds the descriptor, or for good when TX_NEXT is back at that *)
(* of the excepted frame (src/e1000.rs test_tx, tx_frame).                 *)
THEOREM TransmitRingAgrees == Spec => []RingAgrees
<1>1. DevicesIInv => RingAgrees
  BY TxSafe DEF DevicesIInv
<1> QED
  BY <1>1, DevicesInductive, PTL

(* The telemetry, which gives up instead of waiting, writes no buffer the  *)
(* Realtek chip is sending from.                                           *)
THEOREM TelemetryNeverTears == Spec => []TelemetryHarmless
<1>1. DevicesIInv => TelemetryHarmless
  BY RtlSafe DEF DevicesIInv
<1> QED
  BY <1>1, DevicesInductive, PTL

(* However the waits end, every call of tx_frame that has returned is in   *)
(* one of the two counters, once.                                          *)
THEOREM EveryCallCounted == Spec => []CallsCounted
<1>1. DevicesIInv => CallsCounted
  BY DEF DevicesIInv, RtlIInv
<1> QED
  BY <1>1, DevicesInductive, PTL

(* Until a call has given up, a disk call that returns true has done what  *)
(* it was asked: moved the sector, or made the cache permanent.            *)
THEOREM DiskTellsTheTruth == Spec => []TrueIsDone
<1>1. DevicesIInv => TrueIsDone
  BY DiskSafe DEF DevicesIInv
<1> QED
  BY <1>1, DevicesInductive, PTL

(* An answer of the codec is at most as many verbs old as verbs were given *)
(* up, whatever the size of the rings.                                     *)
THEOREM AnswersNeverLagMore == Spec => []AnswersLag
<1>1. DevicesIInv => AnswersLag
  BY DEF DevicesIInv, LinkIInv
<1> QED
  BY <1>1, DevicesInductive, PTL

(* For every machine and whichever verbs give up: the stream is set up on  *)
(* the registers of the controller hda_path chooses, of each codec walked  *)
(* the pin taken is the best heard behind its router, and the chain is     *)
(* that of the first codec with a pin (src/hda.rs stream_init).  A walk    *)
(* that takes late answers for its own is no walk in heard.                *)
THEOREM MicrophoneIsBest == Spec => []BestMicrophone
<1>1. DevicesIInv => BestMicrophone
  BY EarSafe DEF DevicesIInv
<1> QED
  BY <1>1, DevicesInductive, PTL

(* No driver reads the registers of another device through the window, for *)
(* every machine whose BARs are wired as PlatformAssumption says.          *)
THEOREM RegistersAreOwn == Spec => []TouchesItsOwn
<1>1. DevicesIInv => TouchesItsOwn
  BY DEF DevicesIInv, BootIInv
<1> QED
  BY <1>1, DevicesInductive, PTL
=============================================================================
