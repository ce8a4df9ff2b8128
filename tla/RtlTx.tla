------------------------------- MODULE RtlTx --------------------------------
(***************************************************************************)
(* Transmission on the Realtek RTL810xE (src/rtl.rs): one descriptor, one  *)
(* buffer, and a tx_frame that arms the descriptor and waits, for at most  *)
(* two million reads, until the chip clears DescOwn.  Of its callers only  *)
(* the telemetry asks tx_ready first (main.rs:2028); the beacon and the    *)
(* ARP reply do not.                                                       *)
(*                                                                         *)
(* The chip reads the descriptor and the buffer, transmits when the link   *)
(* lets it, and only then writes the descriptor back; nothing bounds that  *)
(* time, so a wait may give up while a frame is in flight.                 *)
(***************************************************************************)
EXTENDS Integers

CONSTANT MaxCalls        \* bound: calls of tx_frame in a behaviour

ASSUME RtlTxAssumption == MaxCalls \in Nat

None == -1               \* the FIFO of the chip is empty

VARIABLES own,           \* DescOwn of descriptor 0
          rtlBuf,        \* TX_BUF: the frame it holds
          poked,         \* TX_POLL: the chip was told to look
          sending,       \* chip: the frame in its FIFO
          txPc,          \* tx_frame: idle, copied, waiting
          by,            \* the caller of the current tx_frame
          calls,         \* calls so far; the current frame has this number
          okCount, failCount,     \* TX_OK, TX_FAIL
          onWire         \* history: frames transmitted

chipVars == <<sending, onWire>>
rtlVars == <<own, rtlBuf, poked, chipVars, txPc, by, calls, okCount, failCount>>

Callers == {"telemetry", "beacon", "arp"}

\* tx_init: descriptor 0 is free.
RtlInit == /\ own = FALSE /\ rtlBuf = 0 /\ poked = FALSE
           /\ sending = None /\ onWire = {}
           /\ txPc = "idle" /\ by = "beacon" /\ calls = 0
           /\ okCount = 0 /\ failCount = 0
-----------------------------------------------------------------------------
(* The chip (external). *)
ChipFetch == /\ sending = None /\ poked
             /\ IF own THEN sending' = rtlBuf /\ UNCHANGED poked
                       ELSE poked' = FALSE /\ UNCHANGED sending
             /\ UNCHANGED <<own, rtlBuf, onWire, txPc, by, calls, okCount, failCount>>

ChipComplete == /\ sending # None
                /\ onWire' = onWire \cup {sending}
                /\ sending' = None
                /\ own' = FALSE
                /\ UNCHANGED <<rtlBuf, poked, txPc, by, calls, okCount, failCount>>
-----------------------------------------------------------------------------
TxReady == ~own

Copy(f) == rtlBuf' = f

\* tx_frame copies the frame in the DMA buffer; the telemetry is guarded.
Call(c) == /\ txPc = "idle" /\ calls < MaxCalls
           /\ c = "telemetry" => TxReady
           /\ by' = c
           /\ calls' = calls + 1
           /\ Copy(calls + 1)
           /\ txPc' = "copied"
           /\ UNCHANGED <<own, poked, chipVars, okCount, failCount>>

\* Release fence, DescOwn, TX_POLL.
Arm == /\ txPc = "copied" /\ txPc' = "waiting"
       /\ own' = TRUE
       /\ poked' = TRUE
       /\ UNCHANGED <<rtlBuf, chipVars, by, calls, okCount, failCount>>

WaitDone == /\ txPc = "waiting" /\ ~own
            /\ txPc' = "idle"
            /\ okCount' = okCount + 1
            /\ UNCHANGED <<own, rtlBuf, poked, chipVars, by, calls, failCount>>

\* Slips: the timeout takes the descriptor back; the wait has no bound.
WaitTimeout_Reclaim ==
  /\ txPc = "waiting" /\ own /\ txPc' = "idle" /\ own' = FALSE
  /\ failCount' = failCount + 1
  /\ UNCHANGED <<rtlBuf, poked, chipVars, by, calls, okCount>>
WaitTimeout_Never == FALSE /\ UNCHANGED rtlVars

\* Two million reads without an answer.
WaitTimeout == /\ txPc = "waiting" /\ own
               /\ txPc' = "idle"
               /\ failCount' = failCount + 1
               /\ UNCHANGED <<own, rtlBuf, poked, chipVars, by, calls, okCount>>

RtlCpu == Arm \/ WaitDone \/ WaitTimeout

RtlNext == ChipFetch \/ ChipComplete \/ RtlCpu \/ \E c \in Callers : Call(c)

\* The CPU goes on; neither the chip nor the callers owe a step.
RtlSpec == RtlInit /\ [][RtlNext]_rtlVars /\ WF_rtlVars(RtlCpu)
-----------------------------------------------------------------------------
RtlTypeOK == /\ own \in BOOLEAN /\ poked \in BOOLEAN
             /\ rtlBuf \in 0..MaxCalls
             /\ sending \in -1..MaxCalls
             /\ onWire \subseteq 1..MaxCalls
             /\ txPc \in {"idle", "copied", "waiting"}
             /\ by \in Callers
             /\ calls \in 0..MaxCalls
             /\ okCount \in Nat /\ failCount \in Nat

(* The telemetry never overwrites a frame the chip is transmitting, even   *)
(* one whose wait gave up: it skips its turn (tx_ready) instead of waiting. *)
TelemetryHarmless == txPc = "copied" /\ by = "telemetry" => sending = None

(* Every call is answered and counted, and a chip that never clears        *)
(* DescOwn does not stop the main loop.                                    *)
CallsReturn == /\ [](okCount + failCount = calls - (IF txPc = "idle" THEN 0 ELSE 1))
               /\ (txPc # "idle") ~> (txPc = "idle")

(* rtl.rs:695-696 "Ritorna true se il NIC l'ha preso in carico (DescOwn    *)
(* pulito dal chip = trasmesso)": tx_frame returns true only for a frame   *)
(* the chip has transmitted.                                               *)
TrueMeansSent == [][okCount' > okCount => calls \in onWire]_rtlVars
=============================================================================
