------------------------------ MODULE E1000Tx -------------------------------
(***************************************************************************)
(* Transmission on the Intel e1000 (src/e1000.rs): a ring of descriptors   *)
(* that all point at the one TX_BUF.  setup_tx marks every descriptor done *)
(* (STATUS_DD); test_tx sends through descriptor 0 and waits; afterwards   *)
(* tx_frame (ARP replies) and tx_broadcast_state share the same steps:     *)
(* give up when the descriptor TX_NEXT is not done, otherwise write the    *)
(* frame and the descriptor, and move TDT past it.                         *)
(*                                                                         *)
(* The chip sends descriptors TDH..TDT-1.  Frames are numbered by the call *)
(* that offers them, the frame of test_tx being 0.                         *)
(***************************************************************************)
EXTENDS Integers

CONSTANTS TxRing,        \* TX_RING_SIZE
          MaxFrames      \* bound: calls of the two senders in a behaviour

ASSUME E1000TxAssumption == TxRing \in Nat \ {0, 1} /\ MaxFrames \in Nat

TxDesc == 0..TxRing-1

VARIABLES tdh, tdt,      \* chip registers
          txDd,          \* STATUS_DD of each descriptor
          filled,        \* the descriptors whose addr points at TX_BUF
          txBuf,         \* TX_BUF: the frame it holds
          txNext,        \* TX_NEXT
          booted,        \* test_tx has returned
          offered,       \* calls so far
          wire,          \* history: the last frame the chip sent, -1 for none
          lastCall       \* history: what the last call returned

txVars == <<tdh, tdt, txDd, filled, txBuf, txNext, booted, offered, wire, lastCall>>

\* The descriptors the chip holds: TDH up to, not including, TDT.
Span    == (tdt - tdh + TxRing) % TxRing
Held(i) == (i - tdh + TxRing) % TxRing < Span
-----------------------------------------------------------------------------
\* setup_tx has run.
TxInit == /\ tdh = 0 /\ tdt = 0
          /\ txDd = [i \in TxDesc |-> TRUE]
          /\ filled = {}
          /\ txBuf = 0 /\ txNext = 0
          /\ booted = FALSE
          /\ offered = 0 /\ wire = -1
          /\ lastCall = "none"

\* The chip (external): sends what TX_BUF holds now and writes DD back.
ChipSend ==
  /\ tdh # tdt
  /\ txDd' = [txDd EXCEPT ![tdh] = TRUE]
  /\ wire' = txBuf
  /\ tdh' = (tdh + 1) % TxRing
  /\ UNCHANGED <<tdt, filled, txBuf, txNext, booted, offered, lastCall>>

\* test_tx through descriptor 0; TX_NEXT is not moved.
TestTx ==
  /\ ~booted /\ tdt = 0
  /\ filled' = {0}
  /\ txDd' = [txDd EXCEPT ![0] = FALSE]
  /\ tdt' = 1
  /\ UNCHANGED <<tdh, txBuf, txNext, booted, offered, wire, lastCall>>

\* test_tx returns, whether the chip answered within its ten million reads.
TestTxEnd ==
  /\ ~booted /\ tdt = 1
  /\ booted' = TRUE
  /\ UNCHANGED <<tdh, tdt, txDd, filled, txBuf, txNext, offered, wire, lastCall>>
-----------------------------------------------------------------------------
\* The descriptor is not done: "descrittore ancora in mano al chip".
TxRefuse ==
  /\ booted /\ offered < MaxFrames
  /\ ~txDd[txNext]
  /\ offered' = offered + 1
  /\ lastCall' = "refused"
  /\ UNCHANGED <<tdh, tdt, txDd, filled, txBuf, txNext, booted, wire>>

\* Slips: TX_NEXT does not wrap or skips a descriptor; TDT is written before
\* TX_NEXT is advanced; the status of the descriptor is not reset.
NextTdt_NoWrap == txNext + 1
NextTdt_TooFar == (txNext + 2) % TxRing
TailValue_Late == txNext
Claimed_StatusKept == txDd

NextTdt   == (txNext + 1) % TxRing
TailValue == NextTdt
Claimed   == [txDd EXCEPT ![txNext] = FALSE]

TxFrame ==
  /\ booted /\ offered < MaxFrames
  /\ txDd[txNext]
  /\ offered' = offered + 1
  /\ txBuf' = offered + 1
  /\ filled' = filled \cup {txNext}
  /\ txDd' = Claimed
  /\ tdt' = TailValue
  /\ txNext' = NextTdt
  /\ lastCall' = "accepted"
  /\ UNCHANGED <<tdh, booted, wire>>

TxNext == ChipSend \/ TestTx \/ TestTxEnd \/ TxRefuse \/ TxFrame

TxSpec == TxInit /\ [][TxNext]_txVars
-----------------------------------------------------------------------------
TxTypeOK == /\ tdh \in TxDesc /\ tdt \in TxDesc /\ txNext \in TxDesc
            /\ txDd \in [TxDesc -> BOOLEAN]
            /\ filled \subseteq TxDesc
            /\ txBuf \in 0..MaxFrames
            /\ booted \in BOOLEAN
            /\ offered \in 0..MaxFrames
            /\ wire \in -1..MaxFrames
            /\ lastCall \in {"none", "accepted", "refused"}

(* Of the descriptors the chip is shown none is unwritten, its address     *)
(* still zero, and none is marked done, so that a sender that finds DD set *)
(* may rewrite it.  A chip at rest after the boot has sent the frame in    *)
(* TX_BUF, and the one of test_tx as long as a single frame was offered:   *)
(* test_tx left TDT where that frame puts it, so the chip is not told of   *)
(* it.  A call is refused only while the chip holds the descriptor, or for *)
(* good, when TX_NEXT has come round to that of the untold frame.          *)
RingAgrees ==
  /\ \A i \in TxDesc : Held(i) => i \in filled /\ ~txDd[i]
  /\ booted /\ tdh = tdt => wire = IF filled = {0} THEN 0 ELSE txBuf
  /\ booted /\ ~txDd[txNext] => Held(txNext) \/ (txNext = 0 /\ filled = TxDesc)
=============================================================================
