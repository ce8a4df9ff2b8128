------------------------------ MODULE E1000Rx -------------------------------
(***************************************************************************)
(* Reception on the Intel e1000 (src/e1000.rs): setup_rx lends the chip    *)
(* descriptors RDH..RDT-1, init ends with a transmit test, a software      *)
(* loopback and a first poll, and the main loop polls on every turn.       *)
(*                                                                         *)
(* Here the chip takes a descriptor by position (RDH against RDT), not by  *)
(* an ownership bit; the DD bit only tells the driver that a frame is in.  *)
(* The fields length and errors, and the registers that reset, link_up and *)
(* enable program once, are left out.                                      *)
(***************************************************************************)
EXTENDS RxPort, FiniteSets

CONSTANTS RxRing,        \* RX_RING_SIZE
          MaxPackets     \* bound: frames that arrive in a behaviour

ASSUME E1000RxAssumption == /\ RxRing \in Nat \ {0, 1}
                            /\ MaxPackets \in Nat
                            /\ Requests \subseteq 1..MaxPackets

RxDesc    == 0..RxRing-1
Packets   == 1..MaxPackets
LoopFrame == -1          \* the frame of test_tx, copied by loopback_test

VARIABLES rdh, rdt,      \* chip registers
          rxDd,          \* STATUS_DD of each descriptor
          pool,          \* RX_POOL: the frame in each buffer
          rxPc, scan,    \* where the CPU is; the loop index of poll_rx
          reading,       \* poll_rx has fed the descriptor, status not cleared
          arrived,       \* frames 1..arrived have been on the wire
          fed, dropped   \* history: handed to rx::feed; lost for want of room

ringVars == <<rdh, rdt, rxDd, pool>>
cpuVars  == <<rxPc, scan, reading>>
rxVars == <<portVars, ringVars, cpuVars, arrived, fed, dropped>>
-----------------------------------------------------------------------------
\* reset, link_up, setup_rx and enable have run; test_tx is waiting.
RxInit == /\ PortInit
          /\ rdh = 0 /\ rdt = RxRing - 1
          /\ rxDd = [i \in RxDesc |-> FALSE]
          /\ pool = [i \in RxDesc |-> NoFrame]
          /\ rxPc = "testtx" /\ scan = 0 /\ reading = FALSE
          /\ arrived = 0 /\ fed = {} /\ dropped = {}

(* The chip (external). *)
ChipReceive ==
  /\ arrived < MaxPackets
  /\ rdh # rdt
  /\ arrived' = arrived + 1
  /\ pool' = [pool EXCEPT ![rdh] = arrived + 1]
  /\ rxDd' = [rxDd EXCEPT ![rdh] = TRUE]
  /\ rdh' = (rdh + 1) % RxRing
  /\ UNCHANGED <<portVars, rdt, cpuVars, fed, dropped>>

ChipNoBuffer ==
  /\ arrived < MaxPackets
  /\ rdh = rdt
  /\ arrived' = arrived + 1
  /\ dropped' = dropped \cup {arrived + 1}
  /\ UNCHANGED <<portVars, ringVars, cpuVars, fed>>

Chip == ChipReceive \/ ChipNoBuffer
-----------------------------------------------------------------------------
\* test_tx gives up or sees its descriptor done.
TestTxReturns == /\ rxPc = "testtx" /\ rxPc' = "loopback"
                 /\ UNCHANGED <<portVars, ringVars, scan, reading, arrived, fed, dropped>>

\* loopback_test: TX_BUF is copied in the first buffer, marked received;
\* init then calls poll_rx.
LoopbackTest ==
  /\ rxPc = "loopback" /\ rxPc' = "scan" /\ scan' = 0
  /\ pool' = [pool EXCEPT ![0] = LoopFrame]
  /\ rxDd' = [rxDd EXCEPT ![0] = TRUE]
  /\ UNCHANGED <<portVars, rdh, rdt, reading, arrived, fed, dropped>>

\* The main loop calls poll_rx.
Poll == /\ rxPc = "poll" /\ rxPc' = "scan" /\ scan' = 0
        /\ UNCHANGED <<portVars, ringVars, reading, arrived, fed, dropped>>

AtDesc == rxPc = "scan" /\ scan \in RxDesc

ScanSkip == /\ AtDesc /\ ~reading /\ ~rxDd[scan]
            /\ scan' = scan + 1
            /\ UNCHANGED <<portVars, ringVars, rxPc, reading, arrived, fed, dropped>>

ScanFeed == /\ AtDesc /\ ~reading /\ rxDd[scan]
            /\ Feed(pool[scan])
            /\ fed' = fed \cup {pool[scan]}
            /\ reading' = TRUE
            /\ UNCHANGED <<ringVars, rxPc, scan, arrived, dropped>>

\* Slips: the status is left as it was; every status is cleared.
Clear_Nothing == UNCHANGED rxDd
Clear_All     == rxDd' = [i \in RxDesc |-> FALSE]

\* "Re-arm descriptor for next packet": desc_mut.status = 0.
Clear == rxDd' = [rxDd EXCEPT ![scan] = FALSE]

ScanClear == /\ AtDesc /\ reading
             /\ Clear
             /\ reading' = FALSE
             /\ scan' = scan + 1
             /\ UNCHANGED <<portVars, rdh, rdt, pool, rxPc, arrived, fed, dropped>>

\* poll_rx returns; the loop polls again, or a tick comes first.
PollDone == /\ rxPc = "scan" /\ scan = RxRing
            /\ rxPc' \in {"poll", "arp"}
            /\ UNCHANGED <<portVars, ringVars, scan, reading, arrived, fed, dropped>>

\* The ARP responder looks at the port (what it sends is E1000Tx's).
TickArp == /\ rxPc = "arp" /\ rxPc' = "take"
           /\ UNCHANGED <<portVars, ringVars, scan, reading, arrived, fed, dropped>>

TickTake == /\ rxPc = "take" /\ rxPc' = "rest"
            /\ IF pending THEN Take ELSE UNCHANGED portVars
            /\ UNCHANGED <<ringVars, scan, reading, arrived, fed, dropped>>

\* The rest of the tick, where the telemetry is.
TickEnds == /\ rxPc = "rest" /\ rxPc' = "poll"
            /\ UNCHANGED <<portVars, ringVars, scan, reading, arrived, fed, dropped>>

RxCpu == \/ TestTxReturns \/ LoopbackTest
         \/ Poll \/ ScanSkip \/ ScanFeed \/ ScanClear \/ PollDone
         \/ TickArp \/ TickTake \/ TickEnds

RxNext == Chip \/ RxCpu

RxSpec == RxInit /\ [][RxNext]_rxVars

RxFairSpec == RxSpec /\ WF_rxVars(RxCpu)
-----------------------------------------------------------------------------
Frames == Packets \cup {NoFrame, LoopFrame}

RxTypeOK == /\ pending \in BOOLEAN
            /\ frame \in Frames
            /\ rdh \in RxDesc /\ rdt \in RxDesc
            /\ rxDd \in [RxDesc -> BOOLEAN]
            /\ pool \in [RxDesc -> Frames]
            /\ rxPc \in {"testtx", "loopback", "poll", "scan", "arp", "take", "rest"}
            /\ scan \in 0..RxRing
            /\ reading \in BOOLEAN
            /\ arrived \in 0..MaxPackets
            /\ fed \subseteq Packets \cup {LoopFrame}
            /\ dropped \subseteq Packets

InRing == {pool[i] : i \in {j \in RxDesc : rxDd[j]}}

NotFedYet == {pool[i] : i \in {j \in RxDesc : rxDd[j] /\ ~(reading /\ j = scan)}}

(* Each frame is handed over exactly once.  One whose status is still       *)
(* raised, the one being read excepted, has not been fed.  The software     *)
(* loopback shares descriptor 0 with the chip and can destroy the frame the *)
(* chip put there: at most one frame, the first of all, is ever lost inside *)
(* the driver, and none after the boot.                                     *)
EachFrameOnce == /\ NotFedYet \cap fed = {}
                 /\ (1..arrived) \ (fed \cup dropped \cup InRing) \subseteq {1}

(* e1000.rs:500 "Re-arm descriptor for next packet": once poll_rx has given *)
(* a descriptor back the chip can receive in it, so it is never without     *)
(* room for good.                                                           *)
KeepsReceiving == []<>(rdh # rdt)
=============================================================================
