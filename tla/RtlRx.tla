------------------------------- MODULE RtlRx --------------------------------
(***************************************************************************)
(* Reception on the Realtek RTL810xE (src/rtl.rs rx_init and poll_rx) and  *)
(* the part of the main loop that feeds on it (src/main.rs): the loop      *)
(* polls the ring on every turn and, on the turns in which the tick has    *)
(* advanced, runs the ARP responder and then takes the pending frame.      *)
(*                                                                         *)
(* The chip runs concurrently.  It fills the descriptor under its cursor   *)
(* when that one is armed, and the CPU scans the ring in index order; an   *)
(* ownership bit in each descriptor is all that separates them.            *)
(***************************************************************************)
EXTENDS RxPort

CONSTANTS N,             \* RX_DESC
          MaxPackets,    \* bound: frames that arrive in a behaviour
          Empties        \* the frames the chip reports with length 0

ASSUME RtlRxAssumption == /\ N \in Nat \ {0}
                          /\ MaxPackets \in Nat
                          /\ Requests \subseteq 1..MaxPackets
                          /\ Empties \subseteq 1..MaxPackets

Desc    == 0..N-1
Packets == 1..MaxPackets

VARIABLES opts1,     \* first word of each descriptor
          buf,       \* RX_BUFS: the frame in each buffer
          cursor,    \* chip: the descriptor it will fill next
          rxOn,      \* CHIP_CMD bit 0x08 (CmdRxEnb)
          overflow,  \* INTR_STATUS bits 0x10 | 0x40
          pc,        \* where the CPU is in the loop
          scan,      \* the loop index of poll_rx
          arrived,   \* frames 1..arrived have been on the wire
          fed,       \* history: frames handed to rx::feed
          dropped,   \* history: frames lost on the wire or reported empty
          taken,     \* history: frames rx::take returned
          answered   \* history: how often each ARP request was answered

ringVars == <<opts1, buf, cursor, rxOn, overflow>>
histVars == <<fed, dropped, taken, answered>>
vars == <<portVars, ringVars, pc, scan, arrived, histVars>>
-----------------------------------------------------------------------------
\* rx::desc_opts1: DescOwn, RingEnd on the last one, and the buffer size.
DescOpts1(i) == [own |-> TRUE, ringEnd |-> i + 1 = N, sized |-> TRUE]

\* rx_init, verified (RX_INIT_OK); the loop is about to poll.
Init == /\ PortInit
        /\ opts1 = [i \in Desc |-> DescOpts1(i)]
        /\ buf = [i \in Desc |-> NoFrame]
        /\ cursor = 0
        /\ rxOn = TRUE
        /\ overflow = FALSE
        /\ pc = "poll"
        /\ scan = 0
        /\ arrived = 0
        /\ fed = {} /\ dropped = {} /\ taken = {}
        /\ answered = [p \in Packets |-> 0]
-----------------------------------------------------------------------------
(* The chip (external). *)

ChipCanReceive == rxOn /\ opts1[cursor].own /\ opts1[cursor].sized

\* The frame goes in the buffer, then the ownership returns to the CPU.
ChipReceive ==
  /\ arrived < MaxPackets
  /\ ChipCanReceive
  /\ arrived' = arrived + 1
  /\ buf' = [buf EXCEPT ![cursor] = arrived + 1]
  /\ opts1' = [opts1 EXCEPT ![cursor].own = FALSE]
  /\ cursor' = IF opts1[cursor].ringEnd THEN 0 ELSE cursor + 1
  /\ UNCHANGED <<portVars, rxOn, overflow, pc, scan, histVars>>

\* No armed descriptor: the chip raises the overflow bit and stops.
ChipOverflow ==
  /\ arrived < MaxPackets
  /\ rxOn
  /\ ~opts1[cursor].own
  /\ arrived' = arrived + 1
  /\ dropped' = dropped \cup {arrived + 1}
  /\ overflow' = TRUE
  /\ rxOn' = FALSE
  /\ UNCHANGED <<portVars, opts1, buf, cursor, pc, scan, fed, taken, answered>>

\* A frame on the wire while the receiver is stopped.
ChipMiss ==
  /\ arrived < MaxPackets
  /\ ~rxOn
  /\ arrived' = arrived + 1
  /\ dropped' = dropped \cup {arrived + 1}
  /\ UNCHANGED <<portVars, ringVars, pc, scan, fed, taken, answered>>

Chip == ChipReceive \/ ChipOverflow \/ ChipMiss
-----------------------------------------------------------------------------
(* poll_rx. *)

\* Slips: the overflow is acknowledged but the receiver is not enabled again;
\* the scan starts one descriptor too late.
PollStatus_AckOnly ==
  /\ pc = "poll" /\ pc' = "scan" /\ scan' = 0 /\ overflow' = FALSE
  /\ UNCHANGED <<portVars, opts1, buf, cursor, rxOn, arrived, histVars>>

PollStatus_FromOne ==
  /\ pc = "poll" /\ pc' = "scan" /\ scan' = 1 /\ overflow' = FALSE
  /\ rxOn' = (rxOn \/ overflow)
  /\ UNCHANGED <<portVars, opts1, buf, cursor, arrived, histVars>>

\* An overflow is acknowledged and the receiver woken up.
PollStatus ==
  /\ pc = "poll"
  /\ pc' = "scan"
  /\ scan' = 0
  /\ overflow' = FALSE
  /\ rxOn' = (rxOn \/ overflow)
  /\ UNCHANGED <<portVars, opts1, buf, cursor, arrived, histVars>>

AtDesc == pc = "scan" /\ scan \in Desc

\* Still in the hands of the chip.
ScanSkip ==
  /\ AtDesc
  /\ opts1[scan].own
  /\ scan' = scan + 1
  /\ UNCHANGED <<portVars, ringVars, pc, arrived, histVars>>

\* Slips: the re-arm forgets the size of the buffer (the defect rx.rs tells
\* of), forgets the end of the ring, or is left out.
Rearm_NoSize(i)    == opts1' = [opts1 EXCEPT ![i].own = TRUE, ![i].sized = FALSE]
Rearm_NoRingEnd(i) == opts1' = [opts1 EXCEPT ![i].own = TRUE, ![i].ringEnd = FALSE]
Rearm_Skipped(i)   == UNCHANGED opts1

Rearm(i) == opts1' = [opts1 EXCEPT ![i] = DescOpts1(i)]

\* A frame is fed to the port and its descriptor armed again.
ScanFeed ==
  /\ AtDesc
  /\ ~opts1[scan].own
  /\ buf[scan] \notin Empties
  /\ Feed(buf[scan])
  /\ fed' = fed \cup {buf[scan]}
  /\ Rearm(scan)
  /\ scan' = scan + 1
  /\ UNCHANGED <<buf, cursor, rxOn, overflow, pc, arrived, dropped, taken, answered>>

\* Length 0: rx::err, and the descriptor is armed again all the same.
ScanErr ==
  /\ AtDesc
  /\ ~opts1[scan].own
  /\ buf[scan] \in Empties
  /\ dropped' = dropped \cup {buf[scan]}
  /\ Rearm(scan)
  /\ scan' = scan + 1
  /\ UNCHANGED <<portVars, buf, cursor, rxOn, overflow, pc, arrived, fed, taken, answered>>

\* Slip: the whole ring is re-armed at the end instead of what was consumed.
PollDone_RearmAll ==
  /\ pc = "scan" /\ scan = N
  /\ pc' \in {"poll", "arp"}
  /\ opts1' = [i \in Desc |-> DescOpts1(i)]
  /\ UNCHANGED <<portVars, buf, cursor, rxOn, overflow, scan, arrived, histVars>>

\* poll_rx returns; unless cfc::tick_advanced() the loop only polls again.
PollDone ==
  /\ pc = "scan"
  /\ scan = N
  /\ pc' \in {"poll", "arp"}
  /\ UNCHANGED <<portVars, ringVars, scan, arrived, histVars>>
-----------------------------------------------------------------------------
(* The tick. *)

\* The ARP responder peeks at the port and sends the reply.
TickArp ==
  /\ pc = "arp"
  /\ pc' = "take"
  /\ answered' = [p \in Packets |->
                    IF p \in ArpRequester THEN answered[p] + 1 ELSE answered[p]]
  /\ UNCHANGED <<portVars, ringVars, scan, arrived, fed, dropped, taken>>

\* rx::take overrides chemio_input with the frame, if there is one.
TickTake ==
  /\ pc = "take"
  /\ pc' = "poll"
  /\ IF pending THEN Take /\ taken' = taken \cup {frame}
                ELSE UNCHANGED <<portVars, taken>>
  /\ UNCHANGED <<ringVars, scan, arrived, fed, dropped, answered>>

Cpu == \/ PollStatus \/ ScanSkip \/ ScanFeed \/ ScanErr \/ PollDone
       \/ TickArp \/ TickTake

Next == Chip \/ Cpu

Spec == Init /\ [][Next]_vars

\* The loop never stops turning; the wire owes us nothing.
FairSpec == Spec /\ WF_vars(Cpu)
-----------------------------------------------------------------------------
TypeOK ==
  /\ pending \in BOOLEAN
  /\ frame \in Packets \cup {NoFrame}
  /\ opts1 \in [Desc -> [own : BOOLEAN, ringEnd : BOOLEAN, sized : BOOLEAN]]
  /\ buf \in [Desc -> Packets \cup {NoFrame}]
  /\ cursor \in Desc
  /\ rxOn \in BOOLEAN
  /\ overflow \in BOOLEAN
  /\ pc \in {"poll", "scan", "arp", "take"}
  /\ scan \in 0..N
  /\ arrived \in 0..MaxPackets
  /\ fed \subseteq Packets
  /\ dropped \subseteq Packets
  /\ taken \subseteq Packets
  /\ answered \in [Packets -> Nat]

\* The frames the chip has handed over and the scan has not reached.
InRing == {buf[i] : i \in {j \in Desc : ~opts1[j].own}}

(* Every descriptor says what desc_opts1 says, whoever owns it: the chip   *)
(* always finds the end of the ring and the size of the buffer.            *)
RingWellFormed ==
  \A i \in Desc : opts1[i].sized /\ (opts1[i].ringEnd <=> i + 1 = N)

(* A frame occupies one descriptor, and once it has been fed to the port   *)
(* it is in none: no stimulus is felt twice (poll_rx re-arms what it took). *)
NoReplay ==
  /\ \A i, j \in Desc :
        i # j /\ ~opts1[i].own /\ ~opts1[j].own => buf[i] # buf[j]
  /\ InRing \cap (fed \cup dropped) = {}

(* No frame vanishes inside the driver: each one that was on the wire was  *)
(* fed, or lost to an overflow, or is waiting in a descriptor of the CPU.  *)
Accounted == 1..arrived = fed \cup dropped \cup InRing

(* A stopped receiver is one whose overflow bit is still raised, so that   *)
(* the next poll_rx will see it and wake it up.                            *)
StoppedIsVisible == ~rxOn => overflow

(* An ARP request is answered at most once although the responder does not *)
(* consume it: the take of the same tick always follows the peek.          *)
AnsweredOnce == \A p \in Packets : answered[p] <= 1

(* Liveness: the port never falls silent for good -- whatever overflowed,  *)
(* the chip finds an armed descriptor and an enabled receiver again.       *)
NeverSilent == []<>ChipCanReceive

(* Liveness: a frame the chip stored is fed or reported, however the chip  *)
(* fills the ring behind and ahead of the scan.                            *)
EveryFrameLeaves == \A p \in Packets : (p \in InRing) ~> (p \in fed \cup dropped)
-----------------------------------------------------------------------------
\* The ring and the port together implement the mailbox.
Box == INSTANCE Mailbox WITH posted <- fed,
                             inbox <- IF pending THEN frame ELSE 0,
                             replies <- answered
ImplementsMailbox == Box!MailSpec
=============================================================================
