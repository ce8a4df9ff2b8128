------------------------------- MODULE RxPort -------------------------------
(***************************************************************************)
(* The network entrance shared by the two NIC drivers (src/rx.rs): one     *)
(* static slot that a driver fills with `feed`, that the ARP responder     *)
(* peeks at with `arp_requester`, and that the tick empties with `take`.   *)
(*                                                                         *)
(* A frame is a number: its order of arrival on the wire.  LEN, LAST_LEN,  *)
(* LAST_SIG and the copied bytes are functions of the frame last fed (the  *)
(* drivers hand over Ethernet frames of at least 60 bytes, so every byte   *)
(* the readers look at under their `idx < len` tests is the frame's own);  *)
(* PKTS and ERRS are telemetry counters and are left out.                  *)
(***************************************************************************)
EXTENDS Integers

CONSTANT Requests        \* the frames that are ARP requests for SRC_IP

NoFrame == 0             \* DATA before the first `feed` (all zero bytes)

VARIABLES pending,       \* PENDING
          frame          \* DATA and LEN: the frame last fed

portVars == <<pending, frame>>

PortInit == /\ pending = FALSE
            /\ frame = NoFrame

\* rx::feed: the frame replaces whatever is in the slot.
Feed(p) == /\ pending' = TRUE
           /\ frame' = p

\* rx::arp_requester: the frame to answer, if any; the slot is not consumed.
ArpRequester == IF pending /\ frame \in Requests THEN {frame} ELSE {}

\* Slip: the frame is read but stays pending.
Take_Peek == pending /\ UNCHANGED portVars

\* rx::take: DATA keeps its bytes, only PENDING falls.
Take == /\ pending
        /\ pending' = FALSE
        /\ UNCHANGED frame
=============================================================================
