------------------------------- MODULE Frames -------------------------------
(***************************************************************************)
(* What the body sends (src/net.rs, src/e1000.rs tx_broadcast_state): the  *)
(* telemetry as a UDP frame, the older one as a raw frame, and the answer  *)
(* to an ARP request.  Text is its length; a value is as wide as its kind  *)
(* allows.  Headers are bytes.                                             *)
(***************************************************************************)
EXTENDS Integers, Sequences

CONSTANTS FloatWidth,    \* how wide the decimals of the tissue are written
          BufferLens,    \* how long the buffer is handed over
          Askers,        \* addresses on the wire
          Us             \* ours

\* The tissue's values are below 100000: 11 characters with sign and decimals.
ASSUME FramesAssumption == FloatWidth \in 6..11 /\ BufferLens \subseteq Nat

VARIABLE letter          \* what is to be sent: [room, wide, asks]

HdrLen == 14 + 20 + 8
MinFrame == 60
MaxFrame == 1518

Letters == [room : BufferLens, wide : BOOLEAN,
            asks : [len : {41, 42}, etype : {"arp", "ipv4"}, oper : {1, 2},
                    sender : Askers, target : Askers \cup {Us}]]

FramesInit == letter \in Letters
-----------------------------------------------------------------------------
\* Widths of the kinds of numbers, at their widest and at their narrowest.
U64(w) == IF w THEN 20 ELSE 1
U32(w) == IF w THEN 10 ELSE 1
U16(w) == IF w THEN 5 ELSE 1
U8(w) == IF w THEN 3 ELSE 1
F32(w) == IF w THEN FloatWidth ELSE 6

(* build_payload: each key with its punctuation, and its values with their *)
(* commas.  sen has the 21 values of StatoSensi.                           *)
Payload(w) ==
  LET cell == 2 + 15 + 16 * F32(w)
      sen  == 5 * U32(w) + 8 * F32(w) + 3 * U8(w) + 2 * U16(w) + 3 + 20
  IN 5 + U64(w)                               \* t
     + 6 + (IF w THEN 6 ELSE 4)               \* k
     + 7 + 4 * cell + 3                       \* c
     + 7 + U8(w) + 1 + F32(w)                 \* w
     + 6 + 5 + 5 + 3 * F32(w)                 \* u, p, n
     + 6 + 2 * U32(w) + 1                     \* l
     + 7 + 8 * U32(w) + 7                     \* r
     + 9 + 8 + 6 + U32(w)                     \* sig, v
     + 7 + U32(w) + 1 + 2                     \* kb
     + 8 + 3 * U8(w) + 3                      \* ps2
     + 9 + 5 * U32(w) + 5                     \* acpi
     + 7 + 3 * U32(w) + 3                     \* ec
     + 8 + 4 * U8(w) + 4                      \* kbd
     + 8 + sen + 1 + 1                        \* sen

\* Every character is written only if there is room: the text is cut.
BuildPayload(room, w) == IF Payload(w) <= room THEN Payload(w) ELSE room

(* The frame is filled up to the least of Ethernet without asking whether  *)
(* the buffer reaches so far: the index check panics.                      *)
Framed(room, n) ==
  [end |-> IF HdrLen + n < MinFrame /\ room < MinFrame THEN "panic" ELSE "frame",
   len |-> IF HdrLen + n < MinFrame THEN MinFrame ELSE HdrLen + n, udp |-> n]

Unframed == [end |-> "none", len |-> 0, udp |-> 0]

\* Slip: the headers' room is not taken from the payload's.
BuildStateFrame_Whole(room, w) ==
  IF room < HdrLen + 2 THEN Unframed ELSE Framed(room, BuildPayload(room, w))

\* build_state_frame: how it ends, the length of the frame and of what it carries.
BuildStateFrame(room, w) ==
  IF room < HdrLen + 2 THEN Unframed ELSE Framed(room, BuildPayload(room - HdrLen, w))

\* The bytes of the IPv4 header, its checksum zero.
IpHeader(payload) ==
  LET total == 20 + 8 + payload IN
  <<69, 0, total \div 256, total % 256, 0, 0, 64, 0, 64, 17, 0, 0,
    192, 168, 0, 200, 192, 168, 0, 255>>

\* ipv4_checksum: the words added, the carries folded back, complemented.
WordsOf(h) == 256 * (h[1] + h[3] + h[5] + h[7] + h[9] + h[11] + h[13] + h[15] + h[17] + h[19])
              + h[2] + h[4] + h[6] + h[8] + h[10] + h[12] + h[14] + h[16] + h[18] + h[20]
Fold(n) == (n % 65536) + (n \div 65536)
Ipv4Checksum(h) == 65535 - Fold(Fold(WordsOf(h)))

(* tx_broadcast_state: eight cells of each layer, written without asking   *)
(* for room but by the writers of numbers.                                 *)
BroadcastLen(w) ==
  14 + 5 + U32(w) + 6 + 4 * (2 + 7 + 8 * F32(w)) + 3 + 1
  + 6 + U8(w) + 1 + F32(w) + 1 + 3 * (5 + F32(w)) + 1
-----------------------------------------------------------------------------
\* arp_request_for: whoever asks for us in a frame that is long enough.
ArpRequestFor(d, ourIp) == d.len >= 42 /\ d.etype = "arp" /\ d.oper = 1 /\ d.target = ourIp

\* Slip: the operation of the question is left in the answer.
BuildArpReply_Asks(ourIp, peer) ==
  [len |-> 42, etype |-> "arp", oper |-> 1, sender |-> ourIp, target |-> peer, dst |-> peer]

BuildArpReply(ourIp, peer) ==
  [len |-> 42, etype |-> "arp", oper |-> 2, sender |-> ourIp, target |-> peer, dst |-> peer]
-----------------------------------------------------------------------------
(* Whatever the length of the buffer, a frame of telemetry that is built   *)
(* stays in it, is as long as it says and passes the receiver's sum; its   *)
(* text is whole if the buffer holds it, as that of the loop does; and     *)
(* none is built only of a buffer shorter than the least frame, the build  *)
(* halting on those between.  The answer to whoever asks goes to them and  *)
(* is no question, so that two bodies on one wire do not answer each other *)
(* for ever.                                                               *)
FramesTell ==
  LET f == BuildStateFrame(letter.room, letter.wide)
      h == IpHeader(f.udp)
      c == Ipv4Checksum(h)
      a == BuildArpReply(Us, letter.asks.sender)
  IN /\ f.end = "frame" => /\ MinFrame <= f.len /\ f.len <= letter.room
                            /\ f.len > MinFrame => f.len = HdrLen + f.udp
     /\ letter.room >= HdrLen + Payload(letter.wide) => f.end = "frame" /\ f.udp = Payload(letter.wide)
     /\ MaxFrame >= HdrLen + Payload(letter.wide)
     /\ f.end # "frame" <=> letter.room < MinFrame
     /\ f.end = "none" <=> letter.room < HdrLen + 2
     /\ Fold(Fold(WordsOf(h) + c)) = 65535
     /\ BroadcastLen(letter.wide) <= MaxFrame
     /\ ArpRequestFor(letter.asks, Us) =>
          /\ a.dst = letter.asks.sender /\ a.sender = Us
          /\ \A ip \in Askers \cup {Us} : ~ArpRequestFor(a, ip)
=============================================================================
