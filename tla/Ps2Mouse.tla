------------------------------ MODULE Ps2Mouse ------------------------------
(***************************************************************************)
(* The touchpad's protocol (src/ps2.rs, src/touchpad.rs feed): the device  *)
(* sends three bytes per gesture, the line may lose bytes (the 8042 keeps  *)
(* one and the loop may be away for longer than the device waits), and     *)
(* Assemblatore::byte puts the packets together again.                     *)
(***************************************************************************)
EXTENDS Integers, Sequences, SequencesExt

CONSTANTS Gestures,      \* records [dx, dy, bottoni] the hand may make
          MaxGestures,   \* bound: gestures in a behaviour
          MaxLost        \* bound: bytes lost in a behaviour

ASSUME Ps2Assumption ==
  /\ Gestures \subseteq [dx : -255..255, dy : -255..255, bottoni : 0..7]
  /\ MaxGestures \in Nat /\ MaxLost \in Nat

VARIABLES made,          \* history: the gestures made, in order
          line,          \* bytes on their way to touchpad::feed
          padBuf,        \* Assemblatore: buf[0..n)
          got,           \* history: the packets feed returned, in order
          lost           \* bytes lost so far

padVars == <<made, line, padBuf, got, lost>>

Bit(b, mask) == (b \div mask) % 2 = 1

\* The device (external): bit 3 is always one, signs in bits 4 and 5.
Encode(g) == << 8 + g.bottoni + (IF g.dx < 0 THEN 16 ELSE 0)
                              + (IF g.dy < 0 THEN 32 ELSE 0),
                g.dx % 256, g.dy % 256 >>

\* Slip: the two sign bits are exchanged.
Decodifica_SignsSwapped(b) ==
  [dx |-> IF Bit(b[1], 32) THEN b[2] - 256 ELSE b[2],
   dy |-> IF Bit(b[1], 16) THEN b[3] - 256 ELSE b[3],
   bottoni |-> b[1] % 8]

\* ps2::decodifica; the overflow flag is not read by anyone.
Decodifica(b) == [dx |-> IF Bit(b[1], 16) THEN b[2] - 256 ELSE b[2],
                  dy |-> IF Bit(b[1], 32) THEN b[3] - 256 ELSE b[3],
                  bottoni |-> b[1] % 8]
-----------------------------------------------------------------------------
PadInit == made = <<>> /\ line = <<>> /\ padBuf = <<>> /\ got = <<>> /\ lost = 0

MakeGesture == /\ Len(made) < MaxGestures
               /\ \E g \in Gestures : /\ made' = Append(made, g)
                                      /\ line' = line \o Encode(g)
               /\ UNCHANGED <<padBuf, got, lost>>

LoseByte == /\ lost < MaxLost
            /\ \E i \in DOMAIN line : line' = RemoveAt(line, i)
            /\ lost' = lost + 1
            /\ UNCHANGED <<made, padBuf, got>>

\* Slip: a rejected group leaves its last byte behind.
Rest_AfterReject(group) == IF Bit(group[1], 8) THEN <<>> ELSE <<group[3]>>

\* n = 0 whether the group is a packet or out of phase.
Rest(group) == <<>>

ByteCompletes == Len(padBuf) + 1 = 3

\* Assemblatore::byte, called by touchpad::feed on each AUX byte.
Byte == /\ line # <<>>
        /\ line' = Tail(line)
        /\ LET group == Append(padBuf, Head(line))
           IN IF ByteCompletes
                THEN /\ padBuf' = Rest(group)
                     /\ got' = IF Bit(group[1], 8)
                                 THEN Append(got, Decodifica(group))
                                 ELSE got                  \* out of phase
                ELSE padBuf' = group /\ UNCHANGED got
        /\ UNCHANGED <<made, lost>>

PadNext == MakeGesture \/ LoseByte \/ Byte

PadSpec == PadInit /\ [][PadNext]_padVars
-----------------------------------------------------------------------------
PadTypeOK == /\ made \in Seq(Gestures) /\ Len(made) <= MaxGestures
             /\ line \in Seq(0..255)
             /\ padBuf \in Seq(0..255) /\ Len(padBuf) < 3
             /\ got \in Seq([dx : -256..255, dy : -256..255, bottoni : 0..7])
             /\ lost \in 0..MaxLost

(* As long as no byte is lost, the gestures come out as they were made:    *)
(* in order, each once, with the signs on the right axis, none missing     *)
(* when the line is empty.  And the phase depends only on how many bytes   *)
(* went by, not on what they say: the assembler is in phase again exactly  *)
(* when the bytes lost are a multiple of three, and a rejected group does  *)
(* not move it.                                                            *)
GesturesComeOut ==
  /\ lost = 0 => IsPrefix(got, made) /\ (line = <<>> => got = made)
  /\ Len(padBuf) = (3 * Len(made) - lost - Len(line)) % 3
=============================================================================
