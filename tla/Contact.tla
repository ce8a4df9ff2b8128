------------------------------ MODULE Contact -------------------------------
(***************************************************************************)
(* The hand of the human: keyboard and touchpad share the data port of the *)
(* 8042 (src/kbd.rs, src/ps2.rs destinazione), the main loop drains it at  *)
(* the start of each tick (src/main.rs), and what it leaves in KEY_HELD    *)
(* and TOUCHPAD_ATTIVO (src/cfc.rs) is what the tissue feels on Tatto[2]   *)
(* and Tatto[3] in that tick.                                              *)
(*                                                                         *)
(* An element of the queue is a scancode, or a whole mouse packet (its     *)
(* three bytes are the subject of Ps2Mouse) reduced to the flag computed   *)
(* from it: a button is down, or there was movement.                       *)
(***************************************************************************)
EXTENDS Naturals, Sequences

CONSTANTS Keys,          \* the keys of the keyboard
          LShift,        \* the left shift: its release code is 0xAA
          NoKey,         \* KEY_HELD = 0
          QueueCap,      \* bound: bytes waiting in the 8042 and the devices
          MaxEvents      \* bound: movements of the hand in a behaviour

ASSUME ContactAssumption == /\ NoKey \notin Keys
                            /\ QueueCap \in Nat \ {0}
                            /\ MaxEvents \in Nat

VARIABLES down,          \* the keys under the fingers
          padMoving, padButton,   \* the finger on the touchpad
          queue,         \* bytes waiting at port 0x60
          held,          \* KEY_HELD
          attivo,        \* TOUCHPAD_ATTIVO
          touchPc,       \* the tick: draining, or about to step the tissue
          tatto2, tatto3,         \* what the tissue felt at the last step
          events,        \* movements of the hand so far
          chord,         \* history: two keys were down since all were up
          pressed        \* history: the keys ever pressed

handVars == <<down, padMoving, padButton, events, chord, pressed>>
bodyVars == <<held, attivo, touchPc, tatto2, tatto3>>
touchVars == <<handVars, bodyVars, queue>>

Scan(k, up)  == [port |-> "kbd", key |-> k, up |-> up]
Packet(flag) == [port |-> "aux", flag |-> flag]

TouchInit == /\ down = {} /\ padMoving = FALSE /\ padButton = FALSE
             /\ queue = <<>>
             /\ held = NoKey /\ attivo = FALSE
             /\ touchPc = "drain" /\ tatto2 = FALSE /\ tatto3 = FALSE
             /\ events = 0 /\ chord = FALSE /\ pressed = {}
-----------------------------------------------------------------------------
(* The hand and the devices (external). *)

Emit(b) == /\ Len(queue) < QueueCap /\ events < MaxEvents
           /\ events' = events + 1
           /\ queue' = Append(queue, b)
           /\ UNCHANGED bodyVars

Press(k) == /\ k \notin down
            /\ Emit(Scan(k, FALSE))
            /\ down' = down \cup {k}
            /\ chord' = (chord \/ down # {})
            /\ pressed' = pressed \cup {k}
            /\ UNCHANGED <<padMoving, padButton>>

\* A key held down repeats its code.
Typematic(k) == /\ k \in down
                /\ Emit(Scan(k, FALSE))
                /\ UNCHANGED <<down, padMoving, padButton, chord, pressed>>

Release(k) == /\ k \in down
              /\ Emit(Scan(k, TRUE))
              /\ down' = down \ {k}
              /\ chord' = (chord /\ down # {k})
              /\ UNCHANGED <<padMoving, padButton, pressed>>

PadMove == /\ Emit(Packet(TRUE))
           /\ padMoving' = TRUE
           /\ UNCHANGED <<down, padButton, chord, pressed>>

\* In stream mode (command 0xF4) a finger that stops sends nothing.
PadStop == /\ padMoving /\ padMoving' = FALSE
           /\ UNCHANGED <<bodyVars, queue, down, padButton, events, chord, pressed>>

PadButton == /\ ~padMoving
             /\ Emit(Packet(~padButton))
             /\ padButton' = ~padButton
             /\ UNCHANGED <<down, padMoving, chord, pressed>>

Hand == \/ \E k \in Keys : Press(k) \/ Typematic(k) \/ Release(k)
        \/ PadMove \/ PadStop \/ PadButton
-----------------------------------------------------------------------------
\* Slip: the AUX bit of the status is not looked at.
Destinazione_Blind(b) == "kbd"

\* ps2::destinazione: whose byte is at the port.
Destinazione(b) == b.port

SenseTouchpad(flag) == attivo' = flag

\* touchpad::feed completes a packet: cfc::sense_touchpad.
DrainAux == /\ touchPc = "drain" /\ queue # <<>>
            /\ Destinazione(Head(queue)) = "aux"
            /\ SenseTouchpad(Head(queue).flag)
            /\ queue' = Tail(queue)
            /\ UNCHANGED <<handVars, held, touchPc, tatto2, tatto3>>

\* A byte taken for a scancode: what the tests on it make of a mouse byte.
Code(b) == IF b.port = "kbd" THEN b ELSE Scan(CHOOSE k \in Keys : TRUE, FALSE)

\* 0xFA, 0xAA and 0xE0 are skipped; 0xAA is also the release of the left shift.
Filtered(b) == b.up /\ b.key = LShift

\* Slip: the release is ignored.
ContactOf_NoRelease(b) == IF b.up THEN held ELSE b.key

\* cfc::key_press and cfc::key_release: any release ends the contact.
ContactOf(b) == IF b.up THEN NoKey ELSE b.key

DrainKey == /\ touchPc = "drain" /\ queue # <<>>
            /\ Destinazione(Head(queue)) = "kbd"
            /\ LET b == Code(Head(queue))
               IN held' = IF Filtered(b) THEN held ELSE ContactOf(b)
            /\ queue' = Tail(queue)
            /\ UNCHANGED <<handVars, attivo, touchPc, tatto2, tatto3>>

\* The port is empty: the tick goes on to the tissue.
PortEmpty == /\ touchPc = "drain" /\ queue = <<>>
             /\ touchPc' = "step"
             /\ UNCHANGED <<handVars, queue, held, attivo, tatto2, tatto3>>

\* Tessuto::step reads the contact.
TouchStep == /\ touchPc = "step" /\ touchPc' = "drain"
             /\ tatto2' = (held # NoKey) /\ tatto3' = attivo
             /\ UNCHANGED <<handVars, queue, held, attivo>>

TouchTick == DrainAux \/ DrainKey \/ PortEmpty \/ TouchStep

TouchNext == Hand \/ TouchTick

\* The ticks go on; the hand owes nothing.
TouchSpec == TouchInit /\ [][TouchNext]_touchVars /\ WF_touchVars(TouchTick)
-----------------------------------------------------------------------------
TouchTypeOK == /\ down \subseteq Keys /\ pressed \subseteq Keys
               /\ padMoving \in BOOLEAN /\ padButton \in BOOLEAN
               /\ chord \in BOOLEAN
               /\ events \in 0..MaxEvents
               /\ queue \in Seq([port : {"kbd"}, key : Keys, up : BOOLEAN]
                                  \cup [port : {"aux"}, flag : BOOLEAN])
               /\ Len(queue) <= QueueCap
               /\ held \in Keys \cup {NoKey}
               /\ attivo \in BOOLEAN /\ tatto2 \in BOOLEAN /\ tatto3 \in BOOLEAN
               /\ touchPc \in {"drain", "step"}

Seen == touchPc = "step" /\ queue = <<>> \* the tick has seen all the hand did

(* One finger on one key, the left shift apart: the tissue is touched      *)
(* exactly as long as the key is down, however often the code repeats and  *)
(* whatever the touchpad sends; and the touchpad's traffic alone is never  *)
(* a contact on the keyboard (the defect of 14/10 recorded in              *)
(* bench/touchpad_host.rs:78).                                             *)
HonestForOneKey ==
  /\ Seen /\ ~chord /\ LShift \notin pressed => (held # NoKey <=> down # {})
  /\ pressed = {} => held = NoKey
=============================================================================
