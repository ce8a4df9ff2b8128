------------------------------- MODULE Senses -------------------------------
(***************************************************************************)
(* What reaches the body through bytes and faults, and what it says of     *)
(* itself: the contact of the hand (keyboard and touchpad), the packets of *)
(* the touchpad, the channel of pain, the command line; and, where nothing *)
(* happens over time, the numbers written and read, the frames that carry  *)
(* them and the registry of the senses.                                    *)
(*                                                                         *)
(* They share no variable: a packet of the touchpad is one flag for        *)
(* Contact, a command is one choice for PainChannel.  An interleaving of   *)
(* two of them is two behaviours side by side, and `followed` says whose is *)
(* explored; the others rest.                                              *)
(***************************************************************************)
EXTENDS Contact, Ps2Mouse, PainChannel, SerialLine, Text, Frames, Registro

VARIABLE followed

still == <<text, letter, self>>
sensesVars == <<touchVars, padVars, painVars, lineVars, still, followed>>

Init ==
  /\ followed \in {"contact", "packets", "pain", "serial", "text", "frames", "registry"}
  /\ TouchInit /\ PadInit /\ PainInit /\ LineInit
  /\ IF followed = "text" THEN TextInit ELSE text = CHOOSE t \in Texts : TRUE
  /\ IF followed = "frames" THEN FramesInit ELSE letter = CHOOSE l \in Letters : TRUE
  /\ IF followed = "registry" THEN RegistroInit ELSE self = CHOOSE b \in Bodies : TRUE

Resting(others) == UNCHANGED <<others, still, followed>>

FollowTouch == /\ followed = "contact"
               /\ Resting(<<padVars, painVars, lineVars>>)

FollowPad == /\ followed = "packets"
             /\ Resting(<<touchVars, painVars, lineVars>>)

FollowPain == /\ followed = "pain"
              /\ Resting(<<touchVars, padVars, lineVars>>)

FollowLine == /\ followed = "serial"
              /\ Resting(<<touchVars, padVars, painVars>>)

Next == \/ TouchNext /\ FollowTouch
        \/ PadNext /\ FollowPad
        \/ PainNext /\ FollowPain
        \/ LineNext /\ FollowLine

\* The fairness of each part, as in its own specification.
Fairness == /\ WF_sensesVars(TouchTick /\ FollowTouch)
            /\ WF_sensesVars(PainTick /\ FollowPain)
            /\ WF_sensesVars(Handler /\ FollowPain)
            /\ WF_sensesVars(Loop /\ FollowLine)
            /\ WF_sensesVars(TickDue /\ FollowLine)
            /\ WF_sensesVars(SendByte /\ FollowLine)

Spec == Init /\ [][Next]_sensesVars /\ Fairness

(* Types and ranges: no queue, group, line or count passes its bound.      *)
TypeOK == TouchTypeOK /\ PadTypeOK /\ PainTypeOK /\ LineTypeOK

(* A number written comes back as it was, and an argument is understood    *)
(* only if it is one (TextComesBack), for every number that is tried.      *)
NumbersComeBack == followed = "text" => TextComesBack

(* The frames carry the telemetry whole, and an answer asks nothing        *)
(* (FramesTell), for every frame that is tried.                            *)
FramesAreTrue == followed = "frames" => FramesTell

(* The urgent senses are served first and every fault is told              *)
(* (ServedInOrder), for every body that is tried.                          *)
SensesAreServed == followed = "registry" => ServedInOrder
=============================================================================
