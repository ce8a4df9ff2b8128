---------------------------- MODULE SensesProofs ----------------------------
(***************************************************************************)
(* The safety of what reaches the body through bytes and faults, for every *)
(* keyboard, gesture, address and line, every capacity and any number of   *)
(* events.                                                                 *)
(*                                                                         *)
(* Each part has an inductive invariant of its own, named after it and     *)
(* proved about the part's next-state relation; Senses moves one part at a *)
(* time, so the conjunction of them is inductive for Spec.  What has been  *)
(* computed when a part begins (a registry filled and put in order, a      *)
(* number written and read) is proved of every input by the lemmas of      *)
(* Induction.                                                              *)
(***************************************************************************)
EXTENDS Senses, Induction, TLAPS, SequenceTheorems, FiniteSetTheorems

-----------------------------------------------------------------------------
(* PainChannel.  What is still to be felt of the last command is counted   *)
(* by what is left of the instrument, the step under way apart; an event   *)
(* is in the channel exactly when one was injected since it was emptied.   *)
Owed == IF dolore.tick > 0 THEN dolore.tick - 1 ELSE 0
UnderWay == IF painPc \in {"command", "step"} /\ Driven(FALSE) THEN 1 ELSE 0

FeltLaw == felt + UnderWay + Owed <= IF asked > 1 THEN asked ELSE 1

EventLaw == /\ fault = "none" => (injected <=> signalled /\ pf # 0)
            /\ painPc \in {"command", "step"} => (injectDue <=> Driven(TRUE))

PainIInv == PainTypeOK /\ FeltLaw /\ EventLaw

LEMMA PainInitIInv == PainInit => PainIInv
<1> SUFFICES ASSUME PainInit PROVE PainIInv
  OBVIOUS
<1> USE PainAssumption DEF PainInit, NoPain
<1>1. PainTypeOK
  <2>1. dolore \in [addr : Addrs \cup {0}, tick : 0..MaxTicks]
    OBVIOUS
  <2>2. pf \in Addrs \cup {0} /\ gp \in BOOLEAN /\ signalled \in BOOLEAN
    OBVIOUS
  <2>3. commands \in 0..MaxCommands /\ asked \in 0..MaxTicks /\ felt \in 0..(MaxTicks + 1)
    OBVIOUS
  <2>4. sense \in {{}} \cup {{e} : e \in Events} /\ fault \in {"none", "pf", "gp"}
    OBVIOUS
  <2> QED
    BY <2>1, <2>2, <2>3, <2>4 DEF PainTypeOK
<1>2. FeltLaw
  <2>1. UnderWay = 0 /\ Owed = 0 /\ felt = 0 /\ asked = 0
    BY DEF UnderWay, Owed
  <2> QED
    BY <2>1 DEF FeltLaw
<1>3. EventLaw
  BY DEF EventLaw
<1> QED
  BY <1>1, <1>2, <1>3 DEF PainIInv

(* The numbers of the law, whatever the tick. *)
LEMMA PainNumbers ==
  PainIInv => /\ felt \in Nat /\ asked \in Nat /\ dolore.tick \in Nat /\ dolore.tick <= MaxTicks
              /\ dolore.addr \in Addrs \cup {0} /\ Owed \in Nat
              /\ UnderWay \in {0, 1} /\ MaxTicks \in Nat
<1> SUFFICES ASSUME PainIInv
             PROVE /\ felt \in Nat /\ asked \in Nat /\ dolore.tick \in Nat /\ dolore.tick <= MaxTicks
                   /\ dolore.addr \in Addrs \cup {0} /\ Owed \in Nat
                   /\ UnderWay \in {0, 1} /\ MaxTicks \in Nat
  OBVIOUS
<1>1. MaxTicks \in Nat /\ felt \in Nat /\ asked \in Nat
  BY PainAssumption DEF PainIInv, PainTypeOK
<1>2. dolore.tick \in 0..MaxTicks /\ dolore.addr \in Addrs \cup {0}
  BY DEF PainIInv, PainTypeOK
<1>3. dolore.tick \in Nat /\ dolore.tick <= MaxTicks
  BY <1>1, <1>2
<1>4. Owed \in Nat
  BY <1>3 DEF Owed
<1> QED
  BY <1>1, <1>2, <1>3, <1>4 DEF UnderWay

LEMMA TakeSenseIInv == PainIInv /\ TakeSense => PainIInv'
<1> SUFFICES ASSUME PainIInv, TakeSense PROVE PainIInv'
  OBVIOUS
<1>1. /\ painPc = "take" /\ painPc' = "command" /\ fault = "none" /\ fault' = "none"
      /\ signalled' = FALSE /\ dolore' = Scadi /\ injected' = FALSE /\ injectDue' = injected
      /\ UNCHANGED <<pf, gp, commands, asked, felt>>
  BY DEF TakeSense, At, Consumed
<1>2. sense' = IF signalled THEN {[pf |-> pf, gp |-> gp, real |-> TRUE]} ELSE
               IF dolore'.tick > 0
                 THEN {[pf |-> dolore'.addr, gp |-> FALSE, real |-> FALSE]}
                 ELSE {}
  BY DEF TakeSense
<1>3. /\ felt \in Nat /\ asked \in Nat /\ dolore.tick \in Nat /\ MaxTicks \in Nat
      /\ dolore \in [addr : Addrs \cup {0}, tick : 0..MaxTicks]
  BY PainNumbers DEF PainIInv, PainTypeOK
<1>4. /\ dolore' \in [addr : Addrs \cup {0}, tick : 0..MaxTicks]
      /\ dolore'.tick = Owed /\ dolore'.addr \in Addrs \cup {0}
  <2>1. CASE dolore.tick > 1
    BY <1>1, <1>3, <2>1 DEF Scadi, Owed
  <2>2. CASE dolore.tick = 1
    BY <1>1, <1>3, <2>2 DEF Scadi, NoPain, Owed
  <2>3. CASE dolore.tick = 0
    BY <1>1, <1>3, <2>3 DEF Scadi, Owed
  <2> QED
    BY <1>3, <2>1, <2>2, <2>3
<1>5. sense' \in {{}} \cup {{e} : e \in Events}
  <2>1. pf \in Addrs \cup {0} /\ gp \in BOOLEAN
    BY DEF PainIInv, PainTypeOK
  <2> QED
    BY <1>2, <1>4, <2>1 DEF Events
<1>6. PainTypeOK'
  BY <1>1, <1>4, <1>5 DEF PainIInv, PainTypeOK
<1>7. Driven(FALSE)' => dolore'.tick > 0
  BY <1>2 DEF Driven
<1>8. Driven(TRUE)' <=> signalled /\ pf # 0
  <2>1. CASE signalled
    <3> DEFINE e == [pf |-> pf, gp |-> gp, real |-> TRUE]
    <3>1. sense' = {e} /\ e.pf = pf /\ e.real = TRUE
      BY <1>2, <2>1
    <3> HIDE DEF e
    <3> QED
      BY <2>1, <3>1 DEF Driven
  <2>2. CASE ~signalled
    <3>1. \A e \in sense' : e.real = FALSE
      BY <1>2, <2>2
    <3> QED
      BY <2>2, <3>1 DEF Driven
  <2> QED
    BY <2>1, <2>2
<1>9. EventLaw'
  BY <1>1, <1>8 DEF PainIInv, EventLaw
<1>10. FeltLaw'
  <2>1. felt + Owed <= IF asked > 1 THEN asked ELSE 1
    <3>1. UnderWay = 0
      BY <1>1 DEF UnderWay
    <3> QED
      BY <1>3, <3>1, PainNumbers DEF PainIInv, FeltLaw
  <2>2. UnderWay' + Owed' <= dolore'.tick /\ UnderWay' \in Nat /\ Owed' \in Nat
    <3>1. dolore'.tick \in Nat
      BY <1>4, PainNumbers
    <3>2. UnderWay' = IF Driven(FALSE)' THEN 1 ELSE 0
      BY <1>1 DEF UnderWay
    <3>3. Owed' = IF dolore'.tick > 0 THEN dolore'.tick - 1 ELSE 0
      BY DEF Owed
    <3>4. CASE dolore'.tick > 0
      <4>1. UnderWay' \in {0, 1} /\ Owed' = dolore'.tick - 1
        BY <3>2, <3>3, <3>4
      <4> QED
        BY ONLY <3>1, <3>4, <4>1
    <3>5. CASE ~(dolore'.tick > 0)
      <4>1. UnderWay' = 0 /\ Owed' = 0
        BY <1>7, <3>2, <3>3, <3>5
      <4> QED
        BY ONLY <3>1, <4>1
    <3> QED
      BY <3>4, <3>5
  <2>3. dolore'.tick \in Nat /\ Owed \in Nat
    BY <1>4, PainNumbers
  <2>4. felt + UnderWay' + Owed' <= IF asked > 1 THEN asked ELSE 1
    <3> DEFINE most == IF asked > 1 THEN asked ELSE 1
    <3>1. most \in Nat /\ felt + Owed <= most
      BY <1>3, <2>1
    <3> HIDE DEF most
    <3>2. felt \in Nat /\ UnderWay' + Owed' <= Owed /\ UnderWay' \in Nat /\ Owed' \in Nat /\ Owed \in Nat
      BY <1>3, <1>4, <2>2, <2>3
    <3>3. felt + UnderWay' + Owed' <= most
      <4>1. \A f, x, y, z, t \in Nat : x + y <= z /\ f + z <= t => f + x + y <= t
        OBVIOUS
      <4> QED
        BY ONLY <3>1, <3>2, <4>1
    <3> QED
      BY <3>3 DEF most
  <2> QED
    BY <1>1, <2>4 DEF FeltLaw
<1> QED
  BY <1>6, <1>9, <1>10 DEF PainIInv

(* The commands of the tick; the events of the tick stay as they are. *)
LEMMA CommandIInv ==
  PainIInv /\ (NoCommand \/ PainOn \/ PainOff \/ InjectSense) => PainIInv'
<1> SUFFICES ASSUME PainIInv, NoCommand \/ PainOn \/ PainOff \/ InjectSense PROVE PainIInv'
  OBVIOUS
<1>1. /\ painPc = "command" /\ painPc' = "step" /\ fault = "none" /\ fault' = "none"
      /\ sense' = sense /\ injectDue' = injectDue
  BY DEF NoCommand, PainOn, PainOff, InjectSense, Command, At, hist
<1>2. \A r : Driven(r)' <=> Driven(r)
  BY <1>1 DEF Driven
<1>3. UnderWay' = UnderWay
  BY <1>1, <1>2 DEF UnderWay
<1>4. commands' \in 0..MaxCommands
  BY PainAssumption
     DEF NoCommand, PainOn, PainOff, InjectSense, Command, PainIInv, PainTypeOK
<1>5. CASE NoCommand
  <2>1. UNCHANGED <<pf, gp, signalled, dolore, commands, asked, felt, injected>>
    BY <1>5 DEF NoCommand, chan, hist
  <2>2. PainTypeOK' /\ EventLaw' /\ FeltLaw'
    BY <1>1, <1>2, <1>3, <2>1 DEF PainIInv, PainTypeOK, EventLaw, FeltLaw, Owed
  <2> QED
    BY <2>2 DEF PainIInv
<1>6. CASE InjectSense
  <2>1. PICK a \in Addrs \cup {0} : SensePf(a) /\ injected' = (a # 0)
    BY <1>6 DEF InjectSense
  <2>2. UNCHANGED <<dolore, asked, felt, gp>> /\ pf' = a /\ signalled' = TRUE
    BY <1>6, <2>1 DEF InjectSense, SensePf
  <2>3. PainTypeOK'
    BY <1>1, <1>4, <2>1, <2>2 DEF PainIInv, PainTypeOK
  <2>4. EventLaw' /\ FeltLaw'
    BY <1>1, <1>2, <1>3, <2>1, <2>2 DEF PainIInv, EventLaw, FeltLaw, Owed
  <2> QED
    BY <2>3, <2>4 DEF PainIInv
<1>7. ASSUME NEW a \in Addrs \cup {0}, NEW k \in 0..MaxTicks,
             dolore' = [addr |-> a, tick |-> k], asked' = k, felt' = 0,
             UNCHANGED <<pf, gp, signalled, injected>>
      PROVE  PainIInv'
  <2>1. dolore'.tick = k /\ k \in Nat /\ MaxTicks \in Nat
    BY <1>7, PainAssumption
  <2>2. Owed' = IF k > 0 THEN k - 1 ELSE 0
    BY <2>1 DEF Owed
  <2>3. FeltLaw'
    BY <1>3, <1>7, <2>1, <2>2, PainNumbers DEF FeltLaw
  <2>4. PainTypeOK'
    <3>1. felt' \in 0..(MaxTicks + 1) /\ asked' \in 0..MaxTicks
      BY <1>7, <2>1
    <3> QED
      BY <1>1, <1>4, <1>7, <3>1 DEF PainIInv, PainTypeOK
  <2>5. EventLaw'
    BY <1>1, <1>2, <1>7 DEF PainIInv, EventLaw
  <2> QED
    BY <2>3, <2>4, <2>5 DEF PainIInv
<1>8. CASE PainOn
  BY <1>7, <1>8 DEF PainOn, Arm, chan
<1>9. CASE PainOff
  BY <1>7, <1>9, PainAssumption DEF PainOff, Spegni, NoPain, chan
<1> QED
  BY <1>5, <1>6, <1>8, <1>9

LEMMA PainStepIInv == PainIInv /\ PainStep => PainIInv'
<1> SUFFICES ASSUME PainIInv, PainStep PROVE PainIInv'
  OBVIOUS
<1>1. /\ painPc = "step" /\ painPc' = "brain" /\ fault = "none" /\ fault' = "none"
      /\ felt' = IF Driven(FALSE) /\ felt <= MaxTicks THEN felt + 1 ELSE felt
      /\ UNCHANGED <<pf, gp, signalled, dolore, sense, commands, asked, injected, injectDue>>
  BY DEF PainStep, At, chan
<1>2. UnderWay = (IF Driven(FALSE) THEN 1 ELSE 0) /\ UnderWay' = 0 /\ Owed' = Owed
  BY <1>1 DEF UnderWay, Owed
<1>3. felt' <= felt + UnderWay /\ felt' \in Nat /\ felt' \in 0..(MaxTicks + 1)
  <2>1. felt \in 0..(MaxTicks + 1) /\ MaxTicks \in Nat
    BY PainNumbers DEF PainIInv, PainTypeOK
  <2>2. CASE Driven(FALSE) /\ felt <= MaxTicks
    <3>1. felt' = felt + 1 /\ UnderWay = 1
      BY <1>1, <1>2, <2>2
    <3> QED
      BY <2>1, <2>2, <3>1
  <2>3. CASE ~(Driven(FALSE) /\ felt <= MaxTicks)
    <3>1. felt' = felt /\ UnderWay \in {0, 1}
      BY <1>1, <1>2, <2>3
    <3> QED
      BY <2>1, <3>1
  <2> QED
    BY <2>2, <2>3
<1>4. FeltLaw'
  <2>1. felt' + 0 + Owed <= IF asked > 1 THEN asked ELSE 1
    BY <1>3, PainNumbers DEF PainIInv, FeltLaw
  <2> QED
    BY <1>1, <1>2, <2>1 DEF FeltLaw
<1>5. PainTypeOK' /\ EventLaw'
  BY <1>1, <1>3 DEF PainIInv, PainTypeOK, EventLaw
<1> QED
  BY <1>4, <1>5 DEF PainIInv

LEMMA PainNextIInv == PainIInv /\ [PainNext]_painVars => PainIInv'
<1> SUFFICES ASSUME PainIInv, [PainNext]_painVars PROVE PainIInv'
  OBVIOUS
<1>1. CASE UNCHANGED painVars
  <2>1. UNCHANGED <<pf, gp, signalled, dolore, painPc, sense, fault, commands,
                    asked, felt, injected, injectDue>>
    BY <1>1 DEF painVars, chan, hist
  <2>2. PainTypeOK' /\ FeltLaw' /\ EventLaw'
    BY <2>1 DEF PainIInv, PainTypeOK, FeltLaw, EventLaw, UnderWay, Owed, Driven
  <2> QED
    BY <2>2 DEF PainIInv
<1>2. CASE Brain
  <2>1. /\ painPc = "brain" /\ painPc' = "take" /\ fault = "none" /\ fault' = "none"
        /\ UNCHANGED <<pf, gp, signalled, dolore, sense, commands, asked, felt, injected, injectDue>>
    BY <1>2 DEF Brain, At, chan, hist
  <2>2. UnderWay' = UnderWay /\ Owed' = Owed
    BY <2>1 DEF UnderWay, Owed
  <2>3. PainTypeOK' /\ FeltLaw' /\ EventLaw'
    BY <2>1, <2>2 DEF PainIInv, PainTypeOK, FeltLaw, EventLaw
  <2> QED
    BY <2>3 DEF PainIInv
<1>3. CASE FaultArises
  <2>1. /\ fault' \in {"pf", "gp"}
        /\ UNCHANGED <<pf, gp, signalled, dolore, painPc, sense, commands, asked, felt, injected, injectDue>>
    BY <1>3 DEF FaultArises, chan, hist
  <2>2. UnderWay' = UnderWay /\ Owed' = Owed /\ \A r : Driven(r)' <=> Driven(r)
    BY <2>1 DEF UnderWay, Owed, Driven
  <2>3. PainTypeOK'
    BY <2>1 DEF PainIInv, PainTypeOK
  <2>4. FeltLaw' /\ EventLaw'
    BY <2>1, <2>2 DEF PainIInv, FeltLaw, EventLaw
  <2> QED
    BY <2>3, <2>4 DEF PainIInv
<1>4. CASE Handler
  <2>1. /\ fault # "none" /\ pf' \in Addrs \cup {0} /\ gp' \in BOOLEAN /\ signalled' = TRUE
        /\ UNCHANGED <<dolore, painPc, sense, fault, commands, asked, felt, injected, injectDue>>
    BY <1>4 DEF Handler, SensePf, SenseGp, hist, PainIInv, PainTypeOK
  <2>2. UnderWay' = UnderWay /\ Owed' = Owed /\ \A r : Driven(r)' <=> Driven(r)
    BY <2>1 DEF UnderWay, Owed, Driven
  <2>3. PainTypeOK' /\ FeltLaw' /\ EventLaw'
    BY <2>1, <2>2 DEF PainIInv, PainTypeOK, FeltLaw, EventLaw
  <2> QED
    BY <2>3 DEF PainIInv
<1> QED
  BY <1>1, <1>2, <1>3, <1>4, TakeSenseIInv, CommandIInv, PainStepIInv DEF PainNext, PainTick

LEMMA PainSafe == PainIInv => PainTypeOK /\ PainIsCounted
<1> SUFFICES ASSUME PainIInv PROVE felt <= asked \/ felt <= 1
  BY DEF PainIInv, PainIsCounted, EventLaw
<1> QED
  BY PainNumbers DEF PainIInv, FeltLaw
-----------------------------------------------------------------------------
(* Contact.  With one finger on one key the last code on its way says      *)
(* whether the key is down, and without any the contact itself does.       *)
Codes == [port : {"kbd"}, key : Keys, up : BOOLEAN]
Bytes == Codes \cup [port : {"aux"}, flag : BOOLEAN]

LastCode(q, i) == q[i].port = "kbd" /\ \A j \in (i + 1)..Len(q) : q[j].port # "kbd"

NoCode(q) == \A i \in 1..Len(q) : q[i].port # "kbd"

OneKey == ~chord /\ LShift \notin pressed

HandLaw == /\ ~chord => down = {} \/ \E k \in Keys : down = {k}
           /\ down \subseteq pressed
           /\ \A i \in 1..Len(queue) : queue[i].port = "kbd" => queue[i].key \in pressed
           /\ pressed = {} => held = NoKey

ContactLaw == OneKey =>
  /\ \A i \in 1..Len(queue) : LastCode(queue, i) => (queue[i].up <=> down = {})
  /\ NoCode(queue) => (held # NoKey <=> down # {})

TouchIInv == TouchTypeOK /\ HandLaw /\ ContactLaw

LEMMA TouchInitIInv == TouchInit => TouchIInv
<1> SUFFICES ASSUME TouchInit PROVE TouchIInv
  OBVIOUS
<1> USE ContactAssumption DEF TouchInit
<1>1. queue \in Seq(Bytes) /\ Len(queue) = 0 /\ 1..Len(queue) = {}
  OBVIOUS
<1>2. TouchTypeOK
  <2>1. events \in 0..MaxEvents /\ Len(queue) <= QueueCap
    BY <1>1
  <2>2. queue \in Seq([port : {"kbd"}, key : Keys, up : BOOLEAN]
                        \cup [port : {"aux"}, flag : BOOLEAN])
    BY <1>1 DEF Bytes, Codes
  <2>3. down \subseteq Keys /\ pressed \subseteq Keys /\ held \in Keys \cup {NoKey}
    OBVIOUS
  <2> HIDE DEF TouchInit
  <2>4. /\ padMoving \in BOOLEAN /\ padButton \in BOOLEAN /\ chord \in BOOLEAN
        /\ attivo \in BOOLEAN /\ tatto2 \in BOOLEAN /\ tatto3 \in BOOLEAN
        /\ touchPc \in {"drain", "step"}
    BY DEF TouchInit
  <2> QED
    BY <2>1, <2>2, <2>3, <2>4 DEF TouchTypeOK
<1>3. HandLaw
  BY <1>1 DEF HandLaw
<1>4. ContactLaw
  BY <1>1 DEF ContactLaw
<1> QED
  BY <1>2, <1>3, <1>4 DEF TouchIInv

(* A byte more at the end of the queue. *)
LEMMA Queued ==
  ASSUME NEW q \in Seq(Bytes), NEW b \in Bytes
  PROVE  LET next == Append(q, b) IN
         /\ next \in Seq(Bytes) /\ Len(next) = Len(q) + 1 /\ next[Len(q) + 1] = b
         /\ \A i \in 1..Len(q) : next[i] = q[i]
         /\ b.port = "kbd" => ~NoCode(next)
         /\ b.port = "kbd" => \A i \in 1..Len(next) : LastCode(next, i) => i = Len(q) + 1
         /\ b.port # "kbd" => /\ NoCode(next) => NoCode(q)
                              /\ \A i \in 1..Len(next) : LastCode(next, i) => i \in 1..Len(q) /\ LastCode(q, i)
<1> DEFINE next == Append(q, b)
<1>1. /\ next \in Seq(Bytes) /\ Len(next) = Len(q) + 1 /\ next[Len(q) + 1] = b /\ Len(q) \in Nat
      /\ \A i \in 1..Len(q) : next[i] = q[i]
  OBVIOUS
<1> HIDE DEF next
<1>2. b.port = "kbd" => ~NoCode(next)
  <2>1. Len(q) + 1 \in 1..Len(next)
    BY <1>1
  <2> QED
    BY <1>1, <2>1 DEF NoCode
<1>3. ASSUME b.port = "kbd", NEW i \in 1..Len(next), LastCode(next, i) PROVE i = Len(q) + 1
  <2>1. i # Len(q) + 1 => Len(q) + 1 \in (i + 1)..Len(next)
    BY <1>1
  <2> QED
    BY <1>1, <1>3, <2>1 DEF LastCode
<1>4. ASSUME b.port # "kbd", NoCode(next) PROVE NoCode(q)
  <2>1. \A i \in 1..Len(q) : i \in 1..Len(next)
    BY <1>1
  <2> QED
    BY <1>1, <1>4, <2>1 DEF NoCode
<1>5. ASSUME b.port # "kbd", NEW i \in 1..Len(next), LastCode(next, i)
      PROVE  i \in 1..Len(q) /\ LastCode(q, i)
  <2>1. i \in 1..Len(q)
    BY <1>1, <1>5 DEF LastCode
  <2>2. \A j \in (i + 1)..Len(q) : j \in (i + 1)..Len(next) /\ next[j] = q[j]
    BY <1>1, <2>1
  <2> QED
    BY <1>1, <1>5, <2>1, <2>2 DEF LastCode
<1> QED
  BY <1>1, <1>2, <1>3, <1>4, <1>5 DEF next

(* The byte at the front of the queue taken. *)
LEMMA Taken ==
  ASSUME NEW q \in Seq(Bytes), q # <<>>
  PROVE  LET next == Tail(q) IN
         /\ next \in Seq(Bytes) /\ Len(next) = Len(q) - 1 /\ Len(q) \in Nat \ {0} /\ Head(q) = q[1]
         /\ \A i \in 1..Len(next) : next[i] = q[i + 1] /\ i + 1 \in 1..Len(q)
         /\ \A i \in 1..Len(next) : LastCode(next, i) => LastCode(q, i + 1)
         /\ NoCode(next) /\ q[1].port = "kbd" => LastCode(q, 1)
         /\ NoCode(next) /\ q[1].port # "kbd" => NoCode(q)
<1> DEFINE next == Tail(q)
<1>1. /\ next \in Seq(Bytes) /\ Len(next) = Len(q) - 1 /\ Len(q) \in Nat \ {0} /\ Head(q) = q[1]
      /\ \A i \in 1..Len(next) : next[i] = q[i + 1] /\ i + 1 \in 1..Len(q)
  OBVIOUS
<1> HIDE DEF next
<1>2. \A j \in 2..Len(q) : j - 1 \in 1..Len(next) /\ next[j - 1] = q[j]
  <2> SUFFICES ASSUME NEW j \in 2..Len(q) PROVE j - 1 \in 1..Len(next) /\ next[j - 1] = q[j]
    OBVIOUS
  <2>1. j - 1 \in 1..Len(next) /\ (j - 1) + 1 = j
    BY <1>1
  <2> QED
    BY <1>1, <2>1
<1>3. ASSUME NEW i \in 1..Len(next), LastCode(next, i) PROVE LastCode(q, i + 1)
  <2>1. \A j \in (i + 1 + 1)..Len(q) : j \in 2..Len(q) /\ j - 1 \in (i + 1)..Len(next)
    BY <1>1
  <2> QED
    BY <1>1, <1>2, <1>3, <2>1 DEF LastCode
<1>4. NoCode(next) => \A j \in 2..Len(q) : q[j].port # "kbd"
  BY <1>2 DEF NoCode
<1>5. NoCode(next) /\ q[1].port = "kbd" => LastCode(q, 1)
  BY <1>4 DEF LastCode
<1>6. NoCode(next) /\ q[1].port # "kbd" => NoCode(q)
  <2>1. \A i \in 1..Len(q) : i = 1 \/ i \in 2..Len(q)
    BY <1>1
  <2> QED
    BY <1>4, <2>1 DEF NoCode
<1> QED
  BY <1>1, <1>3, <1>5, <1>6 DEF next

(* What the hand sends, and what it leaves as it is. *)
LEMMA Emitted ==
  ASSUME TouchTypeOK, NEW b \in Bytes, Emit(b)
  PROVE  /\ queue \in Seq(Bytes) /\ queue' = Append(queue, b)
         /\ queue' \in Seq(Bytes)
         /\ Len(queue') <= QueueCap /\ events' \in 0..MaxEvents
         /\ UNCHANGED <<held, attivo, touchPc, tatto2, tatto3>>
<1>1. queue \in Seq(Bytes)
  BY DEF TouchTypeOK, Bytes, Codes
<1>2. Len(queue) < QueueCap /\ events < MaxEvents /\ events' = events + 1 /\ queue' = Append(queue, b)
      /\ UNCHANGED <<held, attivo, touchPc, tatto2, tatto3>>
  BY DEF Emit, bodyVars
<1>3. queue' \in Seq(Bytes) /\ Len(queue') = Len(queue) + 1 /\ Len(queue) \in Nat
  BY <1>1, <1>2
<1>4. Len(queue') <= QueueCap /\ events' \in 0..MaxEvents
  BY <1>2, <1>3, ContactAssumption DEF TouchTypeOK
<1> QED
  BY <1>1, <1>2, <1>3, <1>4

(* The type of the hand, part by part. *)
LEMMA TouchParts ==
  TouchTypeOK <=> /\ down \subseteq Keys /\ pressed \subseteq Keys
                  /\ padMoving \in BOOLEAN /\ padButton \in BOOLEAN /\ chord \in BOOLEAN
                  /\ events \in 0..MaxEvents
                  /\ queue \in Seq(Bytes) /\ Len(queue) <= QueueCap
                  /\ held \in Keys \cup {NoKey}
                  /\ attivo \in BOOLEAN /\ tatto2 \in BOOLEAN /\ tatto3 \in BOOLEAN
                  /\ touchPc \in {"drain", "step"}
<1>1. Bytes = [port : {"kbd"}, key : Keys, up : BOOLEAN] \cup [port : {"aux"}, flag : BOOLEAN]
  BY DEF Bytes, Codes
<1> QED
  BY <1>1 DEF TouchTypeOK

(* A scancode sent: the last code says how the key is now. *)
LEMMA CodeSent ==
  ASSUME TouchIInv, NEW k \in Keys, NEW up \in BOOLEAN, Emit(Scan(k, up)),
         down' \subseteq Keys, pressed' \subseteq Keys, chord' \in BOOLEAN,
         UNCHANGED <<padMoving, padButton>>,
         ~chord' => down' = {} \/ \E j \in Keys : down' = {j},
         down' \subseteq pressed', pressed \subseteq pressed', k \in pressed',
         ~chord' => (up <=> down' = {})
  PROVE  TouchIInv'
<1> DEFINE b == Scan(k, up)
<1>1. b \in Bytes /\ b.port = "kbd" /\ b.key = k /\ b.up = up
  BY DEF Scan, Bytes, Codes
<1> HIDE DEF b
<1>2. Emit(b)
  BY DEF b
<1>3. TouchTypeOK
  BY DEF TouchIInv
<1>4. /\ queue \in Seq(Bytes) /\ queue' = Append(queue, b) /\ queue' \in Seq(Bytes)
      /\ Len(queue') <= QueueCap /\ events' \in 0..MaxEvents
      /\ UNCHANGED <<held, attivo, touchPc, tatto2, tatto3>>
  BY <1>1, <1>2, <1>3, Emitted
<1>5. /\ Len(queue') = Len(queue) + 1 /\ queue'[Len(queue) + 1] = b
      /\ \A i \in 1..Len(queue) : queue'[i] = queue[i]
      /\ ~NoCode(queue')
      /\ \A i \in 1..Len(queue') : LastCode(queue', i) => i = Len(queue) + 1
  BY <1>1, <1>4, Queued
<1>6. TouchTypeOK'
  <2>1. attivo' \in BOOLEAN /\ tatto2' \in BOOLEAN /\ tatto3' \in BOOLEAN /\ touchPc' \in {"drain", "step"}
        /\ padMoving' \in BOOLEAN /\ padButton' \in BOOLEAN /\ held' \in Keys \cup {NoKey}
    BY <1>3, <1>4, TouchParts
  <2> QED
    BY <1>4, <2>1 DEF TouchTypeOK, Bytes, Codes
<1>7. HandLaw'
  <2>1. ASSUME NEW i \in 1..Len(queue'), queue'[i].port = "kbd" PROVE queue'[i].key \in pressed'
    <3>1. Len(queue) \in Nat
      BY <1>4
    <3>2. CASE i = Len(queue) + 1
      BY <1>1, <1>5, <3>2
    <3>3. CASE i # Len(queue) + 1
      <4>1. i \in 1..Len(queue)
        BY <1>5, <3>1, <3>3
      <4> QED
        BY <1>5, <2>1, <4>1 DEF TouchIInv, HandLaw
    <3> QED
      BY <3>2, <3>3
  <2> QED
    BY <2>1 DEF HandLaw
<1>8. ContactLaw'
  BY <1>1, <1>5 DEF ContactLaw, OneKey
<1> QED
  BY <1>6, <1>7, <1>8 DEF TouchIInv

LEMMA KeyIInv ==
  ASSUME TouchIInv, NEW k \in Keys, Press(k) \/ Typematic(k) \/ Release(k)
  PROVE  TouchIInv'
<1>1. /\ down \subseteq Keys /\ pressed \subseteq Keys /\ chord \in BOOLEAN
      /\ ~chord => down = {} \/ \E j \in Keys : down = {j}
      /\ down \subseteq pressed
  BY DEF TouchIInv, TouchTypeOK, HandLaw
<1>2. CASE Press(k)
  <2>1. /\ k \notin down /\ Emit(Scan(k, FALSE)) /\ down' = down \cup {k}
        /\ chord' = (chord \/ down # {}) /\ pressed' = pressed \cup {k}
        /\ UNCHANGED <<padMoving, padButton>>
    BY <1>2 DEF Press
  <2>2. ~chord' => down' = {k}
    BY <1>1, <2>1
  <2>3. chord' \in BOOLEAN /\ down' # {} /\ k \in pressed'
    BY <2>1
  <2>4. down' \subseteq Keys /\ pressed' \subseteq Keys /\ down' \subseteq pressed' /\ pressed \subseteq pressed'
    BY <1>1, <2>1
  <2> QED
    BY <2>1, <2>2, <2>3, <2>4, CodeSent
<1>3. CASE Typematic(k)
  <2>1. /\ k \in down /\ Emit(Scan(k, FALSE))
        /\ UNCHANGED <<down, padMoving, padButton, chord, pressed>>
    BY <1>3 DEF Typematic
  <2>2. down' # {} /\ k \in pressed'
    BY <1>1, <2>1
  <2>3. ~chord' => down' = {} \/ \E j \in Keys : down' = {j}
    BY <1>1, <2>1
  <2> QED
    BY <1>1, <2>1, <2>2, <2>3, CodeSent
<1>4. CASE Release(k)
  <2>1. /\ k \in down /\ Emit(Scan(k, TRUE)) /\ down' = down \ {k}
        /\ chord' = (chord /\ down # {k})
        /\ UNCHANGED <<padMoving, padButton, pressed>>
    BY <1>4 DEF Release
  <2>2. ~chord' => down' = {}
    BY <1>1, <2>1
  <2>3. chord' \in BOOLEAN /\ down' \subseteq Keys /\ down' \subseteq pressed' /\ k \in pressed'
        /\ pressed' = pressed
    BY <1>1, <2>1
  <2> QED
    BY <1>1, <2>1, <2>2, <2>3, CodeSent
<1> QED
  BY <1>2, <1>3, <1>4

(* The finger on the touchpad says nothing of the keys. *)
LEMMA PadIsSilent ==
  ASSUME TouchIInv, NEW b \in Bytes, b.port # "kbd", Emit(b),
         padMoving' \in BOOLEAN, padButton' \in BOOLEAN,
         UNCHANGED <<down, chord, pressed>>
  PROVE  TouchIInv'
<1>1. TouchTypeOK
  BY DEF TouchIInv
<1>2. /\ queue \in Seq(Bytes) /\ queue' = Append(queue, b) /\ queue' \in Seq(Bytes)
      /\ Len(queue') <= QueueCap /\ events' \in 0..MaxEvents
      /\ UNCHANGED <<held, attivo, touchPc, tatto2, tatto3>>
  BY <1>1, Emitted
<1>3. /\ Len(queue') = Len(queue) + 1 /\ queue'[Len(queue) + 1] = b
      /\ \A i \in 1..Len(queue) : queue'[i] = queue[i]
      /\ NoCode(queue') => NoCode(queue)
      /\ \A i \in 1..Len(queue') : LastCode(queue', i) => i \in 1..Len(queue) /\ LastCode(queue, i)
  BY <1>2, Queued
<1>4. TouchTypeOK'
  <2>1. attivo' \in BOOLEAN /\ tatto2' \in BOOLEAN /\ tatto3' \in BOOLEAN /\ touchPc' \in {"drain", "step"}
        /\ held' \in Keys \cup {NoKey} /\ down' \subseteq Keys /\ pressed' \subseteq Keys /\ chord' \in BOOLEAN
    BY <1>1, <1>2, TouchParts
  <2> QED
    BY <1>2, <2>1 DEF TouchTypeOK, Bytes, Codes
<1>5. HandLaw'
  <2>1. ASSUME NEW i \in 1..Len(queue'), queue'[i].port = "kbd" PROVE queue'[i].key \in pressed'
    <3>1. i \in 1..Len(queue)
      <4>1. Len(queue) \in Nat /\ i # Len(queue) + 1
        BY <1>2, <1>3, <2>1
      <4> QED
        BY <1>3, <4>1
    <3> QED
      BY <1>3, <2>1, <3>1 DEF TouchIInv, HandLaw
  <2> QED
    BY <1>2, <2>1 DEF TouchIInv, HandLaw
<1>6. ContactLaw'
  <2>1. OneKey' <=> OneKey
    BY DEF OneKey
  <2> QED
    BY <1>2, <1>3, <2>1 DEF ContactLaw, TouchIInv
<1> QED
  BY <1>4, <1>5, <1>6 DEF TouchIInv

(* The byte at the head goes into the contact or into the touchpad's flag. *)
LEMMA DrainIInv ==
  ASSUME TouchIInv, DrainAux \/ DrainKey
  PROVE  TouchIInv'
<1>1. /\ queue \in Seq(Bytes) /\ queue # <<>> /\ queue' = Tail(queue)
      /\ UNCHANGED <<down, padMoving, padButton, events, chord, pressed, touchPc, tatto2, tatto3>>
  <2>1. queue \in Seq(Bytes)
    BY TouchParts DEF TouchIInv
  <2> QED
    BY <2>1 DEF DrainAux, DrainKey, handVars
<1>2. /\ queue' \in Seq(Bytes) /\ Len(queue') = Len(queue) - 1 /\ Len(queue) \in Nat \ {0} /\ Head(queue) = queue[1]
      /\ \A i \in 1..Len(queue') : queue'[i] = queue[i + 1] /\ i + 1 \in 1..Len(queue)
      /\ \A i \in 1..Len(queue') : LastCode(queue', i) => LastCode(queue, i + 1)
      /\ NoCode(queue') /\ queue[1].port = "kbd" => LastCode(queue, 1)
      /\ NoCode(queue') /\ queue[1].port # "kbd" => NoCode(queue)
  BY <1>1, Taken
<1>3. queue[1] \in Bytes /\ 1 \in 1..Len(queue)
  BY <1>1, <1>2
<1>4. /\ held' \in Keys \cup {NoKey} /\ attivo' \in BOOLEAN
      /\ queue[1].port # "kbd" => held' = held
      /\ queue[1].port = "kbd" /\ LShift \notin pressed => (held' # NoKey <=> ~queue[1].up)
      /\ pressed = {} => held' = held
  <2>1. held \in Keys \cup {NoKey} /\ attivo \in BOOLEAN
    BY DEF TouchIInv, TouchTypeOK
  <2>2. CASE DrainAux
    <3>1. /\ queue[1].port = "aux" /\ held' = held /\ attivo' = queue[1].flag
      BY <1>2, <2>2 DEF DrainAux, Destinazione, SenseTouchpad
    <3>2. queue[1].flag \in BOOLEAN
      BY <1>3, <3>1 DEF Bytes, Codes
    <3> QED
      BY <2>1, <3>1, <3>2
  <2>3. CASE DrainKey
    <3>1. /\ queue[1].port = "kbd" /\ attivo' = attivo
          /\ held' = IF Filtered(queue[1]) THEN held ELSE ContactOf(queue[1])
      BY <1>2, <2>3 DEF DrainKey, Destinazione, Code
    <3>2. queue[1].key \in Keys /\ queue[1].up \in BOOLEAN
      BY <1>3, <3>1 DEF Bytes, Codes
    <3>3. queue[1].key \in pressed
      BY <1>3, <3>1 DEF TouchIInv, HandLaw
    <3>4. LShift \notin pressed => ~Filtered(queue[1])
      BY <3>3 DEF Filtered
    <3> QED
      BY <2>1, <3>1, <3>2, <3>3, <3>4, ContactAssumption DEF ContactOf
  <2> QED
    BY <2>2, <2>3
<1>5. TouchTypeOK'
  <2>1. Len(queue') <= QueueCap
    <3>1. Len(queue) <= QueueCap /\ QueueCap \in Nat
      BY ContactAssumption DEF TouchIInv, TouchTypeOK
    <3> QED
      BY <1>2, <3>1
  <2>2. /\ tatto2' \in BOOLEAN /\ tatto3' \in BOOLEAN /\ touchPc' \in {"drain", "step"}
        /\ down' \subseteq Keys /\ pressed' \subseteq Keys /\ chord' \in BOOLEAN
        /\ padMoving' \in BOOLEAN /\ padButton' \in BOOLEAN /\ events' \in 0..MaxEvents
    BY <1>1, TouchParts DEF TouchIInv
  <2> QED
    BY <1>2, <1>4, <2>1, <2>2 DEF TouchTypeOK, Bytes, Codes
<1>6. HandLaw'
  BY <1>1, <1>2, <1>4 DEF TouchIInv, HandLaw
<1>7. ContactLaw'
  <2> SUFFICES ASSUME OneKey'
               PROVE  /\ \A i \in 1..Len(queue') : LastCode(queue', i) => (queue'[i].up <=> down' = {})
                      /\ NoCode(queue') => (held' # NoKey <=> down' # {})
    BY DEF ContactLaw
  <2>1. OneKey /\ LShift \notin pressed
    BY <1>1 DEF OneKey
  <2>2. \A i \in 1..Len(queue) : LastCode(queue, i) => (queue[i].up <=> down = {})
    BY <2>1 DEF TouchIInv, ContactLaw
  <2>3. NoCode(queue) => (held # NoKey <=> down # {})
    BY <2>1 DEF TouchIInv, ContactLaw
  <2>4. ASSUME NEW i \in 1..Len(queue'), LastCode(queue', i) PROVE queue'[i].up <=> down' = {}
    <3>1. queue'[i] = queue[i + 1] /\ i + 1 \in 1..Len(queue) /\ LastCode(queue, i + 1)
      BY <1>2, <2>4
    <3> QED
      BY <1>1, <2>2, <3>1
  <2>5. ASSUME NoCode(queue') PROVE held' # NoKey <=> down' # {}
    <3>1. CASE queue[1].port = "kbd"
      BY <1>1, <1>2, <1>3, <1>4, <2>1, <2>2, <2>5, <3>1
    <3>2. CASE queue[1].port # "kbd"
      BY <1>1, <1>2, <1>4, <2>3, <2>5, <3>2
    <3> QED
      BY <3>1, <3>2
  <2> QED
    BY <2>4, <2>5
<1> QED
  BY <1>5, <1>6, <1>7 DEF TouchIInv

LEMMA TouchNextIInv == TouchIInv /\ [TouchNext]_touchVars => TouchIInv'
<1> SUFFICES ASSUME TouchIInv, [TouchNext]_touchVars PROVE TouchIInv'
  OBVIOUS
<1>1. ASSUME UNCHANGED <<down, queue, held, chord, pressed, events, attivo>>,
             padMoving' \in BOOLEAN, padButton' = padButton, tatto2' \in BOOLEAN, tatto3' \in BOOLEAN,
             touchPc' \in {"drain", "step"}
      PROVE  TouchIInv'
  <2>1. TouchTypeOK'
    BY <1>1 DEF TouchIInv, TouchTypeOK
  <2>2. HandLaw' /\ ContactLaw'
    BY <1>1 DEF TouchIInv, HandLaw, ContactLaw, OneKey
  <2> QED
    BY <2>1, <2>2 DEF TouchIInv
<1>2. /\ padMoving \in BOOLEAN /\ padButton \in BOOLEAN /\ tatto2 \in BOOLEAN /\ tatto3 \in BOOLEAN
      /\ attivo \in BOOLEAN /\ touchPc \in {"drain", "step"}
  BY DEF TouchIInv, TouchTypeOK
<1>3. CASE UNCHANGED touchVars
  BY <1>1, <1>2, <1>3 DEF touchVars, handVars, bodyVars
<1>4. ASSUME NEW k \in Keys, Press(k) \/ Typematic(k) \/ Release(k) PROVE TouchIInv'
  BY <1>4, KeyIInv
<1>5. \A f \in BOOLEAN : Packet(f) \in Bytes /\ Packet(f).port # "kbd"
  BY DEF Packet, Bytes
<1>6. CASE PadMove
  <2>1. Emit(Packet(TRUE)) /\ padMoving' = TRUE /\ UNCHANGED <<down, padButton, chord, pressed>>
    BY <1>6 DEF PadMove
  <2> QED
    BY <1>2, <1>5, <2>1, PadIsSilent
<1>7. CASE PadStop
  BY <1>1, <1>2, <1>7 DEF PadStop, bodyVars
<1>8. CASE PadButton
  <2>1. Emit(Packet(~padButton)) /\ padButton' = ~padButton /\ UNCHANGED <<down, padMoving, chord, pressed>>
    BY <1>8 DEF PadButton
  <2>2. Packet(~padButton) \in Bytes /\ Packet(~padButton).port # "kbd" /\ padButton' \in BOOLEAN
    BY <1>5, <2>1
  <2> QED
    BY <1>2, <2>1, <2>2, PadIsSilent
<1>9. CASE DrainAux \/ DrainKey
  BY <1>9, DrainIInv
<1>10. CASE PortEmpty
  BY <1>1, <1>2, <1>10 DEF PortEmpty, handVars
<1>11. CASE TouchStep
  <2>1. /\ tatto2' = (held # NoKey) /\ tatto3' = attivo /\ touchPc' = "drain"
        /\ UNCHANGED <<down, padMoving, padButton, events, chord, pressed, queue, held, attivo>>
    BY <1>11 DEF TouchStep, handVars
  <2>2. tatto2' \in BOOLEAN /\ tatto3' \in BOOLEAN
    BY <1>2, <2>1
  <2> QED
    BY <1>1, <1>2, <2>1, <2>2
<1> QED
  BY <1>3, <1>4, <1>6, <1>7, <1>8, <1>9, <1>10, <1>11 DEF TouchNext, Hand, TouchTick

LEMMA TouchSafe == TouchIInv => TouchTypeOK /\ HonestForOneKey
<1> SUFFICES ASSUME TouchIInv PROVE HonestForOneKey
  BY DEF TouchIInv
<1>1. pressed = {} => held = NoKey
  BY DEF TouchIInv, HandLaw
<1>2. ASSUME Seen, ~chord, LShift \notin pressed PROVE held # NoKey <=> down # {}
  <2>1. NoCode(queue)
    BY <1>2 DEF Seen, NoCode
  <2> QED
    BY <1>2, <2>1 DEF TouchIInv, ContactLaw, OneKey
<1> QED
  BY <1>1, <1>2 DEF HonestForOneKey
-----------------------------------------------------------------------------
(* Ps2Mouse.  The bytes waiting, those in the assembler first, are the     *)
(* packets of the gestures that have not come out, in order; the phase is  *)
(* a matter of numbers alone.                                              *)
Octets == 0..255
Reports == [dx : -256..255, dy : -256..255, bottoni : 0..7]

Waiting == Len(padBuf) + Len(line)
ByteAt(i) == IF i <= Len(padBuf) THEN padBuf[i] ELSE line[i - Len(padBuf)]

GestureLaw == lost = 0 =>
  /\ Len(got) <= Len(made) /\ \A i \in 1..Len(got) : got[i] = made[i]
  /\ Waiting = 3 * (Len(made) - Len(got))
  /\ \A n \in (Len(got) + 1)..Len(made), c \in 1..3 :
        ByteAt(3 * (n - Len(got) - 1) + c) = Encode(made[n])[c]

PhaseLaw == Len(padBuf) = (3 * Len(made) - lost - Len(line)) % 3

PadIInv == PadTypeOK /\ GestureLaw /\ PhaseLaw

(* The device's packet is three bytes, and it is in phase. *)
LEMMA Coded ==
  ASSUME NEW g \in Gestures
  PROVE  /\ Encode(g) \in Seq(Octets) /\ Len(Encode(g)) = 3
         /\ Bit(Encode(g)[1], 8)
<1>1. g.dx \in -255..255 /\ g.dy \in -255..255 /\ g.bottoni \in 0..7
  BY Ps2Assumption
<1> DEFINE x == IF g.dx < 0 THEN 16 ELSE 0
           y == IF g.dy < 0 THEN 32 ELSE 0
           first == 8 + g.bottoni + x + y
<1>2. first \in Octets
  BY <1>1 DEF Octets
<1>3. g.dx % 256 \in Octets /\ g.dy % 256 \in Octets
  BY <1>1, SMTT(20) DEF Octets
<1>4. Encode(g) = <<first, g.dx % 256, g.dy % 256>>
  BY DEF Encode
<1>5. Bit(first, 8)
  <2>1. \A b \in 0..7, p \in {0, 16}, q \in {0, 32} : ((8 + b + p + q) \div 8) % 2 = 1
    OBVIOUS
  <2>2. x \in {0, 16} /\ y \in {0, 32}
    OBVIOUS
  <2> HIDE DEF x, y
  <2> QED
    BY <1>1, <2>1, <2>2 DEF Bit
<1> HIDE DEF first
<1> QED
  BY <1>2, <1>3, <1>4, <1>5

(* A packet understood is the gesture it was made from. *)
LEMMA Decoded ==
  ASSUME NEW g \in Gestures
  PROVE  Decodifica(Encode(g)) = g
<1>1. /\ g.dx \in -255..255 /\ g.dy \in -255..255 /\ g.bottoni \in 0..7
      /\ g = [dx |-> g.dx, dy |-> g.dy, bottoni |-> g.bottoni]
  BY Ps2Assumption
<1> DEFINE x == IF g.dx < 0 THEN 16 ELSE 0
           y == IF g.dy < 0 THEN 32 ELSE 0
           first == 8 + g.bottoni + x + y
<1>2. Encode(g) = <<first, g.dx % 256, g.dy % 256>>
  BY DEF Encode
<1>3. /\ Bit(first, 16) <=> g.dx < 0
      /\ Bit(first, 32) <=> g.dy < 0
      /\ first % 8 = g.bottoni
  <2>1. \A b \in 0..7, p \in {0, 16}, q \in {0, 32} :
           /\ ((8 + b + p + q) \div 16) % 2 = 1 <=> p = 16
           /\ ((8 + b + p + q) \div 32) % 2 = 1 <=> q = 32
           /\ (8 + b + p + q) % 8 = b
    OBVIOUS
  <2>2. x \in {0, 16} /\ y \in {0, 32} /\ (x = 16 <=> g.dx < 0) /\ (y = 32 <=> g.dy < 0)
    OBVIOUS
  <2> HIDE DEF x, y
  <2> QED
    BY <1>1, <2>1, <2>2 DEF Bit
<1> HIDE DEF first
<1>4. \A d \in -255..255 : (IF d < 0 THEN (d % 256) - 256 ELSE d % 256) = d
  OBVIOUS
<1>5. /\ (IF Bit(first, 16) THEN (g.dx % 256) - 256 ELSE g.dx % 256) = g.dx
      /\ (IF Bit(first, 32) THEN (g.dy % 256) - 256 ELSE g.dy % 256) = g.dy
  BY <1>1, <1>3, <1>4
<1> DEFINE b == <<first, g.dx % 256, g.dy % 256>>
<1>6. b[1] = first /\ b[2] = g.dx % 256 /\ b[3] = g.dy % 256
  OBVIOUS
<1> HIDE DEF b
<1>7. Decodifica(b) = [dx |-> g.dx, dy |-> g.dy, bottoni |-> g.bottoni]
  BY <1>3, <1>5, <1>6 DEF Decodifica
<1> QED
  BY <1>1, <1>2, <1>7 DEF b

(* Whatever the group, the report is in range. *)
LEMMA ReportInRange ==
  ASSUME NEW b \in Seq(Octets), Len(b) = 3
  PROVE  Decodifica(b) \in Reports
<1>1. b[1] \in Octets /\ b[2] \in Octets /\ b[3] \in Octets
  OBVIOUS
<1>2. /\ (IF Bit(b[1], 16) THEN b[2] - 256 ELSE b[2]) \in -256..255
      /\ (IF Bit(b[1], 32) THEN b[3] - 256 ELSE b[3]) \in -256..255
      /\ b[1] % 8 \in 0..7
  <2>1. \A o \in Octets : o \in -256..255 /\ o - 256 \in -256..255 /\ o % 8 \in 0..7
    BY DEF Octets
  <2>2. /\ b[2] \in -256..255 /\ b[2] - 256 \in -256..255
        /\ b[3] \in -256..255 /\ b[3] - 256 \in -256..255 /\ b[1] % 8 \in 0..7
    BY <1>1, <2>1
  <2> QED
    BY <2>2
<1> QED
  BY <1>2 DEF Decodifica, Reports

LEMMA PadInitIInv == PadInit => PadIInv
<1> SUFFICES ASSUME PadInit PROVE PadIInv
  OBVIOUS
<1> USE Ps2Assumption DEF PadInit
<1>1. Len(made) = 0 /\ Len(line) = 0 /\ Len(padBuf) = 0 /\ Len(got) = 0 /\ 1..Len(got) = {}
  OBVIOUS
<1>2. PadTypeOK
  BY <1>1 DEF PadTypeOK
<1>3. GestureLaw
  <2>1. Waiting = 0 /\ 3 * (Len(made) - Len(got)) = 0 /\ (Len(got) + 1)..Len(made) = {}
    BY <1>1 DEF Waiting
  <2> QED
    BY <1>1, <2>1 DEF GestureLaw
<1>4. PhaseLaw
  BY <1>1 DEF PhaseLaw
<1> QED
  BY <1>2, <1>3, <1>4 DEF PadIInv

(* The numbers of the touchpad's line. *)
LEMMA PadNumbers ==
  PadIInv => /\ made \in Seq(Gestures) /\ line \in Seq(Octets) /\ padBuf \in Seq(Octets) /\ got \in Seq(Reports)
             /\ Len(made) \in Nat /\ Len(line) \in Nat /\ Len(padBuf) \in 0..2 /\ Len(got) \in Nat
             /\ lost \in Nat /\ Waiting = Len(padBuf) + Len(line)
<1>1. PadIInv => /\ made \in Seq(Gestures) /\ line \in Seq(Octets) /\ padBuf \in Seq(Octets)
                 /\ got \in Seq(Reports) /\ Len(padBuf) < 3 /\ lost \in Nat
  BY Ps2Assumption DEF PadIInv, PadTypeOK, Octets, Reports
<1>2. \A s \in Seq(Octets) : Len(s) \in Nat /\ (Len(s) < 3 => Len(s) \in 0..2)
  <2>1. \A s \in Seq(Octets) : Len(s) \in Nat
    OBVIOUS
  <2>2. \A k \in Nat : k < 3 => k \in 0..2
    OBVIOUS
  <2> QED
    BY <2>1, <2>2
<1>3. \A s \in Seq(Gestures) : Len(s) \in Nat
  OBVIOUS
<1>4. \A s \in Seq(Reports) : Len(s) \in Nat
  OBVIOUS
<1> QED
  BY <1>1, <1>2, <1>3, <1>4 DEF Waiting

(* The type, part by part, whatever has been counted. *)
LEMMA MakeGestureIInv == PadIInv /\ MakeGesture => PadIInv'
<1> SUFFICES ASSUME PadIInv, MakeGesture PROVE PadIInv'
  OBVIOUS
<1>1. PICK g \in Gestures : made' = Append(made, g) /\ line' = line \o Encode(g)
  BY DEF MakeGesture
<1>2. UNCHANGED <<padBuf, got, lost>> /\ Len(made) < MaxGestures /\ MaxGestures \in Nat
  BY Ps2Assumption DEF MakeGesture
<1> DEFINE e == Encode(g)
<1>3. e \in Seq(Octets) /\ Len(e) = 3
  BY Coded
<1> HIDE DEF e
<1>4. /\ line' \in Seq(Octets) /\ Len(line') = Len(line) + 3
      /\ \A i \in 1..Len(line) : line'[i] = line[i]
      /\ \A c \in 1..3 : line'[Len(line) + c] = e[c]
  <2>1. line' = line \o e /\ line \in Seq(Octets) /\ Len(line) \in Nat
    BY <1>1, PadNumbers DEF e
  <2>2. /\ line \o e \in Seq(Octets) /\ Len(line \o e) = Len(line) + 3
        /\ \A i \in 1..(Len(line) + 3) : (line \o e)[i] = IF i <= Len(line) THEN line[i] ELSE e[i - Len(line)]
    <3>1. /\ line \o e \in Seq(Octets) /\ Len(line \o e) = Len(line) + Len(e)
          /\ \A i \in 1..(Len(line) + Len(e)) : (line \o e)[i] = IF i <= Len(line) THEN line[i] ELSE e[i - Len(line)]
      BY ONLY <1>3, <2>1, ConcatProperties
    <3> QED
      BY ONLY <3>1, <1>3
  <2>3. \A i \in 1..Len(line) : i \in 1..(Len(line) + 3) /\ i <= Len(line)
    BY <2>1
  <2>4. \A c \in 1..3 : /\ Len(line) + c \in 1..(Len(line) + 3)
                        /\ ~(Len(line) + c <= Len(line)) /\ (Len(line) + c) - Len(line) = c
    BY <2>1
  <2> HIDE DEF e
  <2> QED
    BY <2>1, <2>2, <2>3, <2>4
<1>5. /\ made' \in Seq(Gestures) /\ Len(made') = Len(made) + 1 /\ made'[Len(made) + 1] = g
      /\ \A i \in 1..Len(made) : made'[i] = made[i]
  BY <1>1, PadNumbers
<1>6. PadTypeOK'
  <2>1. Len(made') <= MaxGestures
    BY <1>2, <1>5, PadNumbers
  <2> QED
    BY <1>2, <1>4, <1>5, <2>1 DEF PadIInv, PadTypeOK, Octets
<1>7. PhaseLaw'
  <2>1. 3 * Len(made') - lost' - Len(line') = 3 * Len(made) - lost - Len(line)
    <3>1. \A m, l, k \in Nat : 3 * (m + 1) - k - (l + 3) = 3 * m - k - l
      OBVIOUS
    <3>2. /\ Len(made) \in Nat /\ Len(line) \in Nat /\ lost \in Nat
          /\ Len(made') = Len(made) + 1 /\ Len(line') = Len(line) + 3 /\ lost' = lost
      BY <1>2, <1>4, <1>5, PadNumbers
    <3> QED
      BY ONLY <3>1, <3>2
  <2> QED
    BY <1>2, <2>1 DEF PadIInv, PhaseLaw
<1>8. GestureLaw'
  <2> SUFFICES ASSUME lost = 0
      PROVE  /\ Len(got) <= Len(made') /\ \A i \in 1..Len(got) : got[i] = made'[i]
             /\ Waiting' = 3 * (Len(made') - Len(got))
             /\ \A n \in (Len(got) + 1)..Len(made'), c \in 1..3 :
                   ByteAt(3 * (n - Len(got) - 1) + c)' = Encode(made'[n])[c]
    BY <1>2 DEF GestureLaw
  <2>1. /\ Len(got) <= Len(made) /\ \A i \in 1..Len(got) : got[i] = made[i]
        /\ Waiting = 3 * (Len(made) - Len(got))
        /\ \A n \in (Len(got) + 1)..Len(made), c \in 1..3 :
              ByteAt(3 * (n - Len(got) - 1) + c) = Encode(made[n])[c]
    BY DEF PadIInv, GestureLaw
  <2>2. Len(got) <= Len(made') /\ \A i \in 1..Len(got) : got[i] = made'[i]
    <3>1. \A i \in 1..Len(got) : i \in 1..Len(made)
      BY <2>1, PadNumbers
    <3> QED
      BY <1>5, <2>1, <3>1, PadNumbers
  <2>3. Waiting' = 3 * (Len(made') - Len(got)) /\ Waiting' = Waiting + 3
    <3>1. \A m, g1, w \in Nat : w = 3 * (m - g1) => w + 3 = 3 * ((m + 1) - g1)
      OBVIOUS
    <3>2. Waiting' = Len(padBuf) + (Len(line) + 3)
      BY <1>2, <1>4 DEF Waiting
    <3>3. Waiting' = Waiting + 3 /\ Waiting \in Nat
      BY <3>2, PadNumbers
    <3> QED
      BY <1>5, <2>1, <3>1, <3>3, PadNumbers
  <2>4. \A i \in 1..Waiting : ByteAt(i)' = ByteAt(i)
    <3> TAKE i \in 1..Waiting
    <3>1. CASE i <= Len(padBuf)
      BY <1>2, <3>1 DEF ByteAt
    <3>2. CASE ~(i <= Len(padBuf))
      <4>1. i - Len(padBuf) \in 1..Len(line)
        BY <3>2, PadNumbers
      <4> QED
        BY <1>2, <1>4, <3>2, <4>1 DEF ByteAt
    <3> QED
      BY <3>1, <3>2
  <2>5. \A w \in Nat, c \in 1..3 : w = Waiting => ByteAt(w + c)' = e[c]
    <3> SUFFICES ASSUME NEW w \in Nat, NEW c \in 1..3, w = Waiting
                 PROVE  ByteAt(w + c)' = e[c]
      OBVIOUS
    <3>1. ~(w + c <= Len(padBuf)) /\ (w + c) - Len(padBuf) = Len(line) + c
      BY PadNumbers
    <3>2. ByteAt(w + c)' = line'[(w + c) - Len(padBuf)]
      BY <1>2, <3>1 DEF ByteAt
    <3> QED
      BY <1>4, <3>1, <3>2
  <2>6. ASSUME NEW n \in (Len(got) + 1)..Len(made'), NEW c \in 1..3
        PROVE  ByteAt(3 * (n - Len(got) - 1) + c)' = Encode(made'[n])[c]
    <3>1. CASE n = Len(made) + 1
      <4> DEFINE w == 3 * (n - Len(got) - 1)
      <4>1. w = Waiting /\ w \in Nat /\ w' = w
        <5>1. \A m, r \in Nat : 3 * ((m + 1) - r - 1) = 3 * (m - r)
          OBVIOUS
        <5> QED
          BY <1>2, <2>1, <3>1, <5>1, PadNumbers
      <4>2. made'[n] = g
        BY <1>5, <3>1
      <4>3. ByteAt(w + c)' = e[c]
        <5>1. PICK v \in Nat : v = w
          BY <4>1
        <5>2. ByteAt(v + c)' = e[c]
          BY <2>5, <4>1, <5>1
        <5> QED
          BY <4>1, <5>1, <5>2 DEF ByteAt
      <4> QED
        BY <4>2, <4>3 DEF e
    <3>2. CASE n # Len(made) + 1
      <4>1. n \in (Len(got) + 1)..Len(made) /\ n \in 1..Len(made)
        BY <1>5, <3>2, PadNumbers
      <4>2. 3 * (n - Len(got) - 1) + c \in 1..Waiting
        <5>1. \A m, r, k \in Nat, d \in 1..3 : k \in (r + 1)..m => 3 * (k - r - 1) + d \in 1..(3 * (m - r))
          OBVIOUS
        <5> QED
          BY <2>1, <4>1, <5>1, PadNumbers, SMTT(20)
      <4>3. PICK v \in 1..Waiting : v = 3 * (n - Len(got) - 1) + c
        BY <4>2
      <4>4. ByteAt(v)' = Encode(made[n])[c]
        BY <2>1, <2>4, <4>1, <4>3
      <4>5. ByteAt(3 * (n - Len(got) - 1) + c)' = ByteAt(v)'
        BY <1>2, <4>3 DEF ByteAt
      <4> QED
        BY <1>5, <4>1, <4>4, <4>5
    <3> QED
      BY <3>1, <3>2
  <2> QED
    BY <2>2, <2>3, <2>6
<1> QED
  BY <1>6, <1>7, <1>8 DEF PadIInv

LEMMA LoseByteIInv == PadIInv /\ LoseByte => PadIInv'
<1> SUFFICES ASSUME PadIInv, LoseByte PROVE PadIInv'
  OBVIOUS
<1>1. PICK i \in DOMAIN line : line' = RemoveAt(line, i)
  BY DEF LoseByte
<1>2. lost < MaxLost /\ lost' = lost + 1 /\ MaxLost \in Nat /\ UNCHANGED <<made, padBuf, got>>
  BY Ps2Assumption DEF LoseByte
<1>3. line \in Seq(Octets) /\ Len(line) \in Nat /\ i \in 1..Len(line)
  BY PadNumbers
<1> DEFINE a == SubSeq(line, 1, i - 1)
           z == SubSeq(line, i + 1, Len(line))
<1>4. a \in Seq(Octets) /\ Len(a) = i - 1
  <2>1. 1 \in Int /\ i - 1 \in Int /\ \A j \in 1..(i - 1) : line[j] \in Octets
    BY <1>3
  <2>2. a \in Seq(Octets) /\ Len(a) = IF 1 <= i - 1 THEN (i - 1) - 1 + 1 ELSE 0
    BY <2>1, SubSeqProperties
  <2> HIDE DEF a
  <2> QED
    BY <1>3, <2>2
<1>5. z \in Seq(Octets) /\ Len(z) = Len(line) - i
  <2>1. i + 1 \in Int /\ Len(line) \in Int /\ \A j \in (i + 1)..Len(line) : line[j] \in Octets
    BY <1>3
  <2>2. z \in Seq(Octets) /\ Len(z) = IF i + 1 <= Len(line) THEN Len(line) - (i + 1) + 1 ELSE 0
    BY <2>1, SubSeqProperties
  <2> HIDE DEF z
  <2> QED
    BY <1>3, <2>2
<1> HIDE DEF a, z
<1>6. line' \in Seq(Octets) /\ Len(line') = Len(line) - 1
  <2>1. line' = a \o z
    BY <1>1 DEF RemoveAt, a, z
  <2>2. a \o z \in Seq(Octets) /\ Len(a \o z) = Len(a) + Len(z)
    BY <1>4, <1>5, ConcatProperties
  <2> QED
    BY <1>3, <1>4, <1>5, <2>1, <2>2
<1>7. lost \in Nat /\ lost' \in 0..MaxLost /\ lost' # 0
  BY <1>2, PadNumbers
<1>8. PadTypeOK'
  BY <1>2, <1>6, <1>7 DEF PadIInv, PadTypeOK, Octets
<1>9. PhaseLaw'
  <2>1. 3 * Len(made') - lost' - Len(line') = 3 * Len(made) - lost - Len(line)
    BY <1>2, <1>3, <1>6, PadNumbers, SMTT(20)
  <2> QED
    BY <1>2, <2>1 DEF PadIInv, PhaseLaw
<1>10. GestureLaw'
  BY <1>7 DEF GestureLaw
<1> QED
  BY <1>8, <1>9, <1>10 DEF PadIInv

LEMMA ByteIInv == PadIInv /\ Byte => PadIInv'
<1> SUFFICES ASSUME PadIInv, Byte PROVE PadIInv'
  OBVIOUS
<1>1. line # <<>> /\ line' = Tail(line) /\ UNCHANGED <<made, lost>>
  BY DEF Byte
<1>2. line \in Seq(Octets) /\ padBuf \in Seq(Octets) /\ Len(padBuf) \in 0..2 /\ got \in Seq(Reports)
  BY PadNumbers
<1>3. /\ line' \in Seq(Octets) /\ Len(line') = Len(line) - 1 /\ Len(line) \in Nat \ {0}
      /\ \A i \in 1..Len(line') : line'[i] = line[i + 1]
      /\ line[1] \in Octets /\ Head(line) = line[1]
  BY <1>1, <1>2
<1> DEFINE group == Append(padBuf, Head(line))
<1>4. /\ group \in Seq(Octets) /\ Len(group) = Len(padBuf) + 1
      /\ group[Len(padBuf) + 1] = line[1]
      /\ \A i \in 1..Len(padBuf) : group[i] = padBuf[i]
  BY <1>2, <1>3
<1>5. IF Len(padBuf) = 2
        THEN padBuf' = <<>> /\ got' = (IF Bit(group[1], 8) THEN Append(got, Decodifica(group)) ELSE got)
        ELSE padBuf' = group /\ got' = got
  <2>1. ByteCompletes <=> Len(padBuf) = 2
    <3>1. \A k \in 0..2 : k + 1 = 3 <=> k = 2
      OBVIOUS
    <3> QED
      BY <1>2, <3>1 DEF ByteCompletes
  <2> QED
    BY <2>1 DEF Byte, Rest
<1> HIDE DEF group
<1>6. PhaseLaw'
  <2> DEFINE x == 3 * Len(made) - lost - Len(line)
  <2>1. x \in Int /\ Len(padBuf) = x % 3 /\ 3 * Len(made') - lost' - Len(line') = x + 1
    <3>1. Len(made) \in Nat /\ lost \in Nat /\ Len(line) \in Nat /\ Len(line') = Len(line) - 1
          /\ Len(made') = Len(made) /\ lost' = lost
      BY <1>1, <1>3, PadNumbers
    <3>2. \A m, k, l \in Nat : /\ 3 * m - k - l \in Int
                               /\ 3 * m - k - (l - 1) = (3 * m - k - l) + 1
      OBVIOUS
    <3>3. 3 * Len(made') - lost' - Len(line') = x + 1 /\ x \in Int
      BY ONLY <3>1, <3>2
    <3> QED
      BY <3>3 DEF PadIInv, PhaseLaw
  <2> HIDE DEF x
  <2>2. \A y \in Int : (y + 1) % 3 = IF y % 3 = 2 THEN 0 ELSE (y % 3) + 1
    OBVIOUS
  <2>3. (x + 1) % 3 = IF Len(padBuf) = 2 THEN 0 ELSE Len(padBuf) + 1
    BY <2>1, <2>2
  <2>4. Len(padBuf') = IF Len(padBuf) = 2 THEN 0 ELSE Len(padBuf) + 1
    BY <1>4, <1>5
  <2> QED
    BY <2>1, <2>3, <2>4 DEF PhaseLaw
<1>7. PadTypeOK'
  <2>1. padBuf' \in Seq(Octets) /\ Len(padBuf') < 3
    <3>1. CASE Len(padBuf) = 2
      BY <1>5, <3>1
    <3>2. CASE Len(padBuf) # 2
      <4>1. \A k \in 0..2 : k # 2 => k + 1 < 3
        OBVIOUS
      <4>2. padBuf' = group
        BY <1>5, <3>2
      <4> QED
        BY <1>2, <1>4, <3>2, <4>1, <4>2
    <3> QED
      BY <3>1, <3>2
  <2>2. got' \in Seq(Reports)
    <3>1. CASE Len(padBuf) = 2
      <4>1. Decodifica(group) \in Reports
        BY <1>4, <3>1, ReportInRange
      <4>2. got' = Append(got, Decodifica(group)) \/ got' = got
        BY <1>5, <3>1
      <4>3. Append(got, Decodifica(group)) \in Seq(Reports)
        BY <1>2, <4>1
      <4> QED
        BY <1>2, <4>2, <4>3
    <3>2. CASE Len(padBuf) # 2
      BY <1>2, <1>5, <3>2
    <3> QED
      BY <3>1, <3>2
  <2> QED
    BY <1>1, <1>3, <2>1, <2>2 DEF PadIInv, PadTypeOK, Octets, Reports
<1>8. ASSUME lost = 0
      PROVE  /\ Len(got') <= Len(made) /\ \A i \in 1..Len(got') : got'[i] = made[i]
             /\ Waiting' = 3 * (Len(made) - Len(got'))
             /\ \A n \in (Len(got') + 1)..Len(made), c \in 1..3 :
                   ByteAt(3 * (n - Len(got) - 1) + c)' = Encode(made[n])[c]
  <2>1. /\ Len(got) <= Len(made) /\ \A i \in 1..Len(got) : got[i] = made[i]
        /\ Waiting = 3 * (Len(made) - Len(got))
        /\ \A n \in (Len(got) + 1)..Len(made), c \in 1..3 :
              ByteAt(3 * (n - Len(got) - 1) + c) = Encode(made[n])[c]
    BY <1>8 DEF PadIInv, GestureLaw
  <2>2. Waiting = Len(padBuf) + Len(line) /\ Waiting' = Len(padBuf') + (Len(line) - 1)
    BY <1>3 DEF Waiting
  <2>3. CASE Len(padBuf) # 2
    <3>1. padBuf' = group /\ got' = got /\ Len(padBuf') = Len(padBuf) + 1
      BY <1>4, <1>5, <2>3
    <3>2. Waiting' = Waiting
      BY <2>2, <3>1, PadNumbers
    <3>3. \A i \in 1..Waiting : ByteAt(i)' = ByteAt(i)
      <4> TAKE i \in 1..Waiting
      <4>1. CASE i \in 1..Len(padBuf)
        <5>1. i <= Len(padBuf) /\ i <= Len(padBuf')
          BY <3>1, <4>1, PadNumbers
        <5> QED
          BY <1>4, <3>1, <4>1, <5>1 DEF ByteAt
      <4>2. CASE i = Len(padBuf) + 1
        <5>1. ~(i <= Len(padBuf)) /\ i <= Len(padBuf') /\ i - Len(padBuf) = 1
          BY <3>1, <4>2, PadNumbers
        <5> QED
          BY <1>4, <3>1, <4>2, <5>1 DEF ByteAt
      <4>3. CASE i \notin 1..Len(padBuf) /\ i # Len(padBuf) + 1
        <5>1. /\ ~(i <= Len(padBuf)) /\ ~(i <= Len(padBuf'))
              /\ i - Len(padBuf') \in 1..Len(line') /\ (i - Len(padBuf')) + 1 = i - Len(padBuf)
          BY <1>3, <3>1, <4>3, PadNumbers
        <5>2. ByteAt(i) = line[i - Len(padBuf)] /\ ByteAt(i)' = line'[i - Len(padBuf')]
          BY <5>1 DEF ByteAt
        <5>3. line'[i - Len(padBuf')] = line[(i - Len(padBuf')) + 1]
          BY <1>3, <5>1
        <5> QED
          BY <5>1, <5>2, <5>3
      <4> QED
        BY <4>1, <4>2, <4>3
    <3>4. ASSUME NEW n \in (Len(got') + 1)..Len(made), NEW c \in 1..3
          PROVE  ByteAt(3 * (n - Len(got) - 1) + c)' = Encode(made[n])[c]
      <4>1. n \in (Len(got) + 1)..Len(made)
        BY <3>1
      <4>2. 3 * (n - Len(got) - 1) + c \in 1..Waiting
        <5>1. \A m, r, k \in Nat, d \in 1..3 : k \in (r + 1)..m => 3 * (k - r - 1) + d \in 1..(3 * (m - r))
          OBVIOUS
        <5>2. n \in Nat
          BY <4>1, PadNumbers
        <5> QED
          BY <2>1, <4>1, <5>1, <5>2, PadNumbers
      <4>3. PICK v \in 1..Waiting : v = 3 * (n - Len(got) - 1) + c
        BY <4>2
      <4>4. ByteAt(v)' = Encode(made[n])[c]
        BY <2>1, <3>3, <4>1, <4>3
      <4>5. ByteAt(3 * (n - Len(got) - 1) + c)' = ByteAt(v)'
        BY <3>1, <4>3 DEF ByteAt
      <4> QED
        BY <4>4, <4>5
    <3> QED
      BY <2>1, <3>1, <3>2, <3>4
  <2>4. CASE Len(padBuf) = 2
    <3>1. Len(got) < Len(made) /\ Len(got) + 1 \in 1..Len(made) /\ Len(got) + 1 \in (Len(got) + 1)..Len(made)
      <4>1. \A m, r, w \in Nat : w = 3 * (m - r) /\ w > 2 => r < m /\ r + 1 \in 1..m /\ r + 1 \in (r + 1)..m
        OBVIOUS
      <4>2. Waiting \in Nat /\ Waiting > 2
        BY <1>3, <2>2, <2>4, PadNumbers
      <4> QED
        BY <2>1, <4>1, <4>2, PadNumbers
    <3> DEFINE g == made[Len(got) + 1]
    <3>2. g \in Gestures
      BY <3>1, PadNumbers
    <3>3. Encode(g) \in Seq(Octets) /\ Len(Encode(g)) = 3 /\ Bit(Encode(g)[1], 8) /\ Decodifica(Encode(g)) = g
      BY <3>2, Coded, Decoded
    <3>4. \A c \in 1..3 : group[c] = Encode(g)[c]
      <4> TAKE c \in 1..3
      <4>1. 3 * ((Len(got) + 1) - Len(got) - 1) + c = c
        BY PadNumbers
      <4>2. ByteAt(c) = Encode(g)[c]
        BY <2>1, <3>1, <4>1
      <4>3. CASE c \in 1..2
        <5>1. c \in 1..Len(padBuf) /\ c <= Len(padBuf)
          BY <2>4, <4>3
        <5> QED
          BY <1>4, <4>2, <5>1 DEF ByteAt
      <4>4. CASE c = 3
        <5>1. ~(c <= Len(padBuf)) /\ c - Len(padBuf) = 1 /\ c = Len(padBuf) + 1
          BY <2>4, <4>4
        <5> QED
          BY <1>4, <4>2, <5>1 DEF ByteAt
      <4> QED
        BY <4>3, <4>4
    <3>5. group = Encode(g)
      <4>1. Len(group) = 3
        BY <1>4, <2>4
      <4> HIDE DEF g
      <4> QED
        BY <1>4, <3>3, <3>4, <4>1, SeqEqual
    <3>6. padBuf' = <<>> /\ Len(padBuf') = 0 /\ got' = Append(got, g)
      BY <1>5, <2>4, <3>3, <3>5
    <3>7. g \in Reports
      BY <1>4, <2>4, <3>3, <3>5, ReportInRange
    <3> HIDE DEF g
    <3>8. Len(got') = Len(got) + 1 /\ got'[Len(got) + 1] = g /\ \A i \in 1..Len(got) : got'[i] = got[i]
      BY <1>2, <3>6, <3>7
    <3>9. Len(got') <= Len(made) /\ \A i \in 1..Len(got') : got'[i] = made[i]
      <4>1. Len(got') <= Len(made)
        BY <3>1, <3>8, PadNumbers
      <4>2. ASSUME NEW i \in 1..Len(got') PROVE got'[i] = made[i]
        <5>1. i \in 1..Len(got) \/ i = Len(got) + 1
          BY <3>8, PadNumbers
        <5> QED
          BY <2>1, <3>8, <5>1 DEF g
      <4> QED
        BY <4>1, <4>2
    <3>10. Waiting' = 3 * (Len(made) - Len(got'))
      <4>1. \A m, r, l \in Nat : 2 + l = 3 * (m - r) => 0 + (l - 1) = 3 * (m - (r + 1))
        OBVIOUS
      <4>2. 2 + Len(line) = 3 * (Len(made) - Len(got)) /\ Waiting' = 0 + (Len(line) - 1)
        BY <2>1, <2>2, <2>4, <3>6
      <4> QED
        BY <3>8, <4>1, <4>2, PadNumbers
    <3>11. \A i \in 1..(Waiting - 3) : ByteAt(i)' = ByteAt(i + 3)
      <4> TAKE i \in 1..(Waiting - 3)
      <4>1. /\ ~(i + 3 <= Len(padBuf)) /\ ~(i <= Len(padBuf')) /\ i - Len(padBuf') = i
            /\ i \in 1..Len(line') /\ (i + 3) - Len(padBuf) = i + 1
        BY <1>3, <2>2, <2>4, <3>6, PadNumbers
      <4>2. ByteAt(i)' = line'[i] /\ ByteAt(i + 3) = line[i + 1]
        BY <4>1 DEF ByteAt
      <4> QED
        BY <1>3, <4>1, <4>2
    <3>12. ASSUME NEW n \in (Len(got') + 1)..Len(made), NEW c \in 1..3
           PROVE  ByteAt(3 * (n - Len(got) - 1) + c)' = Encode(made[n])[c]
      <4>1. n \in (Len(got) + 1)..Len(made)
        BY <3>8, PadNumbers
      <4>2. PICK v : v = 3 * (n - Len(got') - 1) + c
        OBVIOUS
      <4>3. v \in 1..(Waiting - 3) /\ v + 3 = 3 * (n - Len(got) - 1) + c
        <5>1. \A m, r, k \in Nat, d \in 1..3 :
                k \in (r + 2)..m => /\ 3 * (k - (r + 1) - 1) + d \in 1..(3 * (m - r) - 3)
                                    /\ (3 * (k - (r + 1) - 1) + d) + 3 = 3 * (k - r - 1) + d
          OBVIOUS
        <5>2. n \in Nat /\ n \in (Len(got) + 2)..Len(made)
          BY <3>8, PadNumbers
        <5> QED
          BY <2>1, <3>8, <4>2, <5>1, <5>2, PadNumbers, SMTT(20)
      <4>4. ByteAt(v)' = ByteAt(v + 3)
        BY <3>11, <4>3
      <4>5. ByteAt(v + 3) = Encode(made[n])[c]
        BY <2>1, <4>1, <4>3
      <4>6. ByteAt(3 * (n - Len(got) - 1) + c)' = ByteAt(v)'
        BY <4>2 DEF ByteAt
      <4> QED
        BY <4>4, <4>5, <4>6
    <3> QED
      BY <3>9, <3>10, <3>12
  <2> QED
    BY <2>3, <2>4
<1>9. GestureLaw'
  <2> SUFFICES ASSUME lost = 0
      PROVE  /\ Len(got') <= Len(made') /\ \A i \in 1..Len(got') : got'[i] = made'[i]
             /\ Waiting' = 3 * (Len(made') - Len(got'))
             /\ \A n \in (Len(got') + 1)..Len(made'), c \in 1..3 :
                   ByteAt(3 * (n - Len(got) - 1) + c)' = Encode(made'[n])[c]
    BY <1>1 DEF GestureLaw
  <2> QED
    BY <1>1, <1>8
<1> QED
  BY <1>6, <1>7, <1>9 DEF PadIInv

LEMMA PadNextIInv == PadIInv /\ [PadNext]_padVars => PadIInv'
<1> SUFFICES ASSUME PadIInv, [PadNext]_padVars PROVE PadIInv'
  OBVIOUS
<1>1. CASE UNCHANGED padVars
  <2>1. UNCHANGED <<made, line, padBuf, got, lost>>
    BY <1>1 DEF padVars
  <2>2. \A i : ByteAt(i)' = ByteAt(i)
    BY <2>1 DEF ByteAt
  <2> QED
    BY <2>1, <2>2 DEF PadIInv, PadTypeOK, GestureLaw, PhaseLaw, Waiting, ByteAt
<1> QED
  BY <1>1, MakeGestureIInv, LoseByteIInv, ByteIInv DEF PadNext

LEMMA PadSafe == PadIInv => PadTypeOK /\ GesturesComeOut
<1> SUFFICES ASSUME PadIInv PROVE GesturesComeOut
  BY DEF PadIInv
<1>1. Len(padBuf) = (3 * Len(made) - lost - Len(line)) % 3
  BY DEF PadIInv, PhaseLaw
<1>2. ASSUME lost = 0 PROVE IsPrefix(got, made) /\ (line = <<>> => got = made)
  <2>1. /\ Len(got) <= Len(made) /\ \A i \in 1..Len(got) : got[i] = made[i]
        /\ Waiting = 3 * (Len(made) - Len(got))
    BY <1>2 DEF PadIInv, GestureLaw
  <2>2. got \in Seq(Reports) /\ made \in Seq(Gestures) /\ Len(got) \in Nat /\ Len(made) \in Nat
    BY PadNumbers
  <2>3. SubSeq(got, 1, Len(got)) = SubSeq(made, 1, Len(got))
    <3>1. Len(got) \in 0..Len(made) /\ Len(got) \in 0..Len(got)
      BY <2>1, <2>2
    <3>2. SubSeq(made, 1, Len(got)) = Restrict(made, 1..Len(got))
      BY <2>2, <3>1, SubSeqRestrict
    <3>3. SubSeq(got, 1, Len(got)) = Restrict(got, 1..Len(got))
      BY <2>2, <3>1, SubSeqRestrict
    <3> QED
      BY <2>1, <3>2, <3>3 DEF Restrict
  <2>4. line = <<>> => got = made
    <3> SUFFICES ASSUME line = <<>> PROVE got = made
      OBVIOUS
    <3>1. Waiting \in 0..2
      <4>1. Len(line) = 0
        OBVIOUS
      <4> QED
        BY <4>1, PadNumbers
    <3>2. Len(got) = Len(made)
      <4>1. \A m, r \in Nat, w \in 0..2 : w = 3 * (m - r) => r = m
        OBVIOUS
      <4> QED
        BY <2>1, <2>2, <3>1, <4>1
    <3>3. got = [i \in 1..Len(got) |-> got[i]] /\ made = [i \in 1..Len(made) |-> made[i]]
      BY <2>2
    <3> QED
      BY <2>1, <3>2, <3>3
  <2> QED
    BY <2>1, <2>3, <2>4 DEF IsPrefix
<1> QED
  BY <1>1, <1>2 DEF GesturesComeOut
-----------------------------------------------------------------------------
(* SerialLine.  As long as the UART has lost nothing, what flows to the    *)
(* reader (the FIFO, then what the host has still to send) is a chain: a   *)
(* byte of a line is followed by the next of the same line or by its end.  *)
(* So the line being read is a stretch of one line, and the flow goes on   *)
(* from it for as long as it is open.                                      *)
Wire == Nat \X Nat

Flow == Len(fifo) + Len(todo)
FlowAt(i) == IF i <= Len(fifo) THEN fifo[i] ELSE todo[i - Len(fifo)]

After(n, i) == IF i < sent[n] THEN <<n, i + 1>> ELSE <<n, 0>>

Stretch(s, n, j) == j + Len(s) <= sent[n] /\ \A i \in 1..Len(s) : s[i] = <<n, j + i>>

LineTypes == /\ fifo \in Seq(Wire) /\ todo \in Seq(Wire) /\ buf \in Seq(Wire)
             /\ sent \in Seq(Lengths) /\ executed \in Seq(Seq(Wire)) /\ manner \in Manners
             /\ \A i \in 1..Len(todo) : SentByte(todo[i])
             /\ LineTypeOK

ChainLaw == ~overrun =>
  \A i \in 1..Flow : ~IsEnd(FlowAt(i)) =>
     i < Flow /\ FlowAt(i + 1) = After(FlowAt(i)[1], FlowAt(i)[2])

BufLaw == ~overrun =>
  /\ ~hasLine /\ buf # <<>> =>
        \E n \in 1..Len(sent), j \in Nat :
           /\ Stretch(buf, n, j)
           /\ Len(buf) < LineCap => Flow > 0 /\ FlowAt(1) = After(n, j + Len(buf))
  /\ hasLine => \E n \in 1..Len(sent) : Len(buf) <= sent[n] /\ IsTailOf(buf, n)

DoneLaw == ~overrun =>
  \A i \in 1..Len(executed) :
     \E n \in 1..Len(sent) : Len(executed[i]) <= sent[n] /\ IsTailOf(executed[i], n)

(* The host that waits: every line but the last has been executed whole,   *)
(* and the last is in the reader and the flow, whole, unless the reader is *)
(* full, and then it stays so.                                             *)
PatientLaw == Patient /\ ~overrun =>
  /\ Len(executed) <= Len(sent) /\ Len(sent) <= Len(executed) + 1
  /\ \A i \in 1..Len(executed) : executed[i] = Whole(i)
  /\ \A i \in 1..Len(sent) : i < Len(sent) => sent[i] # 0
  /\ Len(executed) = Len(sent) => Flow = 0 /\ buf = <<>> /\ ~hasLine
  /\ Len(executed) < Len(sent) =>
        /\ Stretch(buf, Len(sent), 0)
        /\ hasLine => Len(buf) = sent[Len(sent)] /\ Flow = 0
        /\ ~hasLine /\ Len(buf) < LineCap =>
              /\ Flow = sent[Len(sent)] + 1 - Len(buf)
              /\ \A i \in 1..Flow : FlowAt(i) = After(Len(sent), i + Len(buf) - 1)

LineIInv == LineTypes /\ ChainLaw /\ BufLaw /\ DoneLaw /\ PatientLaw

LEMMA LineNumbers ==
  LineTypes =>
    /\ Len(fifo) \in Nat /\ Len(todo) \in Nat /\ Len(buf) \in Nat /\ Len(sent) \in Nat
    /\ Len(executed) \in Nat /\ Flow \in Nat /\ Flow = Len(fifo) + Len(todo)
    /\ LineCap \in Nat \ {0} /\ MaxDrain \in Nat \ {0} /\ FifoSize \in Nat \ {0}
    /\ \A n \in 1..Len(sent) : sent[n] \in Nat
<1> SUFFICES ASSUME LineTypes
             PROVE  /\ Len(fifo) \in Nat /\ Len(todo) \in Nat /\ Len(buf) \in Nat /\ Len(sent) \in Nat
                    /\ Len(executed) \in Nat /\ Flow \in Nat /\ Flow = Len(fifo) + Len(todo)
                    /\ LineCap \in Nat \ {0} /\ MaxDrain \in Nat \ {0} /\ FifoSize \in Nat \ {0}
                    /\ \A n \in 1..Len(sent) : sent[n] \in Nat
  OBVIOUS
<1>1. fifo \in Seq(Wire) /\ todo \in Seq(Wire) /\ buf \in Seq(Wire) /\ sent \in Seq(Lengths)
      /\ executed \in Seq(Seq(Wire))
  BY DEF LineTypes
<1>2. Len(fifo) \in Nat /\ Len(todo) \in Nat /\ Len(buf) \in Nat /\ Len(sent) \in Nat /\ Len(executed) \in Nat
  BY <1>1
<1>3. \A n \in 1..Len(sent) : sent[n] \in Nat
  BY SerialAssumption DEF LineTypes, LineTypeOK
<1> QED
  BY <1>2, <1>3, SerialAssumption DEF Flow

(* Every byte that flows belongs to a line that was begun. *)
LEMMA FlowIsSent ==
  LineTypes => \A i \in 1..Flow : FlowAt(i) \in Wire /\ SentByte(FlowAt(i))
<1> SUFFICES ASSUME LineTypes, NEW i \in 1..Flow PROVE FlowAt(i) \in Wire /\ SentByte(FlowAt(i))
  OBVIOUS
<1>1. CASE i <= Len(fifo)
  <2>1. i \in 1..Len(fifo)
    BY <1>1, LineNumbers
  <2> QED
    BY <1>1, <2>1 DEF FlowAt, LineTypes, LineTypeOK
<1>2. CASE ~(i <= Len(fifo))
  <2>1. i - Len(fifo) \in 1..Len(todo)
    BY <1>2, LineNumbers
  <2> QED
    BY <1>2, <2>1 DEF FlowAt, LineTypes
<1> QED
  BY <1>1, <1>2

LEMMA LineInitIInv == LineInit => LineIInv
<1> SUFFICES ASSUME LineInit PROVE LineIInv
  OBVIOUS
<1>1. /\ fifo = <<>> /\ buf = <<>> /\ todo = <<>> /\ sent = <<>> /\ executed = <<>>
      /\ hasLine = FALSE /\ due = FALSE /\ ticked = FALSE /\ overrun = FALSE
      /\ linePc = "round" /\ left = 0 /\ manner \in Manners
  BY DEF LineInit
<1>2. /\ Len(fifo) = 0 /\ Len(buf) = 0 /\ Len(todo) = 0 /\ Len(sent) = 0 /\ Len(executed) = 0
      /\ fifo \in Seq(Wire) /\ buf \in Seq(Wire) /\ todo \in Seq(Wire) /\ sent \in Seq(Lengths)
      /\ executed \in Seq(Seq(Wire)) /\ 1..0 = {}
  BY <1>1
<1>3. Flow = 0
  BY <1>2 DEF Flow
<1>4. LineTypes
  <2>1. /\ hasLine \in BOOLEAN /\ due \in BOOLEAN /\ ticked \in BOOLEAN /\ overrun \in BOOLEAN
        /\ linePc \in {"round", "drain", "work"}
    BY <1>1
  <2>2. left \in 0..MaxDrain /\ Len(fifo) <= FifoSize /\ Len(buf) <= LineCap
    BY <1>1, <1>2, SerialAssumption
  <2>3. LineTypeOK
    BY <1>2, <2>1, <2>2 DEF LineTypeOK
  <2> QED
    BY <1>1, <1>2, <2>3 DEF LineTypes
<1>5. ChainLaw /\ BufLaw /\ DoneLaw
  BY <1>1, <1>2, <1>3 DEF ChainLaw, BufLaw, DoneLaw
<1>6. PatientLaw
  BY <1>1, <1>2, <1>3 DEF PatientLaw
<1> QED
  BY <1>4, <1>5, <1>6 DEF LineIInv

(* The steps that touch neither the bytes nor the lines. *)
LEMMA LineRests ==
  ASSUME LineIInv,
         UNCHANGED <<fifo, buf, hasLine, manner, sent, todo, overrun, executed>>,
         linePc' \in {"round", "drain", "work"}, left' \in 0..MaxDrain,
         due' \in BOOLEAN, ticked' \in BOOLEAN
  PROVE  LineIInv'
<1>1. Flow' = Flow /\ (\A i : FlowAt(i)' = FlowAt(i)) /\ (\A n, i : After(n, i)' = After(n, i))
  BY DEF Flow, FlowAt, After
<1>2. LineTypes'
  BY DEF LineIInv, LineTypes, LineTypeOK, SentByte, IsEnd
<1>3. ChainLaw'
  BY DEF LineIInv, ChainLaw, FlowAt, Flow, After, IsEnd
<1>4. BufLaw'
  BY DEF LineIInv, BufLaw, FlowAt, Flow, After, Stretch, IsTailOf
<1>5. DoneLaw'
  BY SMTT(20) DEF LineIInv, DoneLaw, IsTailOf
<1>6. PatientLaw'
  BY DEF LineIInv, PatientLaw, FlowAt, Flow, After, Stretch, Patient, Whole
<1> QED
  BY <1>2, <1>3, <1>4, <1>5, <1>6 DEF LineIInv

(* A line executed: the reader is empty again. *)
LEMMA WorkIInv == LineIInv /\ Work => LineIInv'
<1> SUFFICES ASSUME LineIInv, Work PROVE LineIInv'
  OBVIOUS
<1>1. /\ linePc' = "round" /\ Execute
      /\ UNCHANGED <<fifo, left, due, ticked, manner, sent, todo, overrun>>
  BY DEF Work, clock, host
<1>2. LineTypes
  BY DEF LineIInv
<1>3. CASE ~hasLine
  <2>1. UNCHANGED <<executed, buf, hasLine>>
    BY <1>1, <1>3 DEF Execute
  <2>2. left' \in 0..MaxDrain /\ due' \in BOOLEAN /\ ticked' \in BOOLEAN
    BY <1>1, <1>2 DEF LineTypes, LineTypeOK
  <2> QED
    BY <1>1, <2>1, <2>2, LineRests
<1>4. CASE hasLine
  <2>1. executed' = Append(executed, buf) /\ buf' = <<>> /\ hasLine' = FALSE
    BY <1>1, <1>4 DEF Execute, Consume
  <2>2. executed \in Seq(Seq(Wire)) /\ buf \in Seq(Wire) /\ Len(executed) \in Nat /\ Len(buf) <= LineCap
    BY <1>2, LineNumbers DEF LineTypes, LineTypeOK
  <2>3. /\ executed' \in Seq(Seq(Wire)) /\ Len(executed') = Len(executed) + 1
        /\ executed'[Len(executed) + 1] = buf
        /\ \A i \in 1..Len(executed) : executed'[i] = executed[i]
    BY <2>1, <2>2
  <2>4. Len(buf') = 0 /\ buf' \in Seq(Wire) /\ 1..0 = {}
    BY <2>1
  <2>5. \A i \in 1..Len(executed') : i \in 1..Len(executed) \/ i = Len(executed) + 1
    BY <2>2, <2>3
  <2>6. LineTypes'
    <3>1. \A i \in 1..Len(executed') : Len(executed'[i]) <= LineCap
      BY <1>2, <2>2, <2>3, <2>5 DEF LineTypes, LineTypeOK
    <3>2. Len(buf') <= LineCap /\ (\A i \in 1..Len(buf) : SentByte(buf[i]) /\ ~IsEnd(buf[i]))'
      BY <2>4, SerialAssumption
    <3>3. /\ (\A i \in 1..Len(fifo) : SentByte(fifo[i]))'
          /\ (\A i \in 1..Len(todo) : SentByte(todo[i]))'
          /\ Len(fifo') <= FifoSize /\ \A i \in 1..Len(sent') : sent'[i] \in Lengths
      BY <1>1, <1>2 DEF LineTypes, LineTypeOK, SentByte
    <3>4. /\ hasLine' \in BOOLEAN /\ due' \in BOOLEAN /\ ticked' \in BOOLEAN /\ overrun' \in BOOLEAN
          /\ linePc' \in {"round", "drain", "work"} /\ left' \in 0..MaxDrain
      BY <1>1, <1>2, <2>1 DEF LineTypes, LineTypeOK
    <3>5. LineTypeOK'
      BY <3>1, <3>2, <3>3, <3>4 DEF LineTypeOK
    <3> QED
      BY <1>1, <1>2, <2>3, <2>4, <3>3, <3>5 DEF LineTypes
  <2>7. ChainLaw'
    BY <1>1 DEF LineIInv, ChainLaw, FlowAt, Flow, After, IsEnd
  <2>8. BufLaw'
    BY <2>1 DEF BufLaw
  <2>9. DoneLaw'
    <3> SUFFICES ASSUME ~overrun, NEW i \in 1..Len(executed')
                 PROVE  \E n \in 1..Len(sent) : Len(executed'[i]) <= sent[n] /\ IsTailOf(executed'[i], n)
      BY <1>1 DEF DoneLaw, IsTailOf
    <3>1. CASE i \in 1..Len(executed)
      BY <2>3, <3>1 DEF LineIInv, DoneLaw
    <3>2. CASE i = Len(executed) + 1
      BY <1>4, <2>3, <3>2 DEF LineIInv, BufLaw
    <3> QED
      BY <2>5, <3>1, <3>2
  <2>10. PatientLaw'
    <3> SUFFICES ASSUME Patient, ~overrun
        PROVE  /\ Len(executed') = Len(sent) /\ \A i \in 1..Len(executed') : executed'[i] = Whole(i)
               /\ \A i \in 1..Len(sent) : i < Len(sent) => sent[i] # 0
               /\ Flow = 0
      <4>1. Flow' = Flow /\ Len(sent') = Len(sent) /\ (Patient' <=> Patient)
        BY <1>1 DEF Flow, Patient
      <4>2. \A i : Whole(i)' = Whole(i)
        BY <1>1 DEF Whole
      <4>3. Len(executed') \in Nat
        BY <2>2, <2>3
      <4>4. \A l, k \in Nat : k = l => k <= l /\ l <= k + 1 /\ ~(k < l)
        OBVIOUS
      <4> QED
        BY <1>1, <1>2, <2>1, <4>1, <4>2, <4>3, <4>4, LineNumbers DEF PatientLaw
    <3>1. /\ Len(executed) <= Len(sent) /\ Len(sent) <= Len(executed) + 1
          /\ Len(executed) # Len(sent)
          /\ \A i \in 1..Len(executed) : executed[i] = Whole(i)
          /\ \A i \in 1..Len(sent) : i < Len(sent) => sent[i] # 0
      BY <1>4 DEF LineIInv, PatientLaw
    <3>2. Len(sent) = Len(executed) + 1 /\ Len(executed) < Len(sent)
      BY <1>2, <3>1, LineNumbers
    <3>3. Stretch(buf, Len(sent), 0) /\ Len(buf) = sent[Len(sent)] /\ Flow = 0
      BY <1>4, <3>2 DEF LineIInv, PatientLaw
    <3>4. buf = Whole(Len(sent))
      <4>1. buf = [i \in 1..Len(buf) |-> buf[i]]
        BY <2>2
      <4>2. \A i \in 1..Len(buf) : buf[i] = <<Len(sent), i>>
        <5>1. \A i \in 1..Len(buf) : 0 + i = i
          BY <2>2
        <5> QED
          BY <3>3, <5>1 DEF Stretch
      <4> QED
        BY <3>3, <4>1, <4>2 DEF Whole
    <3> QED
      BY <2>3, <2>5, <3>1, <3>2, <3>3, <3>4
  <2> QED
    BY <2>6, <2>7, <2>8, <2>9, <2>10 DEF LineIInv
<1> QED
  BY <1>3, <1>4

(* A byte taken from the FIFO. *)
LEMMA Flowed ==
  ASSUME LineTypes, fifo # <<>>, fifo' = Tail(fifo), todo' = todo
  PROVE  /\ fifo' \in Seq(Wire) /\ Len(fifo') = Len(fifo) - 1 /\ Head(fifo) = fifo[1]
         /\ \A i \in 1..Len(fifo') : fifo'[i] = fifo[i + 1] /\ i + 1 \in 1..Len(fifo)
         /\ Flow \in Nat \ {0} /\ Flow' = Flow - 1 /\ Head(fifo) = FlowAt(1)
         /\ \A i \in 1..Flow' : FlowAt(i)' = FlowAt(i + 1) /\ i + 1 \in 1..Flow
<1>1. fifo \in Seq(Wire)
  BY DEF LineTypes
<1>2. /\ fifo' \in Seq(Wire) /\ Len(fifo') = Len(fifo) - 1 /\ Head(fifo) = fifo[1] /\ Len(fifo) \in Nat \ {0}
      /\ \A i \in 1..Len(fifo') : fifo'[i] = fifo[i + 1] /\ i + 1 \in 1..Len(fifo)
  BY <1>1
<1>3. Flow \in Nat \ {0} /\ Flow' = Flow - 1 /\ Head(fifo) = FlowAt(1)
  BY <1>2, LineNumbers DEF Flow, FlowAt
<1>4. ASSUME NEW i \in 1..Flow' PROVE FlowAt(i)' = FlowAt(i + 1) /\ i + 1 \in 1..Flow
  <2>1. i + 1 \in 1..Flow
    BY <1>3
  <2>2. CASE i \in 1..Len(fifo')
    <3>1. i <= Len(fifo') /\ i + 1 <= Len(fifo)
      BY <1>2, <2>2
    <3> QED
      BY <1>2, <2>1, <2>2, <3>1 DEF FlowAt
  <2>3. CASE i \notin 1..Len(fifo')
    <3>1. ~(i <= Len(fifo')) /\ ~(i + 1 <= Len(fifo)) /\ i - Len(fifo') = (i + 1) - Len(fifo)
      BY <1>2, <1>3, <2>3
    <3> QED
      BY <2>1, <3>1 DEF FlowAt
  <2> QED
    BY <2>2, <2>3
<1> QED
  BY <1>2, <1>3, <1>4

(* What the reader does with a byte, and what it leaves of the rest. *)
LEMMA Drained1 ==
  ASSUME LineIInv, Drain, NEW b, b = FlowAt(1)
  PROVE  /\ LineTypes /\ fifo # <<>> /\ fifo' = Tail(fifo)
         /\ UNCHANGED <<linePc, due, ticked, manner, sent, todo, overrun, executed>>
         /\ left' \in 0..MaxDrain
         /\ b \in Wire /\ SentByte(b) /\ b = <<b[1], b[2]>> /\ b[1] \in 1..Len(sent) /\ b[2] \in Nat
         /\ \/ (hasLine \/ Len(buf) >= LineCap) /\ UNCHANGED <<buf, hasLine>>
            \/ ~hasLine /\ Len(buf) < LineCap /\ IsEnd(b) /\ hasLine' = TRUE /\ buf' = buf
            \/ ~hasLine /\ Len(buf) < LineCap /\ ~IsEnd(b) /\ hasLine' = FALSE /\ buf' = Append(buf, b)
<1>1. /\ fifo # <<>> /\ fifo' = Tail(fifo) /\ Push(Head(fifo)) /\ left > 0 /\ left' = left - 1
      /\ UNCHANGED <<linePc, due, ticked, manner, sent, todo, overrun, executed>>
  BY DEF Drain, clock, host
<1>2. LineTypes
  BY DEF LineIInv
<1>3. Head(fifo) = b /\ Flow \in Nat \ {0}
  BY <1>1, <1>2, Flowed
<1>4. b \in Wire /\ SentByte(b)
  <2>1. 1 \in 1..Flow
    BY <1>3
  <2> QED
    BY <1>2, <2>1, FlowIsSent
<1>5. b = <<b[1], b[2]>> /\ b[1] \in 1..Len(sent) /\ b[2] \in Nat
  BY <1>4 DEF Wire, SentByte
<1>6. left' \in 0..MaxDrain
  <2>1. left \in 0..MaxDrain /\ MaxDrain \in Nat
    BY <1>2, LineNumbers DEF LineTypes, LineTypeOK
  <2> QED
    BY <1>1, <2>1
<1>7. \/ (hasLine \/ Len(buf) >= LineCap) /\ UNCHANGED <<buf, hasLine>>
      \/ ~hasLine /\ Len(buf) < LineCap /\ IsEnd(b) /\ hasLine' = TRUE /\ buf' = buf
      \/ ~hasLine /\ Len(buf) < LineCap /\ ~IsEnd(b) /\ hasLine' = FALSE /\ buf' = Append(buf, b)
  <2>1. Push(b) /\ hasLine \in BOOLEAN
    BY <1>1, <1>2, <1>3 DEF LineTypes, LineTypeOK
  <2>2. Len(buf) >= LineCap \/ Len(buf) < LineCap
    BY <1>2, LineNumbers
  <2>3. CASE hasLine \/ Len(buf) >= LineCap
    BY <2>1, <2>3 DEF Push
  <2>4. CASE ~(hasLine \/ Len(buf) >= LineCap)
    BY <2>1, <2>2, <2>4 DEF Push
  <2> QED
    BY <2>3, <2>4
<1> QED
  BY <1>1, <1>2, <1>4, <1>5, <1>6, <1>7

(* A byte more in the reader. *)
LEMMA Appended ==
  ASSUME LineTypes, NEW b \in Wire, buf' = Append(buf, b)
  PROVE  /\ buf' \in Seq(Wire) /\ Len(buf') = Len(buf) + 1 /\ buf'[Len(buf) + 1] = b
         /\ \A i \in 1..Len(buf) : buf'[i] = buf[i]
         /\ \A i \in 1..Len(buf') : i \in 1..Len(buf) \/ i = Len(buf) + 1
<1>1. buf \in Seq(Wire) /\ Len(buf) \in Nat
  BY LineNumbers DEF LineTypes
<1>2. /\ buf' \in Seq(Wire) /\ Len(buf') = Len(buf) + 1 /\ buf'[Len(buf) + 1] = b
      /\ \A i \in 1..Len(buf) : buf'[i] = buf[i]
  BY <1>1
<1>3. \A i \in 1..Len(buf') : i \in 1..Len(buf) \/ i = Len(buf) + 1
  BY <1>1, <1>2
<1> QED
  BY <1>2, <1>3

(* The byte that lengthens a stretch. *)
LEMMA Stretched ==
  ASSUME LineTypes, NEW b \in Wire, buf' = Append(buf, b), sent' = sent,
         NEW n \in 1..Len(sent), NEW j \in Nat,
         j + Len(buf) < sent[n], b = <<n, j + Len(buf) + 1>>,
         \A i \in 1..Len(buf) : buf[i] = <<n, j + i>>
  PROVE  Stretch(buf, n, j)'
<1>1. /\ Len(buf') = Len(buf) + 1 /\ buf'[Len(buf) + 1] = b
      /\ \A i \in 1..Len(buf) : buf'[i] = buf[i]
      /\ \A i \in 1..Len(buf') : i \in 1..Len(buf) \/ i = Len(buf) + 1
  BY Appended
<1>2. Len(buf) \in Nat /\ sent[n] \in Nat
  BY LineNumbers
<1>3. j + Len(buf') <= sent'[n]
  BY <1>1, <1>2
<1>4. ASSUME NEW i \in 1..Len(buf') PROVE buf'[i] = <<n, j + i>>
  <2>1. CASE i \in 1..Len(buf)
    BY <1>1, <2>1
  <2>2. CASE i = Len(buf) + 1
    <3>1. j + Len(buf) + 1 = j + i
      BY <1>2, <2>2
    <3> QED
      BY <1>1, <2>2, <3>1
  <2> QED
    BY <1>1, <2>1, <2>2
<1> QED
  BY <1>3, <1>4 DEF Stretch

LEMMA TakeByteIInv == LineIInv /\ Drain => LineIInv'
<1> SUFFICES ASSUME LineIInv, Drain PROVE LineIInv'
  OBVIOUS
<1> DEFINE b == FlowAt(1)
<1>1. /\ LineTypes /\ fifo # <<>> /\ fifo' = Tail(fifo)
      /\ UNCHANGED <<linePc, due, ticked, manner, sent, todo, overrun, executed>>
      /\ left' \in 0..MaxDrain
      /\ b \in Wire /\ SentByte(b) /\ b = <<b[1], b[2]>> /\ b[1] \in 1..Len(sent) /\ b[2] \in Nat
  BY Drained1
<1>2. \/ (hasLine \/ Len(buf) >= LineCap) /\ UNCHANGED <<buf, hasLine>>
      \/ ~hasLine /\ Len(buf) < LineCap /\ IsEnd(b) /\ hasLine' = TRUE /\ buf' = buf
      \/ ~hasLine /\ Len(buf) < LineCap /\ ~IsEnd(b) /\ hasLine' = FALSE /\ buf' = Append(buf, b)
  BY Drained1
<1> DEFINE A == (hasLine \/ Len(buf) >= LineCap) /\ UNCHANGED <<buf, hasLine>>
           B == ~hasLine /\ Len(buf) < LineCap /\ IsEnd(b) /\ hasLine' = TRUE /\ buf' = buf
           C == ~hasLine /\ Len(buf) < LineCap /\ ~IsEnd(b) /\ hasLine' = FALSE /\ buf' = Append(buf, b)
<1>3. /\ fifo' \in Seq(Wire) /\ Len(fifo') = Len(fifo) - 1
      /\ \A i \in 1..Len(fifo') : fifo'[i] = fifo[i + 1] /\ i + 1 \in 1..Len(fifo)
      /\ Flow \in Nat \ {0} /\ Flow' = Flow - 1
      /\ \A i \in 1..Flow' : FlowAt(i)' = FlowAt(i + 1) /\ i + 1 \in 1..Flow
  BY <1>1, Flowed
<1>4. \A n, i : After(n, i)' = After(n, i)
  BY <1>1 DEF After
<1>5. LineTypes'
  <2>1. buf' \in Seq(Wire) /\ Len(buf') <= LineCap /\ (\A i \in 1..Len(buf) : SentByte(buf[i]) /\ ~IsEnd(buf[i]))'
    <3>1. /\ buf \in Seq(Wire) /\ Len(buf) <= LineCap
          /\ \A i \in 1..Len(buf) : SentByte(buf[i]) /\ ~IsEnd(buf[i])
      BY <1>1 DEF LineTypes, LineTypeOK
    <3>2. CASE buf' = buf
      BY <1>1, <3>1, <3>2 DEF SentByte, IsEnd
    <3>3. CASE C
      <4>1. /\ buf' \in Seq(Wire) /\ Len(buf') = Len(buf) + 1 /\ buf'[Len(buf) + 1] = b
            /\ \A i \in 1..Len(buf) : buf'[i] = buf[i]
            /\ \A i \in 1..Len(buf') : i \in 1..Len(buf) \/ i = Len(buf) + 1
        BY <1>1, <3>3, Appended
      <4>2. Len(buf') <= LineCap
        BY <1>1, <3>3, <4>1, LineNumbers
      <4>3. ASSUME NEW i \in 1..Len(buf') PROVE SentByte(buf[i])' /\ ~IsEnd(buf'[i])
        <5>1. SentByte(buf'[i]) /\ ~IsEnd(buf'[i])
          BY <3>1, <3>3, <4>1, <1>1
        <5> QED
          BY <1>1, <5>1 DEF SentByte
      <4> QED
        BY <4>1, <4>2, <4>3 DEF IsEnd
    <3> QED
      BY <1>2, <3>2, <3>3
  <2>2. Len(fifo') <= FifoSize /\ (\A i \in 1..Len(fifo) : SentByte(fifo[i]))'
    <3>1. Len(fifo') <= FifoSize
      <4>1. Len(fifo) <= FifoSize
        BY <1>1 DEF LineTypes, LineTypeOK
      <4> QED
        BY <1>1, <1>3, <4>1, LineNumbers
    <3>2. \A i \in 1..Len(fifo') : SentByte(fifo'[i])
      BY <1>1, <1>3 DEF LineTypes, LineTypeOK
    <3> QED
      BY <1>1, <3>1, <3>2 DEF SentByte
  <2>3. /\ (\A i \in 1..Len(todo) : SentByte(todo[i]))'
        /\ \A i \in 1..Len(sent') : sent'[i] \in Lengths
        /\ \A i \in 1..Len(executed') : Len(executed'[i]) <= LineCap
    BY <1>1 DEF LineTypes, LineTypeOK, SentByte
  <2>4. hasLine' \in BOOLEAN
    BY <1>1, <1>2 DEF LineTypes, LineTypeOK
  <2>5. /\ due' \in BOOLEAN /\ ticked' \in BOOLEAN /\ overrun' \in BOOLEAN
        /\ linePc' \in {"round", "drain", "work"} /\ left' \in 0..MaxDrain
    BY <1>1 DEF LineTypes, LineTypeOK
  <2>6. LineTypeOK'
    BY <2>1, <2>2, <2>3, <2>4, <2>5 DEF LineTypeOK
  <2> QED
    BY <1>1, <1>3, <2>1, <2>3, <2>6 DEF LineTypes
<1>6. ChainLaw'
  <2> SUFFICES ASSUME ~overrun, NEW i \in 1..Flow', ~IsEnd(FlowAt(i)')
               PROVE  i < Flow' /\ FlowAt(i + 1)' = After(FlowAt(i)'[1], FlowAt(i)'[2])
    BY <1>1, <1>4 DEF ChainLaw, IsEnd, After
  <2>1. FlowAt(i)' = FlowAt(i + 1) /\ i + 1 \in 1..Flow
    BY <1>3
  <2>2. i + 1 < Flow /\ FlowAt((i + 1) + 1) = After(FlowAt(i + 1)[1], FlowAt(i + 1)[2])
    BY <2>1 DEF LineIInv, ChainLaw
  <2>3. i < Flow' /\ i + 1 \in 1..Flow'
    BY <1>3, <2>2
  <2>4. FlowAt(i + 1)' = FlowAt((i + 1) + 1)
    BY <1>3, <2>3
  <2> QED
    BY <2>1, <2>2, <2>3, <2>4
<1>7. DoneLaw'
  BY <1>1 DEF LineIInv, DoneLaw, IsTailOf
<1>8. Len(buf) \in Nat /\ Len(sent) \in Nat /\ LineCap \in Nat \ {0} /\ \A n \in 1..Len(sent) : sent[n] \in Nat
  BY <1>1, LineNumbers
<1>9. ASSUME IsEnd(b), NEW n \in 1..Len(sent), NEW j \in Nat, b = After(n, j), j <= sent[n]
      PROVE  j = sent[n]
  <2>1. ~(j < sent[n])
    <3>1. j < sent[n] => b[2] = j + 1
      BY <1>9 DEF After
    <3> QED
      BY <1>9, <3>1 DEF IsEnd
  <2> QED
    BY <1>8, <1>9, <2>1
<1>10. ASSUME ~IsEnd(b), NEW n \in 1..Len(sent), NEW j \in Nat, b = After(n, j)
       PROVE  j < sent[n] /\ b = <<n, j + 1>>
  <2>1. ~(j < sent[n]) => b[2] = 0
    BY <1>10 DEF After
  <2> QED
    BY <1>10, <2>1 DEF After, IsEnd
<1> HIDE DEF b
<1>11. BufLaw'
  <2> SUFFICES ASSUME ~overrun
      PROVE  /\ ~hasLine' /\ buf' # <<>> =>
                   \E n \in 1..Len(sent), j \in Nat :
                      /\ Stretch(buf, n, j)'
                      /\ Len(buf') < LineCap => Flow' > 0 /\ FlowAt(1)' = After(n, j + Len(buf'))
             /\ hasLine' => \E n \in 1..Len(sent) : Len(buf') <= sent[n] /\ IsTailOf(buf, n)'
    <3>1. \A n, j : After(n, j + Len(buf))' = After(n, j + Len(buf'))
      BY <1>1 DEF After
    <3> QED
      BY <1>1, <3>1 DEF BufLaw, After, Stretch, IsTailOf
  <2>1. /\ ~hasLine /\ buf # <<>> =>
               \E n \in 1..Len(sent), j \in Nat :
                  /\ Stretch(buf, n, j)
                  /\ Len(buf) < LineCap => Flow > 0 /\ b = After(n, j + Len(buf))
        /\ hasLine => \E n \in 1..Len(sent) : Len(buf) <= sent[n] /\ IsTailOf(buf, n)
    BY DEF LineIInv, BufLaw, b
  <2>2. CASE A
    <3>1. hasLine => \E n \in 1..Len(sent) : Len(buf') <= sent[n] /\ IsTailOf(buf, n)'
      BY <1>1, <2>1, <2>2 DEF IsTailOf
    <3>2. ~hasLine => ~(Len(buf') < LineCap)
      BY <1>8, <2>2
    <3>3. ~hasLine /\ buf # <<>> => \E n \in 1..Len(sent), j \in Nat : Stretch(buf, n, j)'
      BY <1>1, <2>1, <2>2 DEF Stretch
    <3>4. (hasLine' <=> hasLine) /\ buf' = buf
      BY <2>2
    <3>5. ASSUME ~hasLine', buf' # <<>>
          PROVE  \E n \in 1..Len(sent), j \in Nat :
                    /\ Stretch(buf, n, j)'
                    /\ Len(buf') < LineCap => Flow' > 0 /\ FlowAt(1)' = After(n, j + Len(buf'))
      <4>1. PICK n \in 1..Len(sent), j \in Nat : Stretch(buf, n, j)'
        BY <3>3, <3>4, <3>5
      <4>2. ~(Len(buf') < LineCap)
        BY <3>2, <3>4, <3>5
      <4> QED
        BY <4>1, <4>2
    <3>6. ASSUME hasLine'
          PROVE  \E n \in 1..Len(sent) : Len(buf') <= sent[n] /\ IsTailOf(buf, n)'
      BY <3>1, <3>4, <3>6
    <3> HIDE DEF A
    <3> QED
      BY <3>5, <3>6
  <2>3. CASE B
    <3>1. CASE buf = <<>>
      <4>1. Len(buf) = 0 /\ 1..Len(buf) = {}
        BY <3>1
      <4>2. \A n \in 1..Len(sent) : IsTailOf(buf, n)' /\ Len(buf') <= sent[n]
        BY <1>1, <1>8, <2>3, <4>1 DEF IsTailOf
      <4>3. hasLine' /\ b[1] \in 1..Len(sent)
        BY <1>1, <2>3
      <4>4. \E n \in 1..Len(sent) : Len(buf') <= sent[n] /\ IsTailOf(buf, n)'
        BY <4>2, <4>3
      <4> QED
        BY <4>3, <4>4
    <3>2. CASE buf # <<>>
      <4>1. PICK n \in 1..Len(sent), j \in Nat : Stretch(buf, n, j) /\ b = After(n, j + Len(buf))
        BY <2>1, <2>3, <3>2
      <4>2. j + Len(buf) = sent[n]
        <5>1. j + Len(buf) \in Nat /\ j + Len(buf) <= sent[n]
          BY <1>8, <4>1 DEF Stretch
        <5> QED
          BY <1>9, <2>3, <4>1, <5>1 DEF b
      <4>3. Len(buf) <= sent[n] /\ \A i \in 1..Len(buf) : sent[n] - Len(buf) + i = j + i
        BY <1>8, <4>2
      <4>4. IsTailOf(buf, n)
        BY <4>1, <4>3 DEF Stretch, IsTailOf
      <4>5. IsTailOf(buf, n)' /\ Len(buf') <= sent[n]
        BY <1>1, <2>3, <4>3, <4>4 DEF IsTailOf
      <4> QED
        BY <2>3, <4>5
    <3> QED
      BY <3>1, <3>2
  <2>4. CASE C
    <3>1. Flow' > 0 /\ FlowAt(1)' = After(b[1], b[2])
      <4>1. 1 \in 1..Flow
        BY <1>3
      <4>2. 1 < Flow /\ FlowAt(1 + 1) = After(b[1], b[2])
        BY <2>4, <4>1 DEF LineIInv, ChainLaw, b
      <4>3. 1 \in 1..Flow'
        BY <1>3, <4>2
      <4> QED
        BY <1>3, <4>2, <4>3
    <3>2. Len(buf') = Len(buf) + 1
      BY <1>1, <2>4, Appended
    <3>3. \E n \in 1..Len(sent), j \in Nat :
             /\ j + Len(buf) < sent[n] /\ b = <<n, j + Len(buf) + 1>>
             /\ \A i \in 1..Len(buf) : buf[i] = <<n, j + i>>
      <4>1. CASE buf = <<>>
        <5>1. Len(buf) = 0 /\ 1..Len(buf) = {}
          BY <4>1
        <5>2. b[2] # 0 /\ b[2] - 1 \in Nat /\ (b[2] - 1) + Len(buf) + 1 = b[2]
          BY <1>1, <2>4, <5>1 DEF IsEnd
        <5>3. b[2] <= sent[b[1]]
          BY <1>1, <1>8 DEF SentByte
        <5>4. (b[2] - 1) + Len(buf) < sent[b[1]]
          BY <1>1, <1>8, <5>1, <5>2, <5>3
        <5> QED
          BY <1>1, <5>1, <5>2, <5>4
      <4>2. CASE buf # <<>>
        <5>1. PICK n \in 1..Len(sent), j \in Nat : Stretch(buf, n, j) /\ b = After(n, j + Len(buf))
          BY <2>1, <2>4, <4>2
        <5>2. j + Len(buf) < sent[n] /\ b = <<n, j + Len(buf) + 1>>
          <6>1. j + Len(buf) \in Nat
            BY <1>8
          <6> QED
            BY <1>10, <2>4, <5>1, <6>1 DEF b
        <5> QED
          BY <5>1, <5>2 DEF Stretch
      <4> QED
        BY <4>1, <4>2
    <3>4. PICK n \in 1..Len(sent), j \in Nat :
             /\ j + Len(buf) < sent[n] /\ b = <<n, j + Len(buf) + 1>>
             /\ \A i \in 1..Len(buf) : buf[i] = <<n, j + i>>
      BY <3>3
    <3>5. Stretch(buf, n, j)'
      BY <1>1, <2>4, <3>4, Stretched
    <3>6. b[1] = n /\ b[2] = j + Len(buf')
      BY <1>8, <3>2, <3>4
    <3> QED
      BY <2>4, <3>1, <3>4, <3>5, <3>6
  <2> QED
    BY <1>2, <2>2, <2>3, <2>4
<1>12. PatientLaw'
  <2> SUFFICES ASSUME Patient, ~overrun
      PROVE  /\ Len(executed) < Len(sent) /\ Len(sent) <= Len(executed) + 1
             /\ \A i \in 1..Len(executed) : executed[i] = Whole(i)
             /\ \A i \in 1..Len(sent) : i < Len(sent) => sent[i] # 0
             /\ Stretch(buf, Len(sent), 0)'
             /\ hasLine' => Len(buf') = sent[Len(sent)] /\ Flow' = 0
             /\ ~hasLine' /\ Len(buf') < LineCap =>
                   /\ Flow' = sent[Len(sent)] + 1 - Len(buf')
                   /\ \A i \in 1..Flow' : FlowAt(i)' = After(Len(sent), i + Len(buf') - 1)
    <3>1. (Patient' <=> Patient) /\ \A i : Whole(i)' = Whole(i)
      BY <1>1 DEF Patient, Whole
    <3>2. \A i : After(Len(sent), i + Len(buf) - 1)' = After(Len(sent), i + Len(buf') - 1)
      BY <1>1 DEF After
    <3> QED
      BY <1>1, <1>8, <3>1, <3>2, LineNumbers, SMTT(20) DEF PatientLaw
  <2> DEFINE l == Len(sent)
  <2>1. /\ Len(executed) <= l /\ l <= Len(executed) + 1 /\ Len(executed) # l /\ ~hasLine
        /\ \A i \in 1..Len(executed) : executed[i] = Whole(i)
        /\ \A i \in 1..l : i < l => sent[i] # 0
    <3>1. Flow # 0
      BY <1>3
    <3>2. Len(executed) <= l /\ (Len(executed) = l \/ Len(executed) < l)
      BY <1>1, LineNumbers DEF LineIInv, PatientLaw
    <3> QED
      BY <3>1, <3>2 DEF LineIInv, PatientLaw
  <2>2. Len(executed) < l /\ l \in 1..Len(sent) /\ sent[l] \in Nat
    <3>1. Len(executed) \in Nat
      BY <1>1, LineNumbers
    <3> QED
      BY <1>8, <2>1, <3>1
  <2>3. Stretch(buf, l, 0)
    BY <2>2 DEF LineIInv, PatientLaw
  <2>4. Len(buf) < LineCap =>
           Flow = sent[l] + 1 - Len(buf) /\ \A i \in 1..Flow : FlowAt(i) = After(l, i + Len(buf) - 1)
    BY <2>1, <2>2 DEF LineIInv, PatientLaw
  <2>5. Len(buf) < LineCap => b = After(l, Len(buf))
    <3>1. 1 \in 1..Flow /\ 1 + Len(buf) - 1 = Len(buf)
      BY <1>3, <1>8
    <3> QED
      BY <2>4, <3>1 DEF b
  <2>6. Stretch(buf, l, 0)' <=> Stretch(buf', l, 0)
    BY <1>1 DEF Stretch
  <2>7. CASE A
    <3>1. ~hasLine' /\ ~(Len(buf') < LineCap)
      BY <1>8, <2>1, <2>7
    <3>2. Stretch(buf', l, 0)
      BY <2>3, <2>7
    <3> QED
      BY <2>1, <2>2, <2>6, <3>1, <3>2
  <2>8. CASE B
    <3>1. Len(buf) <= sent[l] /\ 0 + Len(buf) = Len(buf)
      BY <1>8, <2>2, <2>3 DEF Stretch
    <3>2. Len(buf) = sent[l]
      BY <1>8, <1>9, <2>2, <2>5, <2>8, <3>1 DEF b
    <3>3. Flow' = 0
      BY <1>3, <1>8, <2>2, <2>4, <2>8, <3>2
    <3> QED
      BY <2>1, <2>2, <2>3, <2>6, <2>8, <3>2, <3>3
  <2>9. CASE C
    <3>1. Len(buf) < sent[l] /\ b = <<l, Len(buf) + 1>>
      BY <1>8, <1>10, <2>2, <2>5, <2>9 DEF b
    <3>2. Len(buf') = Len(buf) + 1
      BY <1>1, <2>9, Appended
    <3>3. Stretch(buf, l, 0)'
      <4>1. 0 \in Nat /\ 0 + Len(buf) = Len(buf) /\ \A i \in 1..Len(buf) : buf[i] = <<l, 0 + i>>
        BY <1>8, <2>3 DEF Stretch
      <4>2. \A n \in 1..Len(sent) : n = l => Stretch(buf, n, 0)'
        BY <1>1, <2>2, <2>9, <3>1, <4>1, Stretched
      <4>3. Stretch(buf', l, 0)
        BY <1>1, <2>2, <4>2 DEF Stretch
      <4> QED
        BY <2>6, <4>3
    <3>4. Flow' = sent[l] + 1 - Len(buf')
      BY <1>3, <1>8, <2>2, <2>4, <2>9, <3>2
    <3>5. ASSUME NEW i \in 1..Flow' PROVE FlowAt(i)' = After(l, i + Len(buf') - 1)
      <4>1. FlowAt(i)' = FlowAt(i + 1) /\ i + 1 \in 1..Flow
        BY <1>3
      <4>2. FlowAt(i + 1) = After(l, (i + 1) + Len(buf) - 1)
        BY <2>4, <2>9, <4>1
      <4>3. (i + 1) + Len(buf) - 1 = i + Len(buf') - 1
        BY <1>3, <1>8, <3>2
      <4> QED
        BY <4>1, <4>2, <4>3
    <3> QED
      BY <2>1, <2>2, <2>9, <3>3, <3>4, <3>5
  <2> QED
    BY <1>2, <2>7, <2>8, <2>9
<1> QED
  BY <1>5, <1>6, <1>7, <1>11, <1>12 DEF LineIInv

(* A byte of the host put into the FIFO, or lost. *)
LEMMA SendByteIInv == LineIInv /\ SendByte => LineIInv'
<1> SUFFICES ASSUME LineIInv, SendByte PROVE LineIInv'
  OBVIOUS
<1>1. /\ todo # <<>> /\ todo' = Tail(todo)
      /\ UNCHANGED <<buf, hasLine, linePc, left, due, ticked, manner, sent, executed>>
      /\ IF Len(fifo) < FifoSize
           THEN fifo' = Append(fifo, Head(todo)) /\ overrun' = overrun
           ELSE overrun' = TRUE /\ fifo' = fifo
  BY DEF SendByte, clock
<1>2. LineTypes /\ fifo \in Seq(Wire) /\ todo \in Seq(Wire)
  BY DEF LineIInv, LineTypes
<1>3. /\ todo' \in Seq(Wire) /\ Len(todo') = Len(todo) - 1 /\ Head(todo) = todo[1] /\ Len(todo) \in Nat \ {0}
      /\ \A i \in 1..Len(todo') : todo'[i] = todo[i + 1] /\ i + 1 \in 1..Len(todo)
      /\ todo[1] \in Wire /\ 1 \in 1..Len(todo)
  BY <1>1, <1>2
<1>4. \A b : SentByte(b)' <=> SentByte(b)
  BY <1>1 DEF SentByte
<1>5. ASSUME fifo' \in Seq(Wire), Len(fifo') <= FifoSize, \A i \in 1..Len(fifo') : SentByte(fifo'[i]),
             overrun' \in BOOLEAN
      PROVE  LineTypes'
  <2>1. (\A i \in 1..Len(fifo) : SentByte(fifo[i]))'
    BY <1>1, <1>5 DEF SentByte
  <2>2. (\A i \in 1..Len(todo) : SentByte(todo[i]))'
    <3>1. \A i \in 1..Len(todo') : SentByte(todo'[i])
      BY <1>2, <1>3 DEF LineTypes
    <3> QED
      BY <1>1, <3>1 DEF SentByte
  <2>3. /\ (\A i \in 1..Len(buf) : SentByte(buf[i]) /\ ~IsEnd(buf[i]))'
        /\ \A i \in 1..Len(sent') : sent'[i] \in Lengths
        /\ \A i \in 1..Len(executed') : Len(executed'[i]) <= LineCap
        /\ Len(buf') <= LineCap
    BY <1>1, <1>2 DEF LineTypes, LineTypeOK, SentByte, IsEnd
  <2>4. /\ hasLine' \in BOOLEAN /\ due' \in BOOLEAN /\ ticked' \in BOOLEAN
        /\ linePc' \in {"round", "drain", "work"} /\ left' \in 0..MaxDrain
    BY <1>1, <1>2 DEF LineTypes, LineTypeOK
  <2>5. LineTypeOK'
    BY <1>5, <2>1, <2>3, <2>4 DEF LineTypeOK
  <2> QED
    BY <1>1, <1>2, <1>3, <1>5, <2>2, <2>5 DEF LineTypes
<1>6. CASE ~(Len(fifo) < FifoSize)
  <2>1. fifo' = fifo /\ overrun'
    BY <1>1, <1>6
  <2>2. LineTypes'
    BY <1>2, <1>5, <2>1 DEF LineTypes, LineTypeOK
  <2>3. ChainLaw' /\ BufLaw' /\ DoneLaw' /\ PatientLaw'
    BY <2>1 DEF ChainLaw, BufLaw, DoneLaw, PatientLaw
  <2> QED
    BY <2>2, <2>3 DEF LineIInv
<1>7. CASE Len(fifo) < FifoSize
  <2>1. fifo' = Append(fifo, todo[1]) /\ overrun' = overrun /\ Len(fifo) \in Nat
    BY <1>1, <1>2, <1>3, <1>7, LineNumbers
  <2>2. /\ fifo' \in Seq(Wire) /\ Len(fifo') = Len(fifo) + 1 /\ fifo'[Len(fifo) + 1] = todo[1]
        /\ \A i \in 1..Len(fifo) : fifo'[i] = fifo[i]
    BY <1>2, <1>3, <2>1
  <2>3. \A i \in 1..Len(fifo') : i \in 1..Len(fifo) \/ i = Len(fifo) + 1
    BY <2>1, <2>2
  <2>4. LineTypes'
    <3>1. Len(fifo') <= FifoSize
      BY <1>2, <1>7, <2>1, <2>2, LineNumbers
    <3>2. \A i \in 1..Len(fifo') : SentByte(fifo'[i])
      BY <1>2, <1>3, <2>2, <2>3 DEF LineTypes, LineTypeOK
    <3>3. overrun' \in BOOLEAN
      BY <1>2, <2>1 DEF LineTypes, LineTypeOK
    <3> QED
      BY <1>5, <2>2, <3>1, <3>2, <3>3
  <2>5. Flow' = Flow /\ Flow \in Nat
    BY <1>2, <1>3, <2>2, LineNumbers DEF Flow
  <2>6. ASSUME NEW i \in 1..Flow PROVE FlowAt(i)' = FlowAt(i)
    <3>1. CASE i \in 1..Len(fifo)
      <4>1. i <= Len(fifo) /\ i <= Len(fifo')
        BY <2>1, <2>2, <3>1
      <4> QED
        BY <2>2, <3>1, <4>1 DEF FlowAt
    <3>2. CASE i = Len(fifo) + 1
      <4>1. ~(i <= Len(fifo)) /\ i <= Len(fifo') /\ i - Len(fifo) = 1
        BY <2>1, <2>2, <3>2
      <4> QED
        BY <2>2, <3>2, <4>1 DEF FlowAt
    <3>3. CASE i \notin 1..Len(fifo) /\ i # Len(fifo) + 1
      <4>1. /\ ~(i <= Len(fifo)) /\ ~(i <= Len(fifo'))
            /\ i - Len(fifo') \in 1..Len(todo') /\ (i - Len(fifo')) + 1 = i - Len(fifo)
        BY <1>2, <1>3, <2>2, <3>3, LineNumbers
      <4>2. FlowAt(i) = todo[i - Len(fifo)] /\ FlowAt(i)' = todo'[i - Len(fifo')]
        BY <4>1 DEF FlowAt
      <4>3. todo'[i - Len(fifo')] = todo[(i - Len(fifo')) + 1]
        BY <1>3, <4>1
      <4> QED
        BY <4>1, <4>2, <4>3
    <3> QED
      BY <3>1, <3>2, <3>3
  <2>7. \A n, i : After(n, i)' = After(n, i)
    BY <1>1 DEF After
  <2>8. ChainLaw'
    <3> SUFFICES ASSUME ~overrun, NEW i \in 1..Flow, ~IsEnd(FlowAt(i)')
                 PROVE  i < Flow /\ FlowAt(i + 1)' = After(FlowAt(i)'[1], FlowAt(i)'[2])
      BY <2>1, <2>5, <2>7 DEF ChainLaw, IsEnd, After
    <3>1. FlowAt(i)' = FlowAt(i)
      BY <2>6
    <3>2. i < Flow /\ FlowAt(i + 1) = After(FlowAt(i)[1], FlowAt(i)[2])
      BY <3>1 DEF LineIInv, ChainLaw
    <3>3. i + 1 \in 1..Flow
      BY <2>5, <3>2
    <3> QED
      BY <2>6, <3>1, <3>2, <3>3
  <2>9. BufLaw'
    <3> SUFFICES ASSUME ~overrun
        PROVE  /\ ~hasLine /\ buf # <<>> =>
                     \E n \in 1..Len(sent), j \in Nat :
                        /\ Stretch(buf, n, j)
                        /\ Len(buf) < LineCap => Flow > 0 /\ FlowAt(1)' = After(n, j + Len(buf))
               /\ hasLine => \E n \in 1..Len(sent) : Len(buf) <= sent[n] /\ IsTailOf(buf, n)
      BY <1>1, <2>1, <2>5 DEF BufLaw, Stretch, After, IsTailOf
    <3>1. Flow > 0 => FlowAt(1)' = FlowAt(1)
      BY <2>5, <2>6
    <3> QED
      BY <3>1 DEF LineIInv, BufLaw
  <2>10. DoneLaw'
    <3>1. overrun' = overrun /\ sent' = sent /\ executed' = executed
      BY <1>1, <2>1
    <3>2. DoneLaw
      BY DEF LineIInv
    <3> QED
      BY ONLY <3>1, <3>2 DEF DoneLaw, IsTailOf
  <2>11. PatientLaw'
    <3>1. (Patient' <=> Patient) /\ \A i : Whole(i)' = Whole(i)
      BY <1>1 DEF Patient, Whole
    <3>2. Stretch(buf, Len(sent), 0)' <=> Stretch(buf, Len(sent), 0)
      BY <1>1 DEF Stretch
    <3>3. \A i \in 1..Flow : FlowAt(i) = After(Len(sent), i + Len(buf) - 1)
                             => FlowAt(i)' = After(Len(sent), i + Len(buf) - 1)'
      BY <1>1, <2>6 DEF After
    <3> QED
      BY <1>1, <2>1, <2>5, <3>1, <3>2, <3>3 DEF LineIInv, PatientLaw
  <2> QED
    BY <2>4, <2>8, <2>9, <2>10, <2>11 DEF LineIInv
<1> QED
  BY <1>6, <1>7

(* The commands of a host that waits: as many as the lines that were not   *)
(* empty, each in its place.                                               *)
LEMMA CommandsInPlace ==
  ASSUME LineIInv, Patient, ~overrun
  PROVE  /\ \A i \in Commands : i \in 1..Len(executed) /\ sent[i] # 0
         /\ \A i \in Commands : Cardinality({j \in Commands : j <= i}) = i
         /\ Cardinality(Commands) = Len(sent) =>
              Len(executed) = Len(sent) /\ \A i \in 1..Len(sent) : sent[i] # 0
<1>1. /\ executed \in Seq(Seq(Wire)) /\ Len(executed) \in Nat /\ Len(sent) \in Nat
      /\ Len(executed) <= Len(sent)
      /\ \A i \in 1..Len(executed) : executed[i] = Whole(i)
      /\ \A i \in 1..Len(sent) : i < Len(sent) => sent[i] # 0
  BY LineNumbers DEF LineIInv, LineTypes, PatientLaw
<1>2. DOMAIN executed = 1..Len(executed)
  BY <1>1
<1>3. ASSUME NEW i \in 1..Len(executed) PROVE executed[i] # <<>> <=> sent[i] # 0
  <2>1. executed[i] = [k \in 1..sent[i] |-> <<i, k>>]
    BY <1>1 DEF Whole
  <2>2. sent[i] \in Nat
    BY <1>1, LineNumbers DEF LineIInv
  <2>3. CASE sent[i] = 0
    <3>1. executed[i] = <<>>
      BY <2>1, <2>3
    <3> QED
      BY <2>3, <3>1
  <2>4. CASE sent[i] # 0
    <3>1. 1 \in 1..sent[i] /\ DOMAIN executed[i] = 1..sent[i]
      BY <2>1, <2>2, <2>4
    <3>2. DOMAIN <<>> = {}
      OBVIOUS
    <3>3. executed[i] # <<>>
      BY <3>1, <3>2
    <3> QED
      BY <2>4, <3>3
  <2> QED
    BY <2>3, <2>4
<1>4. Commands = {i \in 1..Len(executed) : sent[i] # 0}
  BY <1>2, <1>3 DEF Commands
<1>5. ASSUME NEW i \in Commands PROVE Cardinality({j \in Commands : j <= i}) = i
  <2>1. i \in 1..Len(executed) /\ i \in Nat /\ i >= 1 /\ sent[i] # 0
    BY <1>1, <1>4
  <2>2. ASSUME NEW j \in 1..i PROVE j \in Commands
    <3>1. j \in 1..Len(executed) /\ j \in 1..Len(sent) /\ (j = i \/ j < Len(sent))
      BY <1>1, <2>1
    <3> QED
      BY <1>1, <1>4, <2>1, <3>1
  <2>3. {j \in Commands : j <= i} = 1..i
    <3>1. ASSUME NEW j \in Commands, j <= i PROVE j \in 1..i
      BY <1>1, <1>4, <2>1, <3>1
    <3>2. ASSUME NEW j \in 1..i PROVE j \in Commands /\ j <= i
      BY <2>1, <2>2
    <3> QED
      BY <3>1, <3>2
  <2>4. Cardinality(1..i) = i
    <3>1. Cardinality(1..i) = IF 1 > i THEN 0 ELSE i - 1 + 1
      BY <2>1, FS_Interval
    <3> QED
      BY <2>1, <3>1
  <2> QED
    BY <2>3, <2>4
<1>6. ASSUME Cardinality(Commands) = Len(sent)
      PROVE  Len(executed) = Len(sent) /\ \A i \in 1..Len(sent) : sent[i] # 0
  <2>1. IsFiniteSet(1..Len(executed)) /\ Cardinality(1..Len(executed)) = Len(executed)
    <3>1. IsFiniteSet(1..Len(executed))
          /\ Cardinality(1..Len(executed)) = IF 1 > Len(executed) THEN 0 ELSE Len(executed) - 1 + 1
      <4>1. PICK l \in Nat : l = Len(executed)
        BY <1>1
      <4>2. IsFiniteSet(1..l) /\ Cardinality(1..l) = IF 1 > l THEN 0 ELSE l - 1 + 1
        BY FS_Interval
      <4> QED
        BY <4>1, <4>2
    <3> QED
      BY <1>1, <3>1
  <2>2. Commands \in SUBSET (1..Len(executed))
    BY <1>4
  <2>3. /\ Cardinality(Commands) <= Cardinality(1..Len(executed))
        /\ Cardinality(1..Len(executed)) = Cardinality(Commands) => 1..Len(executed) = Commands
    BY <2>1, <2>2, FS_Subset
  <2>4. Len(executed) = Len(sent)
    BY <1>1, <1>6, <2>1, <2>3
  <2>5. 1..Len(executed) = Commands
    BY <1>6, <2>1, <2>3, <2>4
  <2> QED
    BY <1>4, <2>4, <2>5
<1> QED
  BY <1>4, <1>5, <1>6

LEMMA LineSafe == LineIInv => LineTypeOK /\ LinesAreKept
<1> SUFFICES ASSUME LineIInv PROVE LinesAreKept
  BY DEF LineIInv, LineTypes
<1>1. ASSUME ~overrun, NEW i \in 1..Len(executed)
      PROVE  \E n \in 1..Len(sent) : Len(executed[i]) <= sent[n] /\ IsTailOf(executed[i], n)
  BY <1>1 DEF LineIInv, DoneLaw
<1>2. ASSUME ~overrun, Patient PROVE Exact
  <2>1. ASSUME NEW i \in Commands PROVE i <= Len(sent) /\ executed[i] = Whole(i)
    <3>1. i \in 1..Len(executed)
      BY <1>2, CommandsInPlace
    <3>2. Len(executed) <= Len(sent) /\ executed[i] = Whole(i)
      BY <1>2, <3>1 DEF LineIInv, PatientLaw
    <3>3. Len(executed) \in Nat /\ Len(sent) \in Nat
      BY LineNumbers DEF LineIInv
    <3> QED
      BY <3>1, <3>2, <3>3
  <2>2. \A i \in Commands : Cardinality({j \in Commands : j <= i}) = i
    BY <1>2, CommandsInPlace
  <2> QED
    BY <2>1, <2>2 DEF Exact
<1> QED
  BY <1>1, <1>2 DEF LinesAreKept

(* The host begins a line. *)
LEMMA BeginLineIInv == LineIInv /\ BeginLine => LineIInv'
<1> SUFFICES ASSUME LineIInv, BeginLine PROVE LineIInv'
  OBVIOUS
<1>1. /\ todo = <<>>
      /\ manner.paced => Cardinality(Commands) = Len(sent)
      /\ UNCHANGED <<fifo, buf, hasLine, linePc, left, due, ticked, manner, overrun, executed>>
  BY DEF BeginLine, clock
<1>0. PICK l \in Nat : l = Len(sent)
  BY LineNumbers DEF LineIInv
<1>2. PICK k \in Lengths, e \in manner.ends :
         /\ sent' = Append(sent, k)
         /\ todo' = [i \in 1..(k + e) |-> <<l + 1, IF i > k THEN 0 ELSE i>>]
  BY <1>0 DEF BeginLine
<1>3. LineTypes /\ fifo \in Seq(Wire) /\ sent \in Seq(Lengths) /\ l \in Nat /\ Len(fifo) \in Nat /\ Len(buf) \in Nat
  BY <1>0, LineNumbers DEF LineIInv, LineTypes
<1>4. k \in Nat /\ e \in {1, 2} /\ (Patient => e = 1)
  <2>1. manner \in Manners
    BY <1>3 DEF LineTypes
  <2>2. manner.ends \in SUBSET {1, 2}
    BY <2>1, SerialAssumption
  <2>3. Patient => manner.ends = {1}
    BY DEF Patient
  <2> QED
    BY <2>2, <2>3, SerialAssumption
<1>5. /\ sent' \in Seq(Lengths) /\ Len(sent') = l + 1 /\ sent'[l + 1] = k
      /\ \A m \in 1..l : sent'[m] = sent[m]
  BY <1>0, <1>2, <1>3
<1>6. /\ Len(todo') = k + e /\ todo' \in Seq(Wire)
      /\ \A d \in 1..(k + e) : todo'[d] = <<l + 1, IF d > k THEN 0 ELSE d>>
  <2>1. k + e \in Nat
    BY <1>4
  <2>2. \A d \in 1..(k + e) : <<l + 1, IF d > k THEN 0 ELSE d>> \in Wire
    BY <1>3, <1>4 DEF Wire
  <2> DEFINE f == [d \in 1..(k + e) |-> <<l + 1, IF d > k THEN 0 ELSE d>>]
  <2>3. f \in [1..(k + e) -> Wire] /\ \A d \in 1..(k + e) : f[d] = <<l + 1, IF d > k THEN 0 ELSE d>>
    BY <2>2
  <2>4. todo' = f
    BY <1>2
  <2> HIDE DEF f
  <2>5. f \in Seq(Wire) /\ Len(f) = k + e
    BY <2>1, <2>3
  <2> QED
    BY <2>3, <2>4, <2>5
<1>7. \A b : SentByte(b) => SentByte(b)'
  <2> SUFFICES ASSUME NEW b, SentByte(b) PROVE b[1] \in 1..Len(sent') /\ b[2] \in 0..sent'[b[1]]
    BY DEF SentByte
  <2>1. b[1] \in 1..l /\ b[2] \in 0..sent[b[1]]
    BY <1>0 DEF SentByte
  <2> QED
    BY <1>3, <1>5, <2>1
<1>8. LineTypes'
  <2>1. (\A i \in 1..Len(todo) : SentByte(todo[i]))'
    <3> SUFFICES ASSUME NEW i \in 1..Len(todo') PROVE SentByte(todo[i])'
      OBVIOUS
    <3>1. i \in 1..(k + e) /\ todo'[i] = <<l + 1, IF i > k THEN 0 ELSE i>>
      BY <1>6
    <3>2. l + 1 \in 1..Len(sent') /\ (IF i > k THEN 0 ELSE i) \in 0..sent'[l + 1]
      BY <1>3, <1>4, <1>5, <3>1
    <3> QED
      BY <3>1, <3>2 DEF SentByte
  <2>2. (\A i \in 1..Len(fifo) : SentByte(fifo[i]))' /\ Len(fifo') <= FifoSize
    BY <1>1, <1>3, <1>7 DEF LineTypes, LineTypeOK
  <2>3. (\A i \in 1..Len(buf) : SentByte(buf[i]) /\ ~IsEnd(buf[i]))' /\ Len(buf') <= LineCap
    BY <1>1, <1>3, <1>7 DEF LineTypes, LineTypeOK, IsEnd
  <2>4. \A i \in 1..Len(sent') : sent'[i] \in Lengths
    BY <1>5
  <2>5. /\ hasLine' \in BOOLEAN /\ due' \in BOOLEAN /\ ticked' \in BOOLEAN /\ overrun' \in BOOLEAN
        /\ linePc' \in {"round", "drain", "work"} /\ left' \in 0..MaxDrain
        /\ \A i \in 1..Len(executed') : Len(executed'[i]) <= LineCap
    BY <1>1, <1>3 DEF LineTypes, LineTypeOK
  <2>6. LineTypeOK'
    BY <2>2, <2>3, <2>4, <2>5 DEF LineTypeOK
  <2> QED
    BY <1>1, <1>3, <1>5, <1>6, <2>1, <2>6 DEF LineTypes
<1>9. /\ Flow = Len(fifo) /\ Flow \in Nat /\ Flow' = Flow + (k + e)
      /\ \A i \in 1..Flow : FlowAt(i)' = FlowAt(i)
  <2>1. Len(todo) = 0
    <3>1. todo = <<>>
      BY <1>1
    <3> QED
      BY <3>1
  <2>2. Flow = Len(fifo) /\ Flow' = Len(fifo) + (k + e)
    BY <1>1, <1>3, <1>6, <2>1 DEF Flow
  <2>3. \A i \in 1..Len(fifo) : i <= Len(fifo)
    BY <1>3
  <2> QED
    BY <1>1, <1>3, <2>2, <2>3 DEF FlowAt
<1>10. \A i \in 1..Flow' : \/ i \in 1..Flow
                           \/ \E d \in 1..(k + e) : i = Flow + d
  <2> TAKE i \in 1..Flow'
  <2>1. i \notin 1..Flow => i - Flow \in 1..(k + e) /\ i = Flow + (i - Flow)
    BY <1>4, <1>9
  <2> QED
    BY <2>1
<1>11. ASSUME NEW i, NEW d \in 1..(k + e), i = Flow + d
       PROVE  FlowAt(i)' = <<l + 1, IF d > k THEN 0 ELSE d>>
  <2>1. ~(i <= Len(fifo')) /\ i - Len(fifo') = d
    BY <1>1, <1>3, <1>4, <1>9, <1>11
  <2> QED
    BY <1>6, <2>1 DEF FlowAt
<1>12. \A m \in 1..l : sent'[m] = sent[m] /\ m \in 1..Len(sent') /\ \A i : After(m, i)' = After(m, i)
  BY <1>3, <1>5 DEF After
<1>13. ChainLaw'
  <2> SUFFICES ASSUME ~overrun, NEW i \in 1..Flow', ~IsEnd(FlowAt(i)')
               PROVE  i < Flow' /\ FlowAt(i + 1)' = After(FlowAt(i)[1], FlowAt(i)[2])'
    BY <1>1 DEF ChainLaw, IsEnd
  <2>1. CASE i \in 1..Flow
    <3>1. FlowAt(i)' = FlowAt(i)
      BY <1>9, <2>1
    <3>2. i < Flow /\ FlowAt(i + 1) = After(FlowAt(i)[1], FlowAt(i)[2])
      BY <2>1, <3>1 DEF LineIInv, ChainLaw
    <3>3. i + 1 \in 1..Flow /\ i < Flow'
      BY <1>4, <1>9, <3>2
    <3>4. FlowAt(i)[1] \in 1..l
      BY <1>3, <2>1, FlowIsSent, <1>0 DEF SentByte
    <3>5. After(FlowAt(i)[1], FlowAt(i)[2])' = After(FlowAt(i)[1], FlowAt(i)[2])
      BY <1>12, <3>1, <3>4 DEF After
    <3> QED
      BY <1>9, <3>2, <3>3, <3>5
  <2>2. CASE \E d \in 1..(k + e) : i = Flow + d
    <3>1. PICK d \in 1..(k + e) : i = Flow + d
      BY <2>2
    <3>2. FlowAt(i)' = <<l + 1, IF d > k THEN 0 ELSE d>>
      BY <1>11, <3>1
    <3>3. ~(d > k)
      BY <3>2 DEF IsEnd
    <3>4. d + 1 \in 1..(k + e) /\ i + 1 = Flow + (d + 1) /\ i < Flow'
      BY <1>4, <1>9, <3>1, <3>3
    <3>5. FlowAt(i + 1)' = <<l + 1, IF d + 1 > k THEN 0 ELSE d + 1>>
      BY <1>11, <3>4
    <3>6. FlowAt(i)'[1] = l + 1 /\ FlowAt(i)'[2] = d
      BY <3>2, <3>3
    <3>7. After(FlowAt(i)[1], FlowAt(i)[2])' = IF d < sent'[l + 1] THEN <<l + 1, d + 1>> ELSE <<l + 1, 0>>
      BY <3>6 DEF After
    <3>8. d < k <=> ~(d + 1 > k)
      BY <1>4, <3>3
    <3> QED
      BY <1>5, <3>4, <3>5, <3>7, <3>8
  <2> QED
    BY <1>10, <2>1, <2>2
<1>14. BufLaw'
  <2> SUFFICES ASSUME ~overrun
      PROVE  /\ ~hasLine /\ buf # <<>> =>
                   \E n \in 1..Len(sent'), j \in Nat :
                      /\ Stretch(buf, n, j)'
                      /\ Len(buf) < LineCap => Flow' > 0 /\ FlowAt(1)' = After(n, j + Len(buf))'
             /\ hasLine => \E n \in 1..Len(sent') : Len(buf) <= sent'[n] /\ IsTailOf(buf, n)'
    BY <1>1 DEF BufLaw
  <2>1. ASSUME ~hasLine, buf # <<>>
        PROVE  \E n \in 1..Len(sent'), j \in Nat :
                  /\ Stretch(buf, n, j)'
                  /\ Len(buf) < LineCap => Flow' > 0 /\ FlowAt(1)' = After(n, j + Len(buf))'
    <3>1. PICK n \in 1..l, j \in Nat :
             /\ Stretch(buf, n, j)
             /\ Len(buf) < LineCap => Flow > 0 /\ FlowAt(1) = After(n, j + Len(buf))
      BY <1>0, <2>1 DEF LineIInv, BufLaw
    <3>2. sent'[n] = sent[n] /\ n \in 1..Len(sent')
      BY <1>12
    <3>3. Stretch(buf, n, j)'
      BY <1>1, <3>1, <3>2 DEF Stretch
    <3>4. After(n, j + Len(buf))' = After(n, j + Len(buf))
      BY <1>1, <3>2 DEF After
    <3>5. Flow > 0 => Flow' > 0 /\ FlowAt(1)' = FlowAt(1)
      BY <1>4, <1>9
    <3> QED
      BY <3>1, <3>2, <3>3, <3>4, <3>5
  <2>2. ASSUME hasLine
        PROVE  \E n \in 1..Len(sent') : Len(buf) <= sent'[n] /\ IsTailOf(buf, n)'
    <3>1. PICK n \in 1..l : Len(buf) <= sent[n] /\ IsTailOf(buf, n)
      BY <1>0, <2>2 DEF LineIInv, BufLaw
    <3> QED
      BY <1>1, <1>12, <3>1 DEF IsTailOf
  <2> QED
    BY <2>1, <2>2
<1>15. DoneLaw'
  <2> SUFFICES ASSUME ~overrun, NEW i \in 1..Len(executed)
               PROVE  \E n \in 1..Len(sent') : Len(executed[i]) <= sent'[n] /\ IsTailOf(executed[i], n)'
    BY <1>1 DEF DoneLaw
  <2>1. PICK n \in 1..l : Len(executed[i]) <= sent[n] /\ IsTailOf(executed[i], n)
    BY <1>0 DEF LineIInv, DoneLaw
  <2> QED
    BY <1>1, <1>12, <2>1 DEF IsTailOf
<1>16. PatientLaw'
  <2> SUFFICES ASSUME Patient, ~overrun
      PROVE  /\ Len(executed) = l
             /\ \A i \in 1..Len(executed) : executed[i] = Whole(i)'
             /\ \A i \in 1..l : sent'[i] # 0
             /\ Stretch(buf, l + 1, 0)' /\ ~hasLine
             /\ Flow' = sent'[l + 1] + 1 - Len(buf)
             /\ \A i \in 1..Flow' : FlowAt(i)' = After(l + 1, i + Len(buf) - 1)'
    <3>1. Patient' <=> Patient
      BY <1>1 DEF Patient
    <3>2. \A i \in 1..(l + 1) : i < l + 1 => i \in 1..l
      BY <1>3
    <3>3. Len(executed) = l => /\ Len(executed) <= l + 1 /\ l + 1 <= Len(executed) + 1
                               /\ Len(executed) # l + 1
      BY <1>3
    <3>4. Stretch(buf, Len(sent), 0)' <=> Stretch(buf, l + 1, 0)'
      BY <1>5 DEF Stretch
    <3>5. \A i : After(Len(sent), i + Len(buf) - 1)' = After(l + 1, i + Len(buf) - 1)'
      BY <1>5 DEF After
    <3> QED
      BY <1>1, <1>5, <3>1, <3>2, <3>3, <3>4, <3>5 DEF PatientLaw
  <2>1. Len(executed) = l /\ \A i \in 1..l : sent[i] # 0
    BY <1>0, <1>1, CommandsInPlace DEF Patient
  <2>2. Flow = 0 /\ buf = <<>> /\ ~hasLine /\ \A i \in 1..Len(executed) : executed[i] = Whole(i)
    BY <1>0, <2>1 DEF LineIInv, PatientLaw
  <2>3. \A i \in 1..l : Whole(i)' = Whole(i)
    BY <1>5 DEF Whole
  <2>4. Len(buf) = 0 /\ 1..Len(buf) = {} /\ buf' = buf
    BY <1>1, <2>2
  <2>5. Stretch(buf, l + 1, 0)'
    <3>1. 0 + Len(buf') <= sent'[l + 1]
      BY <1>4, <1>5, <2>4
    <3> QED
      BY <2>4, <3>1 DEF Stretch
  <2>6. Flow' = k + 1
    BY <1>4, <1>9, <2>2
  <2>7. ASSUME NEW i \in 1..Flow' PROVE FlowAt(i)' = After(l + 1, i + Len(buf) - 1)'
    <3>1. i \in 1..(k + e) /\ i = Flow + i /\ i + Len(buf') - 1 = i - 1
      BY <1>4, <2>2, <2>4, <2>6
    <3>2. FlowAt(i)' = <<l + 1, IF i > k THEN 0 ELSE i>>
      BY <1>11, <3>1
    <3>3. After(l + 1, i + Len(buf) - 1)' = IF i - 1 < k THEN <<l + 1, (i - 1) + 1>> ELSE <<l + 1, 0>>
      BY <1>5, <3>1 DEF After
    <3>4. (i - 1 < k <=> ~(i > k)) /\ (i - 1) + 1 = i
      BY <1>4, <3>1
    <3> QED
      BY <3>2, <3>3, <3>4
  <2>8. Flow' = sent'[l + 1] + 1 - Len(buf)
    BY <1>4, <1>5, <2>4, <2>6
  <2> QED
    BY <1>5, <2>1, <2>2, <2>3, <2>5, <2>7, <2>8
<1> QED
  BY <1>8, <1>13, <1>14, <1>15, <1>16 DEF LineIInv

LEMMA LineNextIInv == LineIInv /\ [LineNext]_lineVars => LineIInv'
<1> SUFFICES ASSUME LineIInv, [LineNext]_lineVars PROVE LineIInv'
  OBVIOUS
<1>1. /\ linePc \in {"round", "drain", "work"} /\ left \in 0..MaxDrain
      /\ due \in BOOLEAN /\ ticked \in BOOLEAN /\ 0 \in 0..MaxDrain /\ MaxDrain \in 0..MaxDrain
  BY SerialAssumption DEF LineIInv, LineTypes, LineTypeOK
<1>2. CASE UNCHANGED lineVars
  BY <1>1, <1>2, LineRests DEF lineVars, clock, host
<1>3. CASE Round
  BY <1>1, <1>3, LineRests DEF Round, host
<1>4. CASE Drained
  BY <1>1, <1>4, LineRests DEF Drained, host
<1>5. CASE TickDue
  BY <1>1, <1>5, LineRests DEF TickDue, host
<1> QED
  BY <1>2, <1>3, <1>4, <1>5, TakeByteIInv, WorkIInv, BeginLineIInv, SendByteIInv DEF LineNext, Loop
-----------------------------------------------------------------------------
(* Frames.  Nothing happens over time: the letter stays what it was, and   *)
(* what is said of it is arithmetic.                                       *)
LEMMA PayloadFits ==
  ASSUME NEW w \in BOOLEAN
  PROVE  /\ Payload(w) \in Nat /\ 18 <= Payload(w) /\ Payload(w) <= MaxFrame - HdrLen
         /\ BroadcastLen(w) <= MaxFrame
<1> USE FramesAssumption DEF Payload, BroadcastLen, U64, U32, U16, U8, F32, MaxFrame, HdrLen
<1>1. CASE w
  BY <1>1
<1>2. CASE ~w
  BY <1>2
<1> QED
  BY <1>1, <1>2

(* A sum with its complement folds to all ones. *)
LEMMA Folded ==
  ASSUME NEW p \in Nat, NEW s \in Nat, s < 65536
  PROVE  Fold(65536 * p + s) = s + p
<1>1. (65536 * p + s) % 65536 = s /\ (65536 * p + s) \div 65536 = p
  BY SMT
<1> QED
  BY <1>1, SMT DEF Fold

LEMMA SumIsAccepted ==
  ASSUME NEW n \in Nat, 0 < n, n < 65536 * 10
  PROVE  Fold(Fold(n + (65535 - Fold(Fold(n))))) = 65535
<1>1. PICK q, r \in Nat : n = 65536 * q + r /\ r < 65536 /\ q < 10
  <2>1. /\ n \div 65536 \in Nat /\ n % 65536 \in Nat /\ n % 65536 < 65536 /\ n \div 65536 < 10
        /\ n = 65536 * (n \div 65536) + (n % 65536)
    BY SMT
  <2> QED
    BY <2>1, SMT
<1>2. Fold(n) = r + q
  BY <1>1, Folded, SMT
<1>3. Fold(65535) = 65535
  <2>1. Fold(65536 * 0 + 65535) = 65535 + 0 /\ 65536 * 0 + 65535 = 65535
    BY Folded, SMT
  <2> QED
    BY <2>1, SMT
<1>4. CASE r + q < 65536
  <2>1. Fold(r + q) = r + q
    <3>1. Fold(65536 * 0 + (r + q)) = (r + q) + 0 /\ 65536 * 0 + (r + q) = r + q
      BY <1>1, <1>4, Folded, SMT
    <3> QED
      BY <1>1, <3>1, SMT
  <2>2. n + (65535 - (r + q)) = 65536 * q + (65535 - q) /\ 65535 - q \in Nat /\ 65535 - q < 65536
    BY <1>1, SMT
  <2>3. Fold(65536 * q + (65535 - q)) = 65535
    <3>1. Fold(65536 * q + (65535 - q)) = (65535 - q) + q
      BY <1>1, <2>2, Folded, SMT
    <3> QED
      BY <1>1, <3>1, SMT
  <2> QED
    BY <1>2, <1>3, <2>1, <2>2, <2>3
<1>5. CASE ~(r + q < 65536)
  <2>1. r + q - 65536 \in Nat /\ r + q - 65536 < 65536 /\ r + q = 65536 * 1 + (r + q - 65536)
    BY <1>1, <1>5, SMT
  <2>2. Fold(r + q) = r + q - 65535
    <3>1. (r + q) % 65536 = r + q - 65536 /\ (r + q) \div 65536 = 1
      BY <1>1, <1>5, SMT
    <3> QED
      BY <1>1, <3>1, SMT DEF Fold
  <2>3. /\ n + (65535 - (r + q - 65535)) = 65536 * (q + 1) + (65534 - q)
        /\ 65534 - q \in Nat /\ 65534 - q < 65536 /\ q + 1 \in Nat
    BY <1>1, SMT
  <2>4. Fold(65536 * (q + 1) + (65534 - q)) = 65535
    <3>1. /\ (65536 * (q + 1) + (65534 - q)) % 65536 = 65534 - q
          /\ (65536 * (q + 1) + (65534 - q)) \div 65536 = q + 1
      BY <1>1, SMT
    <3> QED
      BY <1>1, <3>1, SMT DEF Fold
  <2> QED
    BY <1>2, <1>3, <2>2, <2>3, <2>4
<1> QED
  BY <1>4, <1>5

LEMMA LetterTells == letter \in Letters => FramesTell
<1> SUFFICES ASSUME letter \in Letters PROVE FramesTell
  OBVIOUS
<1>1. letter.room \in Nat /\ letter.wide \in BOOLEAN
  BY FramesAssumption DEF Letters
<1> DEFINE p == Payload(letter.wide)
           f == BuildStateFrame(letter.room, letter.wide)
<1>2. p \in Nat /\ 18 <= p /\ p <= 1476 /\ BroadcastLen(letter.wide) <= MaxFrame
  BY <1>1, PayloadFits DEF MaxFrame, HdrLen
<1> HIDE DEF p
<1>3. /\ f.udp \in Nat /\ f.udp <= 1476
      /\ f.end = "frame" => /\ MinFrame <= f.len /\ f.len <= letter.room
                            /\ f.len > MinFrame => f.len = HdrLen + f.udp
      /\ letter.room >= HdrLen + p => f.end = "frame" /\ f.udp = p
      /\ f.end # "frame" <=> letter.room < MinFrame
      /\ f.end = "none" <=> letter.room < HdrLen + 2
  <2> DEFINE room == letter.room
             n == IF p <= room - HdrLen THEN p ELSE room - HdrLen
  <2>1. f = IF room < HdrLen + 2 THEN Unframed ELSE Framed(room, n)
    BY DEF BuildStateFrame, BuildPayload, p
  <2> HIDE DEF f
  <2>2. CASE room < HdrLen + 2
    <3>1. f.end = "none" /\ f.len = 0 /\ f.udp = 0
      BY <2>1, <2>2 DEF Unframed
    <3> QED
      BY <1>1, <1>2, <2>2, <3>1 DEF HdrLen, MinFrame, MaxFrame
  <2>3. CASE ~(room < HdrLen + 2)
    <3>1. /\ f.len = (IF HdrLen + n < MinFrame THEN MinFrame ELSE HdrLen + n) /\ f.udp = n
          /\ f.end = (IF HdrLen + n < MinFrame /\ room < MinFrame THEN "panic" ELSE "frame")
      BY <2>1, <2>3 DEF Framed
    <3>2. /\ n \in Nat /\ n <= 1476 /\ n <= room - HdrLen /\ (room >= HdrLen + p => n = p)
          /\ room < MinFrame => HdrLen + n < MinFrame
          /\ room >= MinFrame => HdrLen + n >= MinFrame
      BY <1>1, <1>2, <2>3 DEF HdrLen, MinFrame
    <3> HIDE DEF n
    <3>3. room >= MinFrame <=> f.end = "frame"
      BY <1>1, <3>1, <3>2 DEF HdrLen, MinFrame
    <3>4. f.end # "none" /\ (room >= HdrLen + p => room >= MinFrame)
      BY <1>1, <1>2, <3>1 DEF HdrLen, MinFrame
    <3> QED
      BY <1>1, <1>2, <2>3, <3>1, <3>2, <3>3, <3>4 DEF HdrLen, MinFrame
  <2> QED
    BY <2>2, <2>3
<1> HIDE DEF f
<1> DEFINE h == IpHeader(f.udp)
<1>4. WordsOf(h) \in Nat /\ 0 < WordsOf(h) /\ WordsOf(h) < 65536 * 10
  <2> DEFINE t == 28 + f.udp
  <2>1. t \in Nat /\ t <= 1504 /\ 20 + 8 + f.udp = t
    BY <1>3
  <2> HIDE DEF t
  <2>2. t \div 256 \in Nat /\ t \div 256 < 256 /\ t % 256 \in Nat /\ t % 256 < 256
    BY <2>1
  <2>3. h = <<69, 0, t \div 256, t % 256, 0, 0, 64, 0, 64, 17, 0, 0, 192, 168, 0, 200, 192, 168, 0, 255>>
    BY <2>1 DEF IpHeader
  <2>4. WordsOf(h) = 256 * (69 + (t \div 256) + 0 + 64 + 64 + 0 + 192 + 0 + 192 + 0)
                     + 0 + (t % 256) + 0 + 0 + 17 + 0 + 168 + 200 + 168 + 255
    BY <2>3 DEF WordsOf
  <2> QED
    <3>1. \A a, b \in Nat : a < 256 /\ b < 256 =>
             LET v == 256 * (69 + a + 0 + 64 + 64 + 0 + 192 + 0 + 192 + 0) + 0 + b + 0 + 0 + 17 + 0 + 168 + 200 + 168 + 255
             IN  v \in Nat /\ 0 < v /\ v < 65536 * 10
      BY SMT
    <3> QED
      BY <2>2, <2>4, <3>1, SMT
<1> HIDE DEF h
<1>5. Fold(Fold(WordsOf(h) + Ipv4Checksum(h))) = 65535
  BY <1>4, SumIsAccepted, SMT DEF Ipv4Checksum
<1>6. ArpRequestFor(letter.asks, Us) =>
         /\ BuildArpReply(Us, letter.asks.sender).dst = letter.asks.sender
         /\ BuildArpReply(Us, letter.asks.sender).sender = Us
         /\ \A ip \in Askers \cup {Us} : ~ArpRequestFor(BuildArpReply(Us, letter.asks.sender), ip)
  BY DEF ArpRequestFor, BuildArpReply
<1>7. MaxFrame >= HdrLen + p
  BY <1>2 DEF MaxFrame, HdrLen
<1> QED
  BY ONLY <1>2, <1>3, <1>5, <1>6, <1>7, SMTT(60) DEF FramesTell, f, h, p
-----------------------------------------------------------------------------
(* The senses together: a step moves one part and leaves the others as     *)
(* they are.                                                               *)
SensesIInv == TouchIInv /\ PadIInv /\ PainIInv /\ LineIInv

(* The invariants of the four parts hold together from the start and after *)
(* every step of Senses, whichever part it is.                             *)
THEOREM SensesInductive == Spec => []SensesIInv
<1>1. Init => SensesIInv
  BY TouchInitIInv, PadInitIInv, PainInitIInv, LineInitIInv DEF Init, SensesIInv
<1>2. SensesIInv /\ [Next]_sensesVars => SensesIInv'
  <2> SUFFICES ASSUME SensesIInv, [Next]_sensesVars PROVE SensesIInv'
    OBVIOUS
  <2>1. [TouchNext]_touchVars
    BY DEF Next, FollowTouch, FollowPad, FollowPain, FollowLine, Resting, sensesVars
  <2>2. [PadNext]_padVars
    BY DEF Next, FollowTouch, FollowPad, FollowPain, FollowLine, Resting, sensesVars
  <2>3. [PainNext]_painVars
    BY DEF Next, FollowTouch, FollowPad, FollowPain, FollowLine, Resting, sensesVars
  <2>4. [LineNext]_lineVars
    BY DEF Next, FollowTouch, FollowPad, FollowPain, FollowLine, Resting, sensesVars
  <2> QED
    BY <2>1, <2>2, <2>3, <2>4, TouchNextIInv, PadNextIInv, PainNextIInv, LineNextIInv DEF SensesIInv
<1> QED
  BY <1>1, <1>2, PTL DEF Spec

(* Every variable of the senses keeps its type and its range: no queue,    *)
(* group, line or count passes its capacity (src/touchpad.rs feed,         *)
(* src/serial.rs LineReader, src/pain.rs).                                 *)
THEOREM SensesTypeCorrect == Spec => []TypeOK
<1>1. SensesIInv => TypeOK
  BY TouchSafe, PadSafe, PainSafe, LineSafe DEF SensesIInv, TypeOK
<1> QED
  BY <1>1, SensesInductive, PTL

(* One finger on one key: when the port is empty KEY_HELD is set exactly   *)
(* as long as the key is down, whatever the touchpad sends through the     *)
(* same port (src/ps2.rs destinazione, src/cfc.rs key_press, key_release). *)
THEOREM ContactIsHonest == Spec => []HonestForOneKey
<1>1. SensesIInv => HonestForOneKey
  BY TouchSafe DEF SensesIInv
<1> QED
  BY <1>1, SensesInductive, PTL

(* The gestures of the touchpad come out of the assembler as they were     *)
(* made as long as no byte is lost, and its phase is what the bytes gone   *)
(* by make it (src/ps2.rs Assemblatore::byte, decodifica).                 *)
THEOREM GesturesAreKept == Spec => []GesturesComeOut
<1>1. SensesIInv => GesturesComeOut
  BY PadSafe DEF SensesIInv
<1> QED
  BY <1>1, SensesInductive, PTL

(* The instrument of pain is felt for no more steps than the last command  *)
(* asked, or one (src/pain.rs scadi, arm), and an injected event reaches   *)
(* the step that follows it and no other.                                  *)
THEOREM PainIsAsAsked == Spec => []PainIsCounted
<1>1. SensesIInv => PainIsCounted
  BY PainSafe DEF SensesIInv
<1> QED
  BY <1>1, SensesInductive, PTL

(* A line executed never mixes two lines of the host, and a host that      *)
(* waits for the echo is understood to the letter (src/serial.rs           *)
(* LineReader::push, consume).                                             *)
THEOREM LinesAreWhole == Spec => []LinesAreKept
<1>1. SensesIInv => LinesAreKept
  BY LineSafe DEF SensesIInv
<1> QED
  BY <1>1, SensesInductive, PTL

(* Of a buffer of any length: a frame is built exactly if it holds the     *)
(* least of Ethernet, stays in it, is of the length it says and passes the *)
(* receiver's sum, with the telemetry whole where that fits, as it does in *)
(* the loop's; shorter than the headers there is none, and between the     *)
(* build halts.  An ARP answer goes to who asked and is no question        *)
(* (src/net.rs build_state_frame, ipv4_checksum, build_arp_reply).         *)
THEOREM FramesTellTheTruth == Spec => []FramesAreTrue
<1> DEFINE L == followed = "frames" => letter \in Letters
<1>1. Init => L
  BY DEF Init, FramesInit
<1>2. L /\ [Next]_sensesVars => L'
  BY DEF Next, FollowTouch, FollowPad, FollowPain, FollowLine, Resting, sensesVars, still
<1>3. L => FramesAreTrue
  BY LetterTells DEF FramesAreTrue
<1> QED
  BY <1>1, <1>2, <1>3, PTL DEF Spec
-----------------------------------------------------------------------------
(* Registro.  The registry is the cards in their order, the first of them  *)
(* that it has room for.                                                   *)
Cards == [via : {"Riflesso", "Integrazione"}, priorita : Nat,
          stato : {"Valido", "Incerto", "Guasto"}]

Registered(reg, all, i) == /\ Len(reg) = (IF i <= MaxCanali THEN i ELSE MaxCanali)
                           /\ \A k \in 1..Len(reg) : reg[k] = all[k]

LEMMA RegistraKeeps ==
  ASSUME NEW all \in Seq(Cards), NEW i \in 0..(Len(all) - 1),
         NEW reg \in Seq(Cards), Registered(reg, all, i)
  PROVE  Registered(Registra(reg, all[i + 1]), all, i + 1)
<1> DEFINE c == all[i + 1]
<1>1. MaxCanali \in Nat /\ Len(all) \in Nat /\ Len(reg) \in Nat /\ c \in Cards
  <2>1. Len(all) \in Nat
    OBVIOUS
  <2>2. i + 1 \in 1..Len(all)
    BY <2>1
  <2> QED
    BY <2>1, <2>2, ElementOfSeq, RegistroAssumption
<1>2. CASE Len(reg) >= MaxCanali
  <2>1. Registra(reg, c) = reg
    BY <1>2 DEF Registra
  <2>2. Len(reg) = MaxCanali /\ i >= MaxCanali
    BY <1>1, <1>2 DEF Registered
  <2> QED
    BY <1>1, <2>1, <2>2 DEF Registered
<1>3. CASE ~(Len(reg) >= MaxCanali)
  <2>1. Registra(reg, c) = Append(reg, c)
    BY <1>3 DEF Registra
  <2>2. Len(reg) = i /\ i + 1 <= MaxCanali
    BY <1>1, <1>3 DEF Registered
  <2>3. /\ Len(Append(reg, c)) = i + 1
        /\ \A k \in 1..i : Append(reg, c)[k] = reg[k]
        /\ Append(reg, c)[i + 1] = c
    BY <2>2, AppendProperties
  <2> DEFINE new == Append(reg, c)
  <2> HIDE DEF new
  <2>4. \A k \in 1..(i + 1) : new[k] = all[k]
    <3>1. \A k \in 1..(i + 1) : k = i + 1 \/ k \in 1..i
      OBVIOUS
    <3>2. \A k \in 1..i : reg[k] = all[k]
      BY <2>2 DEF Registered
    <3> QED
      BY <2>3, <3>1, <3>2 DEF new
  <2>5. Len(new) = i + 1
    BY <2>3 DEF new
  <2>6. Registered(new, all, i + 1)
    BY <1>1, <2>2, <2>4, <2>5 DEF Registered
  <2> QED
    BY <2>1, <2>6 DEF new
<1> QED
  BY <1>2, <1>3

LEMMA RegistraTyped ==
  ASSUME NEW reg \in Seq(Cards), NEW c \in Cards
  PROVE  Registra(reg, c) \in Seq(Cards)
  BY AppendProperties DEF Registra

LEMMA AtBootCards ==
  AtBoot \in Seq(Cards) /\ Len(AtBoot) = 7
<1>1. \A good \in BOOLEAN : /\ Card("Riflesso", 0, good) \in Cards
                            /\ \A p \in Nat : Card("Integrazione", p, good) \in Cards
  BY DEF Card, Cards
<1>2. ASSUME self \in Bodies PROVE self.ear \in BOOLEAN /\ self.pad \in BOOLEAN
  BY <1>2 DEF Bodies
<1> QED
  BY <1>1 DEF AtBoot, Card, Cards

LEMMA RegistryIsFilled ==
  ASSUME self \in Bodies
  PROVE  Registry \in Seq(Cards) /\ Registered(Registry, AtBoot \o self.deck, Len(AtBoot \o self.deck))
<1> DEFINE all == AtBoot \o self.deck
           last == Len(all)
           unrolled(f) == [i \in 0..last |-> IF i = 0 THEN <<>> ELSE Registra(f[i - 1], all[i])]
           P(f) == f = unrolled(f)
           step == [p \in (0..last) \X Seq(Cards) |-> Registra(p[2], all[p[1]])]
<1>1. all \in Seq(Cards) /\ last \in Nat
  <2>1. self.deck \in Seq(Cards)
    BY RegistroAssumption DEF Bodies, Cards
  <2>2. all \in Seq(Cards)
    BY <2>1, AtBootCards, ConcatProperties
  <2> HIDE DEF all
  <2> QED
    BY <2>2, LenProperties
<1>2. Registry = (CHOOSE f : P(f))[last]
  BY DEF Registry
<1> HIDE DEF all
<1>3. \A i \in 1..last : all[i] \in Cards
  BY <1>1, ElementOfSeq
<1>3a. last = Len(all)
  OBVIOUS
<1> HIDE DEF last
<1>4. ASSUME NEW i \in 1..last, NEW r \in Seq(Cards)
      PROVE  step[<<i, r>>] = Registra(r, all[i]) /\ step[<<i, r>>] \in Seq(Cards)
  <2>1. <<i, r>> \in (0..last) \X Seq(Cards) /\ <<i, r>>[1] = i /\ <<i, r>>[2] = r
    BY <1>1
  <2>2. step[<<i, r>>] = Registra(<<i, r>>[2], all[<<i, r>>[1]])
    BY <2>1
  <2> HIDE DEF step
  <2>3. step[<<i, r>>] = Registra(r, all[i])
    BY <2>1, <2>2
  <2> QED
    BY <1>3, <2>3, RegistraTyped
<1> HIDE DEF step
<1>5. Stays(step, 0, last, Seq(Cards))
  <2> SUFFICES ASSUME NEW i \in (0 + 1)..last, NEW r \in Seq(Cards)
               PROVE  step[<<i, r>>] \in Seq(Cards)
    BY DEF Stays
  <2>1. i \in 1..last
    BY <1>1
  <2> QED
    BY <1>4, <2>1
<1>6. \E f : Recurses(f, <<>>, step, 0, last, Seq(Cards))
  <2>1. 0 \in Int /\ last \in Int /\ 0 <= last
    BY <1>1
  <2>2. <<>> \in Seq(Cards)
    BY EmptySeq
  <2> QED
    BY <1>5, <2>1, <2>2, Recursion
<1>7. PICK f \in [0..last -> Seq(Cards)] :
        f[0] = <<>> /\ \A i \in 1..last : f[i] = step[<<i, f[i - 1]>>]
  <2>1. 0 + 1 = 1
    OBVIOUS
  <2> QED
    BY <1>6, <2>1 DEF Recurses
<1>8. P(f)
  <2>1. ASSUME NEW i \in 1..last PROVE f[i] = Registra(f[i - 1], all[i])
    <3>1. i - 1 \in 0..last
      BY <1>1
    <3>2. f[i - 1] \in Seq(Cards) /\ f[i] = step[<<i, f[i - 1]>>]
      BY <1>7, <3>1
    <3> QED
      BY <1>4, <3>2
  <2>2. \A i \in 0..last : i # 0 => i \in 1..last
    BY <1>1
  <2>3. \A i \in 0..last : f[i] = IF i = 0 THEN <<>> ELSE Registra(f[i - 1], all[i])
    BY <1>7, <2>1, <2>2
  <2> QED
    BY <1>7, <2>3
<1> DEFINE g == CHOOSE h : P(h)
<1>9. P(g)
  <2> HIDE DEF P
  <2> QED
    BY <1>8
<1> HIDE DEF g
<1> DEFINE T == {k \in 0..last : g[k] \in Seq(Cards) /\ Registered(g[k], all, k)}
<1>10. 0 \in T
  <2>1. g[0] = <<>> /\ 0 \in 0..last
    BY <1>1, <1>9
  <2>2. <<>> \in Seq(Cards) /\ Len(<<>>) = 0
    BY EmptySeq
  <2>3. Registered(<<>>, all, 0)
    <3>1. MaxCanali \in Nat /\ 0 <= MaxCanali
      BY RegistroAssumption
    <3> QED
      BY <2>2, <3>1 DEF Registered
  <2> HIDE DEF Registered
  <2> QED
    BY <2>1, <2>2, <2>3
<1>11. \A i \in 0..(last - 1) : i \in T => i + 1 \in T
  <2> SUFFICES ASSUME NEW i \in 0..(last - 1), g[i] \in Seq(Cards), Registered(g[i], all, i)
               PROVE  /\ i + 1 \in 0..last
                      /\ g[i + 1] \in Seq(Cards) /\ Registered(g[i + 1], all, i + 1)
    OBVIOUS
  <2>1. i + 1 \in 1..last /\ i + 1 \in 0..last /\ i + 1 # 0 /\ (i + 1) - 1 = i
    BY <1>1
  <2>2. g[i + 1] = Registra(g[i], all[i + 1])
    <3>1. g[i + 1] = Registra(g[(i + 1) - 1], all[i + 1])
      BY <1>9, <2>1
    <3> QED
      BY <2>1, <3>1
  <2>3. all[i + 1] \in Cards
    BY <1>3, <2>1
  <2>4. g[i + 1] \in Seq(Cards)
    BY <2>2, <2>3, RegistraTyped
  <2>5. i \in 0..(Len(all) - 1)
    BY <1>3a
  <2>6. Registered(g[i + 1], all, i + 1)
    BY <1>1, <2>2, <2>5, RegistraKeeps
  <2> QED
    BY <2>1, <2>4, <2>6
<1>12. \A i \in 0..last : i \in T
  <2> HIDE DEF T
  <2>1. 0 \in Int /\ last \in Int
    BY <1>1
  <2> QED
    BY ONLY <1>10, <1>11, <2>1, UpTo, Zenon
<1>13. last \in T
  BY <1>1, <1>12
<1>14. Registry = g[last]
  BY <1>2 DEF g
<1> QED
  BY <1>3a, <1>13, <1>14 DEF all

(* What the registry holds: at least the seven of the boot, those first. *)
LEMMA RegistryHolds ==
  ASSUME self \in Bodies
  PROVE  /\ Registry \in Seq(Cards) /\ Len(Registry) >= 7
         /\ Registry[1] = AtBoot[1] /\ Registry[7] = AtBoot[7]
<1> DEFINE all == AtBoot \o self.deck
           reg == Registry
<1>1. reg \in Seq(Cards) /\ Registered(reg, all, Len(all))
  BY RegistryIsFilled
<1>2. self.deck \in Seq(Cards) /\ AtBoot \in Seq(Cards) /\ Len(AtBoot) = 7
  BY RegistroAssumption, AtBootCards DEF Bodies, Cards
<1>3. /\ Len(all) = 7 + Len(self.deck) /\ Len(self.deck) \in Nat
      /\ all[1] = AtBoot[1] /\ all[7] = AtBoot[7]
  <2>1. Len(self.deck) \in Nat
    BY <1>2, LenProperties
  <2>2. /\ Len(AtBoot \o self.deck) = Len(AtBoot) + Len(self.deck)
        /\ \A i \in 1..Len(AtBoot) + Len(self.deck) : (AtBoot \o self.deck)[i] =
             IF i <= Len(AtBoot) THEN AtBoot[i] ELSE self.deck[i - Len(AtBoot)]
    <3> HIDE DEF all
    <3> QED
      BY ONLY <1>2, ConcatProperties, Zenon
  <2>3. /\ \A i \in 1..7 : i \in 1..Len(AtBoot) + Len(self.deck) /\ i <= Len(AtBoot)
        /\ 1 \in 1..7 /\ 7 \in 1..7
    BY <1>2, <2>1
  <2> QED
    BY <1>2, <2>1, <2>2, <2>3
<1> HIDE DEF all, reg
<1>4. Len(all) >= 7 /\ Len(all) \in Nat /\ Len(reg) \in Nat /\ MaxCanali >= 7 /\ MaxCanali \in Nat
  BY <1>1, <1>3, RegistroAssumption
<1>5. Len(reg) >= 7
  BY <1>1, <1>4 DEF Registered
<1>6. reg[1] = all[1] /\ reg[7] = all[7]
  BY <1>1, <1>4, <1>5 DEF Registered
<1> QED
  BY <1>1, <1>3, <1>5, <1>6 DEF reg
-----------------------------------------------------------------------------
(* Registro, the order.  Being more urgent is a strict order of the cards. *)
LEMMA UrgencyOrders ==
  /\ \A x \in Cards : ~PiuUrgente(x, x)
  /\ \A x, y, z \in Cards : PiuUrgente(x, y) /\ PiuUrgente(y, z) => PiuUrgente(x, z)
  /\ \A x, y \in Cards : x.via = "Riflesso" /\ y.via # "Riflesso" => PiuUrgente(x, y)
  BY DEF Cards, PiuUrgente

Orders(total) == [1..total -> 1..total]

(* best of b: the first most urgent of the places from a to b. *)
BestPlaces(reg, out, a, total) ==
  CHOOSE best : best = [b \in a..total |->
    IF b = a THEN a
    ELSE IF PiuUrgente(reg[out[b]], reg[out[best[b - 1]]]) THEN b ELSE best[b - 1]]

MostUrgent(reg, out, a, b, p) ==
  p \in a..b /\ \A k \in a..b : ~PiuUrgente(reg[out[k]], reg[out[p]])

LEMMA ScanFinds ==
  ASSUME NEW total \in Nat, NEW reg \in [1..total -> Cards],
         NEW out \in Orders(total), NEW a \in 1..total
  PROVE  MostUrgent(reg, out, a, total, BestPlaces(reg, out, a, total)[total])
<1> DEFINE U(i, j) == PiuUrgente(reg[out[i]], reg[out[j]])
           P(f) == f = [b \in a..total |-> IF b = a THEN a ELSE IF U(b, f[b - 1]) THEN b ELSE f[b - 1]]
           step == [p \in (a..total) \X (a..total) |-> IF U(p[1], p[2]) THEN p[1] ELSE p[2]]
           g == BestPlaces(reg, out, a, total)
<1>1. g = CHOOSE f : P(f)
  BY DEF BestPlaces
<1>2. \A i \in a..total : reg[out[i]] \in Cards
  BY DEF Orders
<1>3. /\ \A i \in a..total : ~U(i, i)
      /\ \A i, j, k \in a..total : U(i, j) /\ U(j, k) => U(i, k)
  <2> HIDE DEF Cards
  <2> QED
    BY <1>2, UrgencyOrders
<1>4. ASSUME NEW i \in (a + 1)..total, NEW r \in a..total
      PROVE  step[<<i, r>>] = (IF U(i, r) THEN i ELSE r) /\ step[<<i, r>>] \in a..total
  <2>1. <<i, r>> \in (a..total) \X (a..total) /\ <<i, r>>[1] = i /\ <<i, r>>[2] = r
    OBVIOUS
  <2> HIDE DEF U
  <2>2. step[<<i, r>>] = IF U(<<i, r>>[1], <<i, r>>[2]) THEN <<i, r>>[1] ELSE <<i, r>>[2]
    BY <2>1
  <2> HIDE DEF step
  <2>3. i \in a..total
    OBVIOUS
  <2> QED
    BY <2>1, <2>2, <2>3
<1> HIDE DEF step, U
<1>5. \E f : Recurses(f, a, step, a, total, a..total)
  <2>1. Stays(step, a, total, a..total)
    BY <1>4 DEF Stays
  <2>2. a \in Int /\ total \in Int /\ a <= total /\ a \in a..total
    OBVIOUS
  <2> QED
    BY <2>1, <2>2, Recursion
<1>6. PICK f \in [a..total -> a..total] :
        f[a] = a /\ \A i \in (a + 1)..total : f[i] = step[<<i, f[i - 1]>>]
  BY <1>5 DEF Recurses
<1>7. P(f)
  <2>1. ASSUME NEW i \in (a + 1)..total
        PROVE  f[i] = IF U(i, f[i - 1]) THEN i ELSE f[i - 1]
    <3>1. i - 1 \in a..total
      OBVIOUS
    <3>2. f[i - 1] \in a..total
      BY <1>6, <3>1
    <3> QED
      BY <1>4, <1>6, <3>2
  <2>2. \A i \in a..total : i # a => i \in (a + 1)..total
    OBVIOUS
  <2>3. \A i \in a..total : f[i] = IF i = a THEN a ELSE IF U(i, f[i - 1]) THEN i ELSE f[i - 1]
    BY <1>6, <2>1, <2>2
  <2> QED
    BY <1>6, <2>3
<1> HIDE DEF g
<1>8. P(g)
  <2> HIDE DEF P
  <2> QED
    BY <1>1, <1>7
<1> DEFINE T == {b \in a..total : g[b] \in a..b /\ \A k \in a..b : ~U(k, g[b])}
<1>9. a \in T
  <2>1. g[a] = a /\ a \in a..total
    BY <1>8
  <2> QED
    BY <1>3, <2>1
<1>10. ASSUME NEW i \in a..(total - 1), i \in T PROVE i + 1 \in T
  <2> DEFINE p == g[i]
  <2>1. p \in a..i /\ \A k \in a..i : ~U(k, p)
    BY <1>10
  <2>2. i + 1 \in a..total /\ i + 1 # a /\ (i + 1) - 1 = i
    OBVIOUS
  <2>3. g[i + 1] = IF U(i + 1, p) THEN i + 1 ELSE p
    <3>1. g[i + 1] = IF U(i + 1, g[(i + 1) - 1]) THEN i + 1 ELSE g[(i + 1) - 1]
      BY <1>8, <2>2
    <3> QED
      BY <2>2, <3>1
  <2> HIDE DEF p, P
  <2>4. \A k \in a..(i + 1) : k = i + 1 \/ k \in a..i
    OBVIOUS
  <2>5. p \in a..total /\ \A k \in a..(i + 1) : k \in a..total
    BY <2>1
  <2>6. CASE U(i + 1, p)
    <3>1. \A k \in a..(i + 1) : ~U(k, i + 1)
      BY <1>3, <2>1, <2>2, <2>4, <2>5, <2>6
    <3>2. g[i + 1] = i + 1 /\ i + 1 \in a..(i + 1)
      BY <2>3, <2>6
    <3> QED
      BY <2>2, <3>1, <3>2
  <2>7. CASE ~U(i + 1, p)
    <3>1. \A k \in a..(i + 1) : ~U(k, p)
      BY <2>1, <2>4, <2>7
    <3>2. g[i + 1] = p /\ p \in a..(i + 1)
      BY <2>1, <2>3, <2>7
    <3> QED
      BY <2>2, <3>1, <3>2
  <2> QED
    BY <2>6, <2>7
<1>11. \A b \in a..total : b \in T
  <2> HIDE DEF T
  <2>1. a \in Int /\ total \in Int
    OBVIOUS
  <2> QED
    BY ONLY <1>9, <1>10, <2>1, UpTo, Zenon
<1>12. total \in T
  BY <1>11
<1> QED
  BY <1>12 DEF MostUrgent, g, U

(* The places of a list, each once, those up to a in their order. *)
Sorted(reg, out, a, total) ==
  /\ \A i \in 1..a : \A j \in (i + 1)..total : ~PiuUrgente(reg[out[j]], reg[out[i]])
  /\ \A k \in 1..total : \E i \in 1..total : out[i] = k

Swap(out, a, b) == [out EXCEPT ![a] = out[b], ![b] = out[a]]

LEMMA SwapIs ==
  ASSUME NEW total \in Nat, NEW out \in Orders(total), NEW a \in 1..total, NEW b \in 1..total
  PROVE  /\ Swap(out, a, b) \in Orders(total)
         /\ Swap(out, a, b)[a] = out[b] /\ Swap(out, a, b)[b] = out[a]
         /\ \A i \in (1..total) \ {a, b} : Swap(out, a, b)[i] = out[i]
  BY DEF Orders, Swap

LEMMA SwapSorts ==
  ASSUME NEW total \in Nat, NEW reg \in [1..total -> Cards],
         NEW out \in Orders(total), NEW a \in 1..total, Sorted(reg, out, a - 1, total),
         NEW b \in a..total, MostUrgent(reg, out, a, total, b)
  PROVE  Swap(out, a, b) \in Orders(total) /\ Sorted(reg, Swap(out, a, b), a, total)
<1> DEFINE new == Swap(out, a, b)
<1>1. b \in 1..total
  OBVIOUS
<1>2. /\ new \in Orders(total) /\ new[a] = out[b] /\ new[b] = out[a]
      /\ \A i \in (1..total) \ {a, b} : new[i] = out[i]
  BY <1>1, SwapIs
<1> HIDE DEF new
<1>3. \A j \in a..total : \E k \in a..total : new[j] = out[k]
  <2> SUFFICES ASSUME NEW j \in a..total PROVE \E k \in a..total : new[j] = out[k]
    OBVIOUS
  <2>1. a \in a..total
    OBVIOUS
  <2>2. j \in {a, b} \/ j \in (1..total) \ {a, b}
    OBVIOUS
  <2> QED
    BY <1>2, <2>1, <2>2
<1>4. \A j \in 1..(a - 1) : new[j] = out[j]
  BY <1>2
<1>5. ASSUME NEW i \in 1..a, NEW j \in (i + 1)..total
      PROVE  ~PiuUrgente(reg[new[j]], reg[new[i]])
  <2>1. CASE i = a
    <3>1. j \in a..total
      BY <2>1
    <3>2. PICK k \in a..total : new[j] = out[k]
      BY <1>3, <3>1
    <3> QED
      BY <1>2, <2>1, <3>2 DEF MostUrgent
  <2>2. CASE i # a
    <3>1. i \in 1..(a - 1) /\ new[i] = out[i]
      BY <1>4, <2>2
    <3>2. PICK k \in (i + 1)..total : new[j] = out[k]
      <4>1. CASE j \in a..total
        <5>1. PICK k \in a..total : new[j] = out[k]
          BY <1>3, <4>1
        <5>2. k \in (i + 1)..total
          BY <3>1
        <5> QED
          BY <5>1, <5>2
      <4>2. CASE j \notin a..total
        <5>1. j \in 1..(a - 1)
          BY <4>2
        <5> QED
          BY <1>4, <5>1
      <4> QED
        BY <4>1, <4>2
    <3> QED
      BY <3>1, <3>2 DEF Sorted
  <2> QED
    BY <2>1, <2>2
<1>6. ASSUME NEW k \in 1..total PROVE \E i \in 1..total : new[i] = k
  <2>1. PICK i \in 1..total : out[i] = k
    BY DEF Sorted
  <2>2. i \in {a, b} \/ i \in (1..total) \ {a, b}
    OBVIOUS
  <2> QED
    BY <1>1, <1>2, <2>1, <2>2
<1>7. Sorted(reg, new, a, total)
  BY <1>5, <1>6 DEF Sorted
<1> QED
  BY <1>2, <1>7 DEF new

(* What a list of the registry is when it is sorted to the end. *)
Served(reg, out, total) == /\ out \in Orders(total) /\ Sorted(reg, out, total, total)

LEMMA OrdineSorts ==
  ASSUME NEW reg \in Seq(Cards)
  PROVE  Served(reg, Ordine(reg), Len(reg))
<1> DEFINE total == Len(reg)
           Best(out, a) == BestPlaces(reg, out, a, total)[total]
           first == [i \in 1..total |-> i]
           P(f) == f = [a \in 0..total |->
             IF a = 0 THEN first ELSE Swap(f[a - 1], a, Best(f[a - 1], a))]
           step == [p \in (0..total) \X Orders(total) |-> Swap(p[2], p[1], Best(p[2], p[1]))]
<1>1. Ordine(reg) = (CHOOSE f : P(f))[total]
  BY Zenon DEF Ordine, BestPlaces, Swap
<1>2. total \in Nat /\ reg \in [1..total -> Cards]
  BY LenProperties
<1> HIDE DEF total
<1>3. ASSUME NEW a \in 1..total, NEW out \in Orders(total)
      PROVE  /\ Best(out, a) \in a..total
             /\ Swap(out, a, Best(out, a)) \in Orders(total)
             /\ Sorted(reg, out, a - 1, total) => Sorted(reg, Swap(out, a, Best(out, a)), a, total)
  <2>1. MostUrgent(reg, out, a, total, Best(out, a))
    BY <1>2, ScanFinds
  <2>2. Best(out, a) \in a..total
    BY <2>1 DEF MostUrgent
  <2> HIDE DEF Best
  <2>3. Best(out, a) \in 1..total
    BY <1>2, <2>2
  <2>4. Swap(out, a, Best(out, a)) \in Orders(total)
    BY <1>2, <2>3, SwapIs
  <2>5. Sorted(reg, out, a - 1, total) => Sorted(reg, Swap(out, a, Best(out, a)), a, total)
    BY <1>2, <2>1, <2>2, SwapSorts
  <2> QED
    BY <2>2, <2>4, <2>5
<1> HIDE DEF Best
<1>4. ASSUME NEW a \in 1..total, NEW out \in Orders(total)
      PROVE  step[<<a, out>>] = Swap(out, a, Best(out, a)) /\ step[<<a, out>>] \in Orders(total)
  <2>1. <<a, out>> \in (0..total) \X Orders(total) /\ <<a, out>>[1] = a /\ <<a, out>>[2] = out
    BY <1>2
  <2>2. step[<<a, out>>] = Swap(<<a, out>>[2], <<a, out>>[1], Best(<<a, out>>[2], <<a, out>>[1]))
    BY <2>1
  <2> HIDE DEF step
  <2>3. step[<<a, out>>] = Swap(out, a, Best(out, a))
    BY <2>1, <2>2
  <2> QED
    BY <1>3, <2>3
<1> HIDE DEF step
<1>5. first \in Orders(total) /\ \A k \in 1..total : first[k] = k
  BY DEF Orders
<1> HIDE DEF first
<1>6. \E f : Recurses(f, first, step, 0, total, Orders(total))
  <2>1. Stays(step, 0, total, Orders(total))
    <3> SUFFICES ASSUME NEW i \in (0 + 1)..total, NEW r \in Orders(total)
                 PROVE  step[<<i, r>>] \in Orders(total)
      BY DEF Stays
    <3>1. i \in 1..total
      BY <1>2
    <3> QED
      BY <1>4, <3>1
  <2>2. 0 \in Int /\ total \in Int /\ 0 <= total
    BY <1>2
  <2> QED
    BY <1>5, <2>1, <2>2, Recursion
<1>7. PICK f \in [0..total -> Orders(total)] :
        f[0] = first /\ \A i \in 1..total : f[i] = step[<<i, f[i - 1]>>]
  <2>1. 0 + 1 = 1
    OBVIOUS
  <2> QED
    BY <1>6, <2>1 DEF Recurses
<1>8. P(f)
  <2>1. ASSUME NEW i \in 1..total PROVE f[i] = Swap(f[i - 1], i, Best(f[i - 1], i))
    <3>1. i - 1 \in 0..total
      BY <1>2
    <3>2. f[i - 1] \in Orders(total)
      BY <1>7, <3>1
    <3> QED
      BY <1>4, <1>7, <3>2
  <2>2. \A i \in 0..total : i # 0 => i \in 1..total
    BY <1>2
  <2>3. \A i \in 0..total : f[i] = IF i = 0 THEN first ELSE Swap(f[i - 1], i, Best(f[i - 1], i))
    BY <1>7, <2>1, <2>2
  <2> QED
    BY <1>7, <2>3
<1> DEFINE g == CHOOSE h : P(h)
<1>9. P(g)
  <2> HIDE DEF P
  <2> QED
    BY <1>8
<1> HIDE DEF g
<1> DEFINE T == {a \in 0..total : g[a] \in Orders(total) /\ Sorted(reg, g[a], a, total)}
<1>10. 0 \in T
  <2>1. g[0] = first /\ 0 \in 0..total
    BY <1>2, <1>9
  <2>2. Sorted(reg, first, 0, total)
    BY <1>5 DEF Sorted
  <2> QED
    BY <1>5, <2>1, <2>2
<1>11. ASSUME NEW i \in 0..(total - 1), i \in T PROVE i + 1 \in T
  <2>1. i + 1 \in 1..total /\ i + 1 \in 0..total /\ i + 1 # 0 /\ (i + 1) - 1 = i
    BY <1>2
  <2> DEFINE out == g[i]
  <2>2. out \in Orders(total) /\ Sorted(reg, out, (i + 1) - 1, total)
    BY <1>11, <2>1
  <2>3. g[i + 1] = Swap(out, i + 1, Best(out, i + 1))
    <3>1. g[i + 1] = Swap(g[(i + 1) - 1], i + 1, Best(g[(i + 1) - 1], i + 1))
      BY <1>9, <2>1
    <3> QED
      BY <2>1, <3>1
  <2> HIDE DEF out
  <2>4. g[i + 1] \in Orders(total) /\ Sorted(reg, g[i + 1], i + 1, total)
    BY <1>3, <2>1, <2>2, <2>3
  <2> QED
    BY <2>1, <2>4
<1>12. \A a \in 0..total : a \in T
  <2> HIDE DEF T
  <2>1. 0 \in Int /\ total \in Int
    BY <1>2
  <2> QED
    BY ONLY <1>10, <1>11, <2>1, UpTo, Zenon
<1>13. total \in T
  BY <1>2, <1>12
<1> QED
  BY <1>1, <1>13 DEF Served, g, total
-----------------------------------------------------------------------------
(* Registro, what is told.  Each card has one of the two ways. *)
LEMMA WaysAreCounted ==
  ASSUME NEW reg \in Seq(Cards)
  PROVE  ContaVia(reg, "Riflesso") + ContaVia(reg, "Integrazione") = Len(reg)
<1> DEFINE R == {i \in DOMAIN reg : reg[i].via = "Riflesso"}
           I == {i \in DOMAIN reg : reg[i].via = "Integrazione"}
<1>1. DOMAIN reg = 1..Len(reg) /\ Len(reg) \in Nat
  BY LenProperties
<1>2. IsFiniteSet(1..Len(reg)) /\ Cardinality(1..Len(reg)) = Len(reg)
  BY <1>1, FS_Interval
<1>3. R \cup I = 1..Len(reg) /\ R \cap I = {}
  <2>1. ASSUME NEW i \in 1..Len(reg) PROVE reg[i].via \in {"Riflesso", "Integrazione"}
    <3>1. reg[i] \in Cards
      BY ElementOfSeq
    <3> QED
      BY ONLY <3>1 DEF Cards
  <2> QED
    BY <1>1, <2>1
<1>4. IsFiniteSet(R) /\ IsFiniteSet(I)
  <2>1. R \subseteq 1..Len(reg) /\ I \subseteq 1..Len(reg)
    BY <1>1
  <2> HIDE DEF R, I
  <2> QED
    BY <1>2, <2>1, FS_Subset
<1> HIDE DEF R, I
<1>5. Cardinality(R \cup I) = Cardinality(R) + Cardinality(I) - Cardinality(R \cap I)
  BY <1>4, FS_Union
<1>6. Cardinality({}) = 0 /\ Cardinality(R) \in Nat /\ Cardinality(I) \in Nat
  BY <1>4, FS_EmptySet, FS_CardinalityType
<1>7. Cardinality(R) + Cardinality(I) = Len(reg)
  <2>1. Cardinality(R \cup I) = Len(reg) /\ Cardinality(R \cap I) = 0
    BY <1>2, <1>3, <1>6, Zenon
  <2> QED
    BY ONLY <1>1, <1>5, <1>6, <2>1
<1> QED
  BY <1>7 DEF ContaVia, R, I

(* A temperature is felt where its register holds a credible one. *)
Credible(cpu) ==
  \/ cpu.vendor = "intel" /\ cpu.status = "valid" /\ cpu.tj > 0
  \/ /\ cpu.vendor = "amd"
     /\ LET r == cpu.has IN cpu.cur[r] \in 1..1200 /\ (r = "pci_f3" => cpu.nb # {})

LEMMA RightRegister ==
  ASSUME NEW cpu \in Cpus, cpu.vendor = "amd"
  PROVE  Rotta(cpu) = cpu.has /\ cpu.cur[cpu.has] \in Nat
<1>1. /\ cpu.base = 15 /\ cpu.ext \in 0..255 /\ cpu.model \in 0..255
      /\ cpu.has = IF cpu.ext >= 8 THEN "smn_zen"
                   ELSE IF cpu.ext = 6 /\ cpu.model \in 96..127 THEN "smn_f15h" ELSE "pci_f3"
      /\ cpu.cur \in [{"smn_zen", "smn_f15h", "pci_f3"} -> Nat]
  BY RegistroAssumption
<1>2. \A m \in 0..255 : m \div 16 \in {6, 7} <=> m \in 96..127
  <2> SUFFICES ASSUME NEW m \in 0..255 PROVE m \div 16 \in {6, 7} <=> m \in 96..127
    OBVIOUS
  <2>1. m = 16 * (m \div 16) + (m % 16) /\ m % 16 \in 0..15 /\ m \div 16 \in Int
    OBVIOUS
  <2> QED
    BY <2>1
<1>3. Family(cpu) = 15 + cpu.ext
  BY <1>1 DEF Family
<1> QED
  BY <1>1, <1>2, <1>3 DEF Rotta

LEMMA WarmthIsFelt ==
  ASSUME NEW cpu \in Cpus
  PROVE  Temperatura(cpu) # NoTemp <=> Credible(cpu)
<1>1. CASE cpu.vendor = "intel"
  <2>1. cpu.tj \in 0..255 /\ cpu.delta \in 0..127 /\ cpu.status \in {"none", "stale", "valid"}
    BY RegistroAssumption
  <2>2. Temperatura(cpu) = TemperaturaDa(cpu.tj, cpu.status, cpu.delta)
    BY <1>1 DEF Temperatura
  <2>3. Credible(cpu) <=> cpu.status = "valid" /\ cpu.tj > 0
    BY <1>1 DEF Credible
  <2>4. CASE cpu.status = "valid" /\ cpu.tj > 0
    <3>1. Temperatura(cpu) = 8 * (cpu.tj - cpu.delta)
      BY <2>1, <2>2, <2>4 DEF TemperaturaDa
    <3>2. \A j \in 0..255, d \in 0..127 : 8 * (j - d) # NoTemp
      BY DEF NoTemp
    <3> QED
      BY <2>1, <2>3, <2>4, <3>1, <3>2
  <2>5. CASE ~(cpu.status = "valid" /\ cpu.tj > 0)
    BY <2>1, <2>2, <2>3, <2>5 DEF TemperaturaDa
  <2> QED
    BY <2>4, <2>5
<1>2. CASE cpu.vendor = "amd"
  <2> DEFINE r == cpu.has
             raw == AmdRaw(cpu)
  <2>1. Rotta(cpu) = r /\ cpu.cur[r] \in Nat
    BY <1>2, RightRegister
  <2>2. Temperatura(cpu) = TctlDaRaw(raw)
    BY <1>2 DEF Temperatura
  <2>3. raw = IF r = "pci_f3" /\ cpu.nb = {} THEN 0 ELSE cpu.cur[r]
    BY <2>1 DEF AmdRaw
  <2>4. TctlDaRaw(raw) # NoTemp <=> raw \in 1..1200
    <3>1. \A t \in 1..1200 : t # NoTemp
      BY DEF NoTemp
    <3> HIDE DEF raw
    <3>2. (raw \in 1..1200 => TctlDaRaw(raw) = raw) /\ (raw \notin 1..1200 => TctlDaRaw(raw) = NoTemp)
      BY DEF TctlDaRaw
    <3> QED
      BY ONLY <3>1, <3>2
  <2>5. Credible(cpu) <=> cpu.cur[r] \in 1..1200 /\ (r = "pci_f3" => cpu.nb # {})
    BY <1>2 DEF Credible
  <2>6. raw \in 1..1200 <=> cpu.cur[r] \in 1..1200 /\ (r = "pci_f3" => cpu.nb # {})
    <3> HIDE DEF raw, r
    <3>1. CASE r = "pci_f3" /\ cpu.nb = {}
      BY ONLY <2>3, <3>1
    <3>2. CASE ~(r = "pci_f3" /\ cpu.nb = {})
      <4>1. raw = cpu.cur[r]
        BY ONLY <2>3, <3>2, Zenon
      <4> QED
        BY ONLY <3>2, <4>1
    <3> QED
      BY ONLY <3>1, <3>2
  <2>7. Temperatura(cpu) # NoTemp <=> raw \in 1..1200
    <3> HIDE DEF raw
    <3> QED
      BY ONLY <2>2, <2>4
  <2> HIDE DEF raw, r
  <2> QED
    BY ONLY <2>5, <2>6, <2>7, SMTT(20)
<1>3. CASE cpu.vendor \notin {"intel", "amd"}
  BY <1>3, SMTT(20) DEF Temperatura, Credible
<1> QED
  BY <1>1, <1>2, <1>3

LEMMA RegistryIsServed ==
  ASSUME self \in Bodies
  PROVE  ServedInOrder
<1> DEFINE reg == Registry
           out == Ordine(reg)
           total == Len(reg)
<1>1. reg \in Seq(Cards) /\ total >= 7 /\ reg[1] = AtBoot[1] /\ reg[7] = AtBoot[7]
  BY RegistryHolds
<1>2. out \in Orders(total) /\ Sorted(reg, out, total, total)
  <2> HIDE DEF reg
  <2> QED
    BY <1>1, OrdineSorts DEF Served
<1>3. ContaVia(reg, "Riflesso") + ContaVia(reg, "Integrazione") = Len(reg)
  <2> HIDE DEF reg
  <2> QED
    BY <1>1, WaysAreCounted
<1>4. self.cpu \in Cpus /\ self.ear \in BOOLEAN
  BY DEF Bodies
<1>5. /\ AtBoot[1].stato = "Guasto" <=> ~self.ear
      /\ AtBoot[7].stato = "Guasto" <=> ~Credible(self.cpu)
  <2>1. Temperatura(self.cpu) # NoTemp <=> Credible(self.cpu)
    BY <1>4, WarmthIsFelt
  <2>2. /\ AtBoot[1] = Card("Riflesso", 0, self.ear)
        /\ AtBoot[7] = Card("Integrazione", 1, Temperatura(self.cpu) # NoTemp)
    BY DEF AtBoot
  <2>3. \A via, p, ok : Card(via, p, ok).stato = IF ok THEN "Valido" ELSE "Guasto"
    BY DEF Card
  <2>4. AtBoot[1].stato = IF self.ear THEN "Valido" ELSE "Guasto"
    BY <2>2, <2>3
  <2>5. AtBoot[7].stato = IF Temperatura(self.cpu) # NoTemp THEN "Valido" ELSE "Guasto"
    <3>1. PICK warm \in BOOLEAN : warm = (Temperatura(self.cpu) # NoTemp)
      OBVIOUS
    <3>2. Card("Integrazione", 1, warm).stato = IF warm THEN "Valido" ELSE "Guasto"
      BY <2>3
    <3> QED
      BY <2>2, <3>1, <3>2, Zenon
  <2> QED
    BY <2>1, <2>4, <2>5
<1> HIDE DEF reg, out
<1>6. total \in Nat /\ DOMAIN reg = 1..total /\ DOMAIN out = 1..total
  BY <1>1, <1>2, LenProperties DEF Orders
<1>7. GuastiMask(reg) = {i \in 1..total : reg[i].stato = "Guasto"}
  BY <1>6 DEF GuastiMask
<1>8. /\ 1 \in GuastiMask(reg) <=> ~self.ear
      /\ 7 \in GuastiMask(reg) <=> ~Credible(self.cpu)
  BY <1>1, <1>5, <1>6, <1>7
<1>9. {out[i] : i \in DOMAIN out} = DOMAIN reg
  <2>1. \A i \in 1..total : out[i] \in 1..total
    BY <1>2 DEF Orders
  <2> QED
    BY <1>2, <1>6, <2>1 DEF Sorted
<1>10. \A i, j \in DOMAIN out : i < j => ~PiuUrgente(reg[out[j]], reg[out[i]])
  <2> SUFFICES ASSUME NEW i \in 1..total, NEW j \in 1..total, i < j
               PROVE  ~PiuUrgente(reg[out[j]], reg[out[i]])
    BY <1>6
  <2>1. j \in (i + 1)..total
    BY <1>6
  <2> QED
    BY <1>2, <2>1 DEF Sorted
<1>11. \A i, j \in DOMAIN out :
         i < j => ~(reg[out[j]].via = "Riflesso" /\ reg[out[i]].via # "Riflesso")
  <2>1. \A i \in DOMAIN out : reg[out[i]] \in Cards
    BY <1>1, <1>2, <1>6, ElementOfSeq DEF Orders
  <2> HIDE DEF Cards
  <2> SUFFICES ASSUME NEW i \in DOMAIN out, NEW j \in DOMAIN out, i < j
               PROVE  ~(reg[out[j]].via = "Riflesso" /\ reg[out[i]].via # "Riflesso")
    OBVIOUS
  <2>2. ~PiuUrgente(reg[out[j]], reg[out[i]])
    BY <1>10
  <2> QED
    BY <2>1, <2>2, UrgencyOrders, Zenon
<1>12. ContaGuasti(reg) = Cardinality(GuastiMask(reg))
  BY DEF ContaGuasti, GuastiMask
<1> QED
  BY <1>3, <1>8, <1>9, <1>10, <1>11, <1>12 DEF ServedInOrder, Credible, reg, out

(* Every registered sense is served once and in its order, the faults that *)
(* are told are those of the organs whose probe failed, and a temperature  *)
(* is felt exactly where it is kept (src/sensi.rs ordine, conta_via,       *)
(* guasti_mask; src/intero.rs temperatura_amd, tctl_da_raw).               *)
THEOREM SensesServed == Spec => []SensesAreServed
<1> DEFINE L == followed = "registry" => self \in Bodies
<1>1. Init => L
  BY DEF Init, RegistroInit
<1>2. L /\ [Next]_sensesVars => L'
  BY DEF Next, FollowTouch, FollowPad, FollowPain, FollowLine, Resting, sensesVars, still
<1>3. L => SensesAreServed
  BY RegistryIsServed DEF SensesAreServed
<1> QED
  BY <1>1, <1>2, <1>3, PTL DEF Spec
-----------------------------------------------------------------------------
(* Text.  A power and the value of digits are what one digit more makes of *)
(* what there was.                                                         *)
Powers(g, base, top) == g[0] = 1 /\ \A k \in 1..top : g[k] = base * g[k - 1]

LEMMA PowerHas ==
  ASSUME NEW base \in Nat, NEW top \in Nat
  PROVE  \E g \in [0..top -> Nat] : Powers(g, base, top) /\ Power(base, top) = g[top]
<1> DEFINE P(f) == f = [k \in 0..top |-> IF k = 0 THEN 1 ELSE base * f[k - 1]]
           step == [p \in (0..top) \X Nat |-> base * p[2]]
           g == CHOOSE f : P(f)
<1>1. Power(base, top) = g[top]
  BY DEF Power
<1>2. ASSUME NEW k \in 1..top, NEW w \in Nat
      PROVE  step[<<k, w>>] = base * w /\ step[<<k, w>>] \in Nat
  <2>1. <<k, w>> \in (0..top) \X Nat /\ <<k, w>>[2] = w
    OBVIOUS
  <2> QED
    BY <2>1
<1> HIDE DEF step
<1>3. \E f : Recurses(f, 1, step, 0, top, Nat)
  <2>1. Stays(step, 0, top, Nat)
    <3> SUFFICES ASSUME NEW k \in (0 + 1)..top, NEW w \in Nat PROVE step[<<k, w>>] \in Nat
      BY DEF Stays
    <3>1. k \in 1..top
      OBVIOUS
    <3> QED
      BY <1>2, <3>1
  <2>2. 0 \in Int /\ top \in Int /\ 0 <= top /\ 1 \in Nat
    OBVIOUS
  <2> QED
    BY <2>1, <2>2, Recursion
<1>4. PICK f \in [0..top -> Nat] : f[0] = 1 /\ \A k \in 1..top : f[k] = step[<<k, f[k - 1]>>]
  BY <1>3 DEF Recurses
<1>5. P(f)
  <2>1. ASSUME NEW k \in 1..top PROVE f[k] = base * f[k - 1]
    <3>1. k - 1 \in 0..top /\ f[k - 1] \in Nat
      BY <1>4
    <3> QED
      BY <1>2, <1>4, <3>1
  <2>2. \A k \in 0..top : k # 0 => k \in 1..top
    OBVIOUS
  <2> QED
    BY <1>4, <2>1, <2>2
<1> HIDE DEF g
<1>6. P(g)
  <2> HIDE DEF P
  <2> QED
    BY <1>5 DEF g
<1>7. Powers(g, base, top)
  <2>1. \A k \in 1..top : k \in 0..top /\ k # 0
    OBVIOUS
  <2> QED
    BY <1>6, <2>1 DEF Powers
<1> DEFINE T == {k \in 0..top : g[k] \in Nat}
<1>8. \A k \in 0..top : k \in T
  <2>1. 0 \in T
    BY <1>7 DEF Powers
  <2>2. ASSUME NEW k \in 0..(top - 1), k \in T PROVE k + 1 \in T
    <3>1. k + 1 \in 1..top /\ k + 1 \in 0..top /\ (k + 1) - 1 = k
      OBVIOUS
    <3>2. g[k + 1] = base * g[k]
      BY <1>7, <3>1 DEF Powers
    <3>3. base * g[k] \in Nat
      BY <2>2
    <3> QED
      BY <3>1, <3>2, <3>3
  <2>3. 0 \in Int /\ top \in Int
    OBVIOUS
  <2> HIDE DEF T
  <2> QED
    BY ONLY <2>1, <2>2, <2>3, UpTo, Zenon
<1>9. g \in [0..top -> Nat]
  <2>1. g = [k \in 0..top |-> g[k]]
    BY <1>6
  <2>2. \A k \in 0..top : g[k] \in Nat
    BY <1>8
  <2> HIDE DEF P, T
  <2> QED
    BY ONLY <2>1, <2>2
<1> HIDE DEF P, T
<1> QED
  BY <1>1, <1>7, <1>9

LEMMA PowersAgree ==
  ASSUME NEW top \in Nat, NEW base \in Nat, NEW f, NEW g, Powers(f, base, top), Powers(g, base, top)
  PROVE  f[top] = g[top]
<1> DEFINE T == {k \in 0..top : f[k] = g[k]}
<1>1. 0 \in T
  BY DEF Powers
<1>2. ASSUME NEW k \in 0..(top - 1), k \in T PROVE k + 1 \in T
  <2>1. k + 1 \in 1..top /\ k + 1 \in 0..top /\ (k + 1) - 1 = k
    OBVIOUS
  <2>2. f[k + 1] = base * f[k] /\ g[k + 1] = base * g[k]
    BY <2>1 DEF Powers
  <2> QED
    BY <1>2, <2>1, <2>2
<1>3. 0 \in Int /\ top \in Int /\ top \in 0..top
  OBVIOUS
<1> HIDE DEF T
<1>4. \A k \in 0..top : k \in T
  BY ONLY <1>1, <1>2, <1>3, UpTo, Zenon
<1> QED
  BY <1>3, <1>4 DEF T

LEMMA PowerIs ==
  ASSUME NEW base \in Nat, NEW top \in Nat
  PROVE  /\ Power(base, 0) = 1 /\ Power(base, top) \in Nat
         /\ Power(base, top + 1) = base * Power(base, top)
<1>1. Power(base, 0) = 1
  BY PowerHas DEF Powers
<1>2. PICK g \in [0..top -> Nat] : Powers(g, base, top) /\ Power(base, top) = g[top]
  BY PowerHas
<1>3. PICK h \in [0..(top + 1) -> Nat] : Powers(h, base, top + 1) /\ Power(base, top + 1) = h[top + 1]
  <2>1. top + 1 \in Nat
    OBVIOUS
  <2> QED
    BY <2>1, PowerHas
<1>4. Powers(h, base, top) /\ h[top + 1] = base * h[top]
  <2>1. (\A k \in 1..top : k \in 1..(top + 1)) /\ top + 1 \in 1..(top + 1) /\ (top + 1) - 1 = top
    OBVIOUS
  <2>2. h[0] = 1 /\ \A k \in 1..(top + 1) : h[k] = base * h[k - 1]
    BY <1>3 DEF Powers
  <2>3. h[top + 1] = base * h[(top + 1) - 1]
    BY <2>1, <2>2
  <2> QED
    BY <2>1, <2>2, <2>3 DEF Powers
<1>5. h[top] = g[top]
  BY <1>2, <1>4, PowersAgree
<1>6. Power(base, top) \in Nat
  BY <1>2
<1> QED
  BY <1>1, <1>2, <1>3, <1>4, <1>5, <1>6

LEMMA PowerGrows ==
  ASSUME NEW base \in Nat \ {0}, NEW top \in Nat, NEW k \in 0..top
  PROVE  Power(base, k) \in Nat \ {0} /\ Power(base, k) <= Power(base, top)
<1> DEFINE T == {j \in k..top : Power(base, j) \in Nat \ {0} /\ Power(base, k) <= Power(base, j)}
           T1 == {j \in 0..top : Power(base, j) \in Nat \ {0}}
<1>1. ASSUME NEW j \in Nat, Power(base, j) \in Nat \ {0}
      PROVE  Power(base, j + 1) \in Nat \ {0} /\ Power(base, j) <= Power(base, j + 1)
  <2>1. Power(base, j + 1) = base * Power(base, j) /\ base \in Nat
    BY PowerIs
  <2>2. \A x, y \in Nat \ {0} : x * y \in Nat \ {0} /\ y <= x * y
    OBVIOUS
  <2> QED
    BY <1>1, <2>1, <2>2
<1>2. \A j \in 0..top : j \in T1
  <2>1. 0 \in T1
    BY PowerIs
  <2>2. ASSUME NEW j \in 0..(top - 1), j \in T1 PROVE j + 1 \in T1
    <3>1. j \in Nat /\ j + 1 \in 0..top
      OBVIOUS
    <3> QED
      BY <1>1, <2>2, <3>1
  <2>3. 0 \in Int /\ top \in Int
    OBVIOUS
  <2> HIDE DEF T1
  <2> QED
    BY ONLY <2>1, <2>2, <2>3, UpTo, Zenon
<1>3. \A j \in k..top : j \in T
  <2>1. k \in T
    <3>1. k \in T1 /\ k \in k..top
      BY <1>2
    <3> QED
      BY <3>1
  <2>2. ASSUME NEW j \in k..(top - 1), j \in T PROVE j + 1 \in T
    <3>1. j \in Nat /\ j + 1 \in k..top
      OBVIOUS
    <3>2. Power(base, k) \in Nat
      <4>1. k \in T1
        BY <1>2
      <4> QED
        BY <4>1
    <3> QED
      BY <1>1, <2>2, <3>1, <3>2
  <2>3. k \in Int /\ top \in Int
    OBVIOUS
  <2> HIDE DEF T
  <2> QED
    BY ONLY <2>1, <2>2, <2>3, UpTo, Zenon
<1>4. k \in T1 /\ top \in T
  BY <1>2, <1>3
<1> QED
  BY <1>4

Values(g, s, base) == g[0] = 0 /\ \A k \in 1..Len(s) : g[k] = base * g[k - 1] + s[k]

LEMMA ValueHas ==
  ASSUME NEW s \in Seq(Nat), NEW base \in Nat
  PROVE  \E g \in [0..Len(s) -> Nat] : Values(g, s, base) /\ Value(s, base) = g[Len(s)]
<1> DEFINE top == Len(s)
           P(f) == f = [k \in 0..top |-> IF k = 0 THEN 0 ELSE base * f[k - 1] + s[k]]
           step == [p \in (0..top) \X Nat |-> base * p[2] + s[p[1]]]
           g == CHOOSE f : P(f)
<1>1. Value(s, base) = g[top]
  BY DEF Value
<1>2. top \in Nat /\ \A k \in 1..top : s[k] \in Nat
  BY LenProperties, ElementOfSeq
<1>2a. top = Len(s)
  OBVIOUS
<1> HIDE DEF top
<1>3. ASSUME NEW k \in 1..top, NEW w \in Nat
      PROVE  step[<<k, w>>] = base * w + s[k] /\ step[<<k, w>>] \in Nat
  <2>1. <<k, w>> \in (0..top) \X Nat /\ <<k, w>>[2] = w /\ <<k, w>>[1] = k
    BY <1>2
  <2>2. base * w \in Nat /\ s[k] \in Nat
    BY <1>2
  <2>3. step[<<k, w>>] = base * <<k, w>>[2] + s[<<k, w>>[1]]
    BY <2>1
  <2> HIDE DEF step
  <2>4. step[<<k, w>>] = base * w + s[k]
    BY <2>1, <2>3
  <2> QED
    BY <2>2, <2>4
<1> HIDE DEF step
<1>4. \E f : Recurses(f, 0, step, 0, top, Nat)
  <2>1. Stays(step, 0, top, Nat)
    <3> SUFFICES ASSUME NEW k \in (0 + 1)..top, NEW w \in Nat PROVE step[<<k, w>>] \in Nat
      BY DEF Stays
    <3>1. k \in 1..top
      BY <1>2
    <3> QED
      BY <1>3, <3>1
  <2>2. 0 \in Int /\ top \in Int /\ 0 <= top /\ 0 \in Nat
    BY <1>2
  <2> QED
    BY <2>1, <2>2, Recursion
<1>5. PICK f \in [0..top -> Nat] : f[0] = 0 /\ \A k \in 1..top : f[k] = step[<<k, f[k - 1]>>]
  <2>1. 0 + 1 = 1
    OBVIOUS
  <2> QED
    BY <1>4, <2>1 DEF Recurses
<1>6. P(f)
  <2>1. ASSUME NEW k \in 1..top PROVE f[k] = base * f[k - 1] + s[k]
    <3>1. k - 1 \in 0..top /\ f[k - 1] \in Nat
      BY <1>2, <1>5
    <3> QED
      BY <1>3, <1>5, <3>1
  <2>2. \A k \in 0..top : k # 0 => k \in 1..top
    BY <1>2
  <2> QED
    BY <1>5, <2>1, <2>2
<1> HIDE DEF g
<1>7. P(g)
  <2> HIDE DEF P
  <2> QED
    BY <1>6 DEF g
<1>8. g[0] = 0 /\ \A k \in 1..top : g[k] = base * g[k - 1] + s[k]
  <2>1. 0 \in 0..top /\ \A k \in 1..top : k \in 0..top /\ k # 0
    BY <1>2
  <2> QED
    BY <1>7, <2>1
<1>8a. g = [k \in 0..top |-> g[k]]
  BY <1>7
<1> HIDE DEF P
<1> DEFINE T == {k \in 0..top : g[k] \in Nat}
<1>9. \A k \in 0..top : k \in T
  <2>1. 0 \in T
    BY <1>2, <1>8
  <2>2. ASSUME NEW k \in 0..(top - 1), k \in T PROVE k + 1 \in T
    <3>1. k + 1 \in 1..top /\ k + 1 \in 0..top /\ (k + 1) - 1 = k
      BY <1>2
    <3>2. g[k + 1] = base * g[k] + s[k + 1]
      BY <1>8, <3>1
    <3>3. base * g[k] \in Nat /\ s[k + 1] \in Nat
      BY <1>2, <2>2, <3>1
    <3> QED
      BY <3>1, <3>2, <3>3
  <2>3. 0 \in Int /\ top \in Int
    BY <1>2
  <2> HIDE DEF T
  <2> QED
    BY ONLY <2>1, <2>2, <2>3, UpTo, Zenon
<1>10. g \in [0..top -> Nat]
  <2>1. \A k \in 0..top : g[k] \in Nat
    BY <1>9
  <2> HIDE DEF T
  <2> QED
    BY ONLY <1>8a, <2>1
<1>11. Values(g, s, base)
  BY <1>2a, <1>8 DEF Values
<1> QED
  BY <1>1, <1>2a, <1>10, <1>11

(* Whatever counts the digits of a text one by one counts its value. *)
LEMMA ValueIs ==
  ASSUME NEW s \in Seq(Nat), NEW base \in Nat, NEW f, Values(f, s, base)
  PROVE  Value(s, base) = f[Len(s)]
<1> DEFINE top == Len(s)
<1>1. PICK g \in [0..Len(s) -> Nat] : Values(g, s, base) /\ Value(s, base) = g[Len(s)]
  BY ValueHas
<1>2. top \in Nat
  BY LenProperties
<1> DEFINE T == {k \in 0..top : f[k] = g[k]}
<1>3. 0 \in T
  BY <1>1, <1>2 DEF Values
<1>4. ASSUME NEW k \in 0..(top - 1), k \in T PROVE k + 1 \in T
  <2>1. k + 1 \in 1..top /\ k + 1 \in 0..top /\ (k + 1) - 1 = k
    BY <1>2
  <2>2. f[k + 1] = base * f[k] + s[k + 1] /\ g[k + 1] = base * g[k] + s[k + 1]
    BY <1>1, <2>1 DEF Values
  <2> QED
    BY <1>4, <2>1, <2>2
<1>5. 0 \in Int /\ top \in Int /\ top \in 0..top
  BY <1>2
<1> HIDE DEF T
<1>6. \A k \in 0..top : k \in T
  BY ONLY <1>3, <1>4, <1>5, UpTo, Zenon
<1> QED
  BY <1>1, <1>5, <1>6 DEF T

LEMMA ValueIsNat ==
  ASSUME NEW s \in Seq(Nat)
  PROVE  Value(s, 10) \in Nat /\ Value(s, 16) \in Nat
<1>1. Len(s) \in 0..Len(s) /\ 10 \in Nat /\ 16 \in Nat
  BY LenProperties
<1> QED
  BY <1>1, ValueHas, SMTT(20)

LEMMA ValueOfNone ==
  ASSUME NEW base \in Nat
  PROVE  Value(<<>>, base) = 0
<1>1. <<>> \in Seq(Nat) /\ Len(<<>>) = 0
  BY EmptySeq
<1> QED
  BY <1>1, ValueHas DEF Values

LEMMA ValueOfAppend ==
  ASSUME NEW s \in Seq(Nat), NEW base \in Nat, NEW d \in Nat
  PROVE  Value(Append(s, d), base) = base * Value(s, base) + d /\ Value(s, base) \in Nat
<1> DEFINE top == Len(s)
           t == Append(s, d)
<1>1. PICK g \in [0..Len(s) -> Nat] : Values(g, s, base) /\ Value(s, base) = g[Len(s)]
  BY ValueHas
<1>2. top \in Nat /\ t \in Seq(Nat) /\ Len(t) = top + 1 /\ t[top + 1] = d
      /\ \A k \in 1..top : t[k] = s[k]
  BY AppendProperties, LenProperties
<1> DEFINE f == [k \in 0..(top + 1) |-> IF k = top + 1 THEN base * g[top] + d ELSE g[k]]
<1>3. f[0] = g[0] /\ f[top + 1] = base * g[top] + d /\ \A k \in 0..top : f[k] = g[k]
  BY <1>2
<1> HIDE DEF f, t
<1>4. Values(f, t, base)
  <2>1. f[0] = 0
    BY <1>1, <1>3 DEF Values
  <2>2. ASSUME NEW k \in 1..(top + 1) PROVE f[k] = base * f[k - 1] + t[k]
    <3>1. CASE k = top + 1
      <4>1. k - 1 = top /\ top \in 0..top
        BY <1>2, <3>1
      <4> QED
        BY <1>2, <1>3, <3>1, <4>1
    <3>2. CASE k # top + 1
      <4>1. k \in 1..top /\ k \in 0..top /\ k - 1 \in 0..top
        BY <1>2, <3>2
      <4>2. g[k] = base * g[k - 1] + s[k]
        BY <1>1, <4>1 DEF Values
      <4> QED
        BY <1>2, <1>3, <4>1, <4>2
    <3> QED
      BY <3>1, <3>2
  <2> QED
    BY <1>2, <2>1, <2>2 DEF Values
<1>5. Value(t, base) = f[top + 1]
  BY <1>2, <1>4, ValueIs
<1>6. g[top] \in Nat
  <2>1. Len(s) \in 0..Len(s)
    BY <1>2
  <2> QED
    BY <1>1, <2>1
<1> QED
  BY <1>1, <1>3, <1>5, <1>6 DEF t

(* Zeros in front count for nothing. *)
LEMMA ValueOfZeros ==
  ASSUME NEW s \in Seq(Nat), NEW base \in Nat, NEW z \in Nat
  PROVE  Value(Zeros(z) \o s, base) = Value(s, base) /\ Zeros(z) \o s \in Seq(Nat)
<1> DEFINE top == Len(s)
           t == Zeros(z) \o s
<1>1. PICK g \in [0..Len(s) -> Nat] : Values(g, s, base) /\ Value(s, base) = g[Len(s)]
  BY ValueHas
<1>2. Zeros(z) \in Seq(Nat) /\ Len(Zeros(z)) = z /\ \A k \in 1..z : Zeros(z)[k] = 0
  BY DEF Zeros
<1>3. top \in Nat
  BY LenProperties
<1>4. /\ t \in Seq(Nat) /\ Len(t) = z + top
      /\ \A k \in 1..(z + top) : t[k] = IF k <= z THEN Zeros(z)[k] ELSE s[k - z]
  <2>1. /\ t \in Seq(Nat) /\ Len(t) = Len(Zeros(z)) + Len(s)
        /\ \A k \in 1..(Len(Zeros(z)) + Len(s)) :
             t[k] = IF k <= Len(Zeros(z)) THEN Zeros(z)[k] ELSE s[k - Len(Zeros(z))]
    BY ONLY <1>2, ConcatProperties, s \in Seq(Nat), Zenon
  <2> HIDE DEF t
  <2> QED
    BY <1>2, <2>1
<1> DEFINE f == [k \in 0..(z + top) |-> IF k <= z THEN 0 ELSE g[k - z]]
<1>5. /\ \A k \in 0..z : f[k] = 0
      /\ \A k \in z..(z + top) : f[k] = g[k - z]
  <2>1. \A k \in 0..z : k \in 0..(z + top)
    BY <1>3
  <2>2. g[0] = 0
    BY <1>1 DEF Values
  <2>3. \A k \in z..(z + top) : k \in 0..(z + top) /\ (k <= z => k = z /\ k - z = 0)
    BY <1>3
  <2> QED
    BY <2>1, <2>2, <2>3
<1> HIDE DEF f, t
<1>6. ASSUME NEW k \in 1..(z + top) PROVE f[k] = base * f[k - 1] + t[k]
  <2>1. CASE k <= z
    <3>1. k \in 0..z /\ k - 1 \in 0..z /\ k \in 1..z /\ k \in 1..(z + top)
      BY <1>3, <2>1
    <3>2. t[k] = 0 /\ f[k] = 0 /\ f[k - 1] = 0
      BY <1>2, <1>4, <1>5, <2>1, <3>1
    <3> QED
      BY <3>2
  <2>2. CASE ~(k <= z)
    <3> DEFINE j == k - z
    <3>1. j \in 1..top /\ k \in z..(z + top) /\ k - 1 \in z..(z + top) /\ (k - 1) - z = j - 1
      BY <1>3, <2>2
    <3>2. g[j] = base * g[j - 1] + s[j]
      <4> HIDE DEF j
      <4> QED
        BY <1>1, <3>1 DEF Values
    <3>3. t[k] = s[j] /\ f[k] = g[j] /\ f[k - 1] = g[j - 1]
      BY <1>4, <1>5, <2>2, <3>1
    <3> QED
      BY <3>2, <3>3
  <2> QED
    BY <2>1, <2>2
<1>7. f[0] = 0
  <2>1. 0 \in 0..z
    OBVIOUS
  <2> QED
    BY <1>5, <2>1
<1>8. Values(f, t, base)
  BY <1>4, <1>6, <1>7 DEF Values
<1>9. Value(t, base) = f[z + top]
  BY <1>4, <1>8, ValueIs
<1>10. f[z + top] = g[top]
  <2>1. z + top \in z..(z + top) /\ (z + top) - z = top
    BY <1>3
  <2> QED
    BY <1>5, <2>1
<1> QED
  BY <1>1, <1>4, <1>9, <1>10 DEF t

LEMMA DigitsAreNumbers ==
  ASSUME NEW s \in Seq(0..9)
  PROVE  s \in Seq(Nat) /\ Len(s) \in Nat /\ \A k \in 1..Len(s) : s[k] \in 0..9
<1>1. Len(s) \in Nat /\ s = [k \in 1..Len(s) |-> s[k]] /\ \A k \in 1..Len(s) : s[k] \in 0..9
  BY LenProperties, ElementOfSeq
<1> QED
  BY <1>1

(* A decimal has the value of the number, and as many digits as it needs. *)
Written(d, w) ==
  /\ d \in Seq(0..9) /\ Value(d, 10) = w /\ Len(d) >= 1
  /\ w < 10 => d = <<w>>
  /\ 10 <= w /\ w < 100 => d = <<w \div 10, w % 10>>
  /\ 100 <= w /\ w < 1000 => Len(d) = 3
  /\ 1000 <= w /\ w < 10000 => Len(d) = 4

LEMMA PairIs ==
  ASSUME NEW S, NEW a \in S, NEW b \in S
  PROVE  Append(<<a>>, b) = <<a, b>>
<1> DEFINE s == <<a>>
           t == <<a, b>>
<1>1. s \in Seq(S) /\ t \in Seq(S) /\ Len(s) = 1 /\ s[1] = a
  OBVIOUS
<1>2. Len(t) = 2 /\ t[1] = a /\ t[2] = b
  OBVIOUS
<1> HIDE DEF s, t
<1>3. /\ Append(s, b) \in Seq(S) /\ Len(Append(s, b)) = 2
      /\ Append(s, b)[1] = a /\ Append(s, b)[2] = b
  BY <1>1, AppendProperties DEF s
<1>4. \A i \in 1..2 : i = 1 \/ i = 2
  OBVIOUS
<1>5. \A i \in 1..2 : Append(s, b)[i] = t[i]
  BY <1>2, <1>3, <1>4
<1>6. Append(s, b) = t
  BY <1>1, <1>2, <1>3, <1>5, SeqEqual
<1> QED
  BY <1>6 DEF s, t

LEMMA FirstDigit ==
  ASSUME NEW w \in 0..9
  PROVE  Written(<<w>>, w)
<1>1. <<>> \in Seq(Nat) /\ Append(<<>>, w) = <<w>>
  BY EmptySeq
<1>2. Value(<<w>>, 10) = 10 * Value(<<>>, 10) + w
  <2>1. 10 \in Nat /\ w \in Nat
    OBVIOUS
  <2> QED
    BY <1>1, <2>1, ValueOfAppend, ZenonT(30)
<1>3. Value(<<w>>, 10) = w
  <2>1. Value(<<>>, 10) = 0
    BY ValueOfNone
  <2> QED
    BY <1>2, <2>1
<1>4. <<w>> \in Seq(0..9) /\ Len(<<w>>) = 1
  OBVIOUS
<1> DEFINE d == <<w>>
<1>5. d = <<w>>
  OBVIOUS
<1> HIDE DEF d
<1> QED
  BY <1>3, <1>4, <1>5 DEF Written

LEMMA NextDigit ==
  ASSUME NEW w \in Nat, w >= 10, NEW e, Written(e, w \div 10)
  PROVE  Written(Append(e, w % 10), w)
<1> DEFINE h == w \div 10
           d == w % 10
           t == Append(e, d)
<1>1. h \in Nat /\ d \in 0..9 /\ w = 10 * h + d /\ d \in Nat
  OBVIOUS
<1>2. e \in Seq(0..9) /\ Value(e, 10) = h /\ Len(e) >= 1
  BY DEF Written
<1>3. e \in Seq(Nat) /\ Len(e) \in Nat
  BY <1>2, DigitsAreNumbers
<1>4. t \in Seq(0..9) /\ Len(t) = Len(e) + 1
  <2> HIDE DEF d, h
  <2> QED
    BY <1>1, <1>2, AppendProperties
<1>5. Value(t, 10) = w
  <2> HIDE DEF d, h
  <2>1. 10 \in Nat
    OBVIOUS
  <2>2. Value(t, 10) = 10 * Value(e, 10) + d
    BY <1>1, <1>3, <2>1, ValueOfAppend
  <2> QED
    BY <1>1, <1>2, <2>2
<1>6. 10 <= w /\ w < 100 => t = <<h, d>>
  <2> SUFFICES ASSUME 10 <= w /\ w < 100 PROVE t = <<h, d>>
    OBVIOUS
  <2>1. h < 10
    OBVIOUS
  <2>2. e = <<h>>
    BY <2>1 DEF Written
  <2>3. Append(<<h>>, d) = <<h, d>>
    <3> HIDE DEF h, d
    <3> QED
      BY <1>1, PairIs
  <2> HIDE DEF h, d
  <2> QED
    BY <2>2, <2>3, Zenon
<1>7. 100 <= w /\ w < 1000 => Len(e) = 2
  <2> SUFFICES ASSUME 100 <= w /\ w < 1000 PROVE Len(e) = 2
    OBVIOUS
  <2>1. 10 <= h /\ h < 100
    OBVIOUS
  <2>2. e = <<h \div 10, h % 10>>
    BY <2>1 DEF Written
  <2> HIDE DEF h, d
  <2> QED
    BY <2>2
<1>8. 1000 <= w /\ w < 10000 => Len(e) = 3
  <2> SUFFICES ASSUME 1000 <= w /\ w < 10000 PROVE Len(e) = 3
    OBVIOUS
  <2>1. 100 <= h /\ h < 1000
    OBVIOUS
  <2> QED
    BY <2>1 DEF Written
<1> HIDE DEF t
<1>9. (100 <= w /\ w < 1000 => Len(t) = 3) /\ (1000 <= w /\ w < 10000 => Len(t) = 4)
  <2>1. Len(t) = Len(e) + 1
    BY <1>4
  <2>2. ASSUME 100 <= w, w < 1000 PROVE Len(t) = 3
    <3>1. Len(e) = 2
      BY <1>7, <2>2
    <3> QED
      BY <2>1, <3>1
  <2>3. ASSUME 1000 <= w, w < 10000 PROVE Len(t) = 4
    <3>1. Len(e) = 3
      BY <1>8, <2>3
    <3> QED
      BY <2>1, <3>1
  <2> QED
    BY <2>2, <2>3
<1>10. ~(w < 10) /\ Len(t) >= 1
  BY <1>2, <1>3, <1>4
<1>11. Written(t, w)
  BY ONLY <1>4, <1>5, <1>6, <1>9, <1>10 DEF Written
<1> QED
  BY <1>11 DEF t

LEMMA DecimalIs ==
  ASSUME NEW w \in Nat
  PROVE  Written(Decimal(w), w)
<1> DEFINE P(f) == f = [k \in 0..w |-> IF k < 10 THEN <<k>> ELSE Append(f[k \div 10], k % 10)]
           V == Seq(0..9)
           step == [p \in (0..w) \X V |-> IF p[1] < 10 THEN <<p[1]>> ELSE Append(p[2], p[1] % 10)]
           prev == [k \in 1..w |-> k \div 10]
           g == CHOOSE f : P(f)
<1>1. Decimal(w) = g[w]
  BY DEF Decimal
<1>2. \A k \in 0..w : k < 10 => <<k>> \in V
  OBVIOUS
<1>3. ASSUME NEW k \in 0..w, NEW s \in V
      PROVE  Append(s, k % 10) \in V
  <2>1. k % 10 \in 0..9
    OBVIOUS
  <2> QED
    BY <2>1, AppendProperties
<1> HIDE DEF V
<1>4. ASSUME NEW k \in 1..w, NEW s \in V
      PROVE  /\ step[<<k, s>>] = IF k < 10 THEN <<k>> ELSE Append(s, k % 10)
             /\ step[<<k, s>>] \in V
  <2>1. <<k, s>> \in (0..w) \X V /\ <<k, s>>[2] = s /\ <<k, s>>[1] = k /\ k \in 0..w
    OBVIOUS
  <2>2. step[<<k, s>>] = IF <<k, s>>[1] < 10 THEN <<<<k, s>>[1]>> ELSE Append(<<k, s>>[2], <<k, s>>[1] % 10)
    BY <2>1
  <2> HIDE DEF step
  <2>3. step[<<k, s>>] = IF k < 10 THEN <<k>> ELSE Append(s, k % 10)
    BY <2>1, <2>2
  <2>4. (k < 10 => <<k>> \in V) /\ Append(s, k % 10) \in V
    BY <1>2, <1>3, <2>1
  <2> QED
    BY <2>3, <2>4
<1>5. \A k \in 1..w : prev[k] = k \div 10 /\ k \div 10 \in 0..(k - 1) /\ k \div 10 \in 0..w
  OBVIOUS
<1> HIDE DEF step, prev
<1>6. \E f : RecursesFrom(f, <<0>>, step, prev, 0, w, V)
  <2>1. Stays(step, 0, w, V)
    <3> SUFFICES ASSUME NEW k \in (0 + 1)..w, NEW s \in V PROVE step[<<k, s>>] \in V
      BY DEF Stays
    <3>1. k \in 1..w
      OBVIOUS
    <3> QED
      BY <1>4, <3>1
  <2>2. LooksBack(prev, 0, w)
    <3> SUFFICES ASSUME NEW k \in (0 + 1)..w PROVE prev[k] \in 0..(k - 1)
      BY DEF LooksBack
    <3>1. k \in 1..w
      OBVIOUS
    <3> QED
      BY <1>5, <3>1
  <2>3. 0 \in Int /\ w \in Int /\ 0 <= w /\ <<0>> \in V
    BY <1>2
  <2> QED
    BY <2>1, <2>2, <2>3, RecursionFrom
<1>7. PICK f \in [0..w -> V] : f[0] = <<0>> /\ \A k \in 1..w : f[k] = step[<<k, f[prev[k]]>>]
  <2>1. 0 + 1 = 1
    OBVIOUS
  <2> QED
    BY <1>6, <2>1 DEF RecursesFrom
<1>8. P(f)
  <2>1. ASSUME NEW k \in 1..w PROVE f[k] = IF k < 10 THEN <<k>> ELSE Append(f[k \div 10], k % 10)
    <3>1. prev[k] = k \div 10 /\ k \div 10 \in 0..w
      BY <1>5
    <3>2. f[k \div 10] \in V /\ f[k] = step[<<k, f[k \div 10]>>]
      BY <1>7, <3>1
    <3> QED
      BY <1>4, <3>2
  <2>2. \A k \in 0..w : k # 0 => k \in 1..w
    OBVIOUS
  <2>3. \A k \in 0..w : f[k] = IF k < 10 THEN <<k>> ELSE Append(f[k \div 10], k % 10)
    BY <1>7, <2>1, <2>2
  <2> QED
    BY <1>7, <2>3
<1> HIDE DEF g
<1>9. P(g)
  <2> HIDE DEF P
  <2> QED
    BY <1>8 DEF g
<1>10. ASSUME NEW k \in 0..w
       PROVE  (k < 10 => g[k] = <<k>>) /\ (~(k < 10) => g[k] = Append(g[k \div 10], k % 10))
  <2>1. g[k] = IF k < 10 THEN <<k>> ELSE Append(g[k \div 10], k % 10)
    BY <1>9, Zenon
  <2> QED
    BY <2>1, Zenon
<1> HIDE DEF P
<1> DEFINE T == {k \in 0..w : \A j \in 0..k : Written(g[j], j)}
<1>11. 0 \in T
  <2>1. 0 \in 0..9 /\ 0 \in 0..w /\ g[0] = <<0>> /\ \A j \in 0..0 : j = 0
    BY <1>10
  <2> QED
    BY <2>1, FirstDigit
<1>12. ASSUME NEW k \in 0..(w - 1), k \in T PROVE k + 1 \in T
  <2> DEFINE m == k + 1
  <2>1. m \in 0..w /\ m \in Nat /\ m \div 10 \in 0..k /\ \A j \in 0..m : j \in 0..k \/ j = m
    OBVIOUS
  <2>2. \A j \in 0..k : Written(g[j], j)
    BY <1>12
  <2> HIDE DEF m
  <2>3. Written(g[m], m)
    <3>1. CASE m < 10
      <4>1. m \in 0..9 /\ g[m] = <<m>>
        BY <1>10, <2>1, <3>1
      <4> QED
        BY <4>1, FirstDigit
    <3>2. CASE ~(m < 10)
      <4>1. g[m] = Append(g[m \div 10], m % 10)
        BY <1>10, <2>1, <3>2, Zenon
      <4>1a. m >= 10
        BY <2>1, <3>2
      <4>2. Written(g[m \div 10], m \div 10)
        BY <2>1, <2>2
      <4> QED
        BY <2>1, <4>1, <4>1a, <4>2, NextDigit
    <3> QED
      BY <3>1, <3>2
  <2>4. m \in T
    BY <2>1, <2>2, <2>3
  <2> QED
    BY <2>4 DEF m
<1>13. \A k \in 0..w : k \in T
  <2> HIDE DEF T
  <2>1. 0 \in Int /\ w \in Int
    OBVIOUS
  <2> QED
    BY ONLY <1>11, <1>12, <2>1, UpTo, Zenon
<1>14. w \in T /\ w \in 0..w
  BY <1>13
<1> QED
  BY <1>1, <1>14

(* A part of a text that reads as another is that other. *)
LEMMA PartIs ==
  ASSUME NEW S, NEW s \in Seq(S), NEW t \in Seq(S), NEW from \in Nat, NEW to \in Int,
         to = from + Len(t), to <= Len(s), \A k \in 1..Len(t) : s[from + k] = t[k]
  PROVE  SubSeq(s, from + 1, to) = t
<1>1. Len(s) \in Nat /\ Len(t) \in Nat /\ from + 1 \in Int
  BY LenProperties
<1>2. \A i \in (from + 1)..to : s[i] \in S
  <2> SUFFICES ASSUME NEW i \in (from + 1)..to PROVE s[i] \in S
    OBVIOUS
  <2>1. i \in 1..Len(s)
    BY <1>1
  <2> QED
    BY <2>1, ElementOfSeq
<1> DEFINE part == SubSeq(s, from + 1, to)
<1>3. /\ part \in Seq(S)
      /\ Len(part) = IF from + 1 <= to THEN to - (from + 1) + 1 ELSE 0
      /\ \A i \in 1..(to - (from + 1) + 1) : part[i] = s[from + 1 + i - 1]
  BY <1>1, <1>2, SubSeqProperties
<1> HIDE DEF part
<1>4. Len(part) = Len(t)
  BY <1>1, <1>3
<1>5. ASSUME NEW i \in 1..Len(t) PROVE part[i] = t[i]
  <2>1. i \in 1..(to - (from + 1) + 1) /\ from + 1 + i - 1 = from + i
    BY <1>1
  <2>2. part[i] = s[from + i]
    BY <1>3, <2>1
  <2> QED
    BY <2>2
<1>6. part = t
  BY <1>3, <1>4, <1>5, SeqEqual
<1> QED
  BY <1>6 DEF part

LEMMA RunEnds ==
  ASSUME NEW s, Len(s) \in Nat, NEW i \in Nat, NEW j \in i..(Len(s) + 1),
         \A k \in i..(j - 1) : s[k] \in 0..9, j = Len(s) + 1 \/ s[j] \notin 0..9
  PROVE  RunFrom(s, i) = j
<1> DEFINE Q(h) == /\ h \in i..(Len(s) + 1)
                   /\ \A k \in i..(h - 1) : s[k] \in 0..9
                   /\ h = Len(s) + 1 \/ s[h] \notin 0..9
           r == RunFrom(s, i)
<1>1. Q(j)
  OBVIOUS
<1>2. Q(r)
  <2>1. \E h \in i..(Len(s) + 1) : /\ \A k \in i..(h - 1) : s[k] \in 0..9
                                   /\ h = Len(s) + 1 \/ s[h] \notin 0..9
    BY <1>1
  <2> QED
    BY ONLY <2>1, Zenon DEF RunFrom
<1>3. ASSUME NEW x, NEW y, Q(x), Q(y), x < y PROVE FALSE
  <2>1. x \in i..(y - 1) /\ x # Len(s) + 1
    BY <1>3
  <2>2. s[x] \in 0..9 /\ s[x] \notin 0..9
    BY <1>3, <2>1
  <2> QED
    BY <2>2
<1>4. ~(r < j) /\ ~(j < r)
  <2> HIDE DEF r, Q
  <2> QED
    BY <1>1, <1>2, <1>3
<1>5. r \in Int /\ j \in Int
  BY <1>2
<1> HIDE DEF r, Q
<1>6. r = j
  BY <1>4, <1>5
<1> QED
  BY <1>6 DEF r

(* A number as it is written: its sign, the digits before the point, the   *)
(* point and the digits after it.                                          *)
Shape(s, p, int, dec) ==
  /\ s \in Seq(Nat) /\ p \in {0, 1} /\ Len(s) = p + Len(int) + 1 + Len(dec)
  /\ p = 1 => s[1] = Minus
  /\ \A k \in 1..Len(int) : s[p + k] = int[k]
  /\ s[p + Len(int) + 1] = Dot
  /\ \A k \in 1..Len(dec) : s[p + Len(int) + 1 + k] = dec[k]

Weight(int, dec) ==
  Wrapped(Value(int, 10)) * 10000
  + (Wrapped(Value(dec, 10)) * 10000) \div Wrapped(Power(10, Len(dec)))

LEMMA ParseShape ==
  ASSUME NEW int \in Seq(0..9), NEW dec \in Seq(0..9), Len(int) >= 1, NEW s, NEW p, Shape(s, p, int, dec)
  PROVE  ParseF32(s) = IF p = 1 THEN -Weight(int, dec) ELSE Weight(int, dec)
<1> DEFINE a == Len(int)
           b == Len(dec)
           total == Len(s)
<1>1. /\ a \in Nat /\ b \in Nat /\ int \in Seq(Nat) /\ dec \in Seq(Nat)
      /\ (\A k \in 1..a : int[k] \in 0..9) /\ \A k \in 1..b : dec[k] \in 0..9
  BY DigitsAreNumbers
<1>2. /\ s \in Seq(Nat) /\ p \in {0, 1} /\ total = p + a + 1 + b
      /\ p = 1 => s[1] = Minus
      /\ \A k \in 1..a : s[p + k] = int[k]
      /\ s[p + a + 1] = Dot
      /\ \A k \in 1..b : s[p + a + 1 + k] = dec[k]
  BY DEF Shape
<1>2a. total = Len(s) /\ a = Len(int) /\ b = Len(dec) /\ a >= 1
  OBVIOUS
<1> HIDE DEF a, b, total
<1>3. (s[1] = Minus <=> p = 1) /\ (s[1] \in {Minus, Plus} <=> p = 1)
  <2>1. CASE p = 1
    BY <1>2, <2>1
  <2>2. CASE p # 1
    <3>1. p = 0 /\ 1 \in 1..a /\ p + 1 = 1
      BY <1>1, <1>2, <1>2a, <2>2
    <3>2. s[1] \in 0..9
      BY <1>1, <1>2, <3>1
    <3> QED
      BY <2>2, <3>2 DEF Minus, Plus
  <2> QED
    BY <2>1, <2>2
<1>4. RunFrom(s, p + 1) = p + a + 1
  <2>1. p + 1 \in Nat /\ total \in Nat /\ p + a + 1 \in (p + 1)..(total + 1)
    BY <1>1, <1>2
  <2>2. ASSUME NEW k \in (p + 1)..((p + a + 1) - 1) PROVE s[k] \in 0..9
    <3>1. k - p \in 1..a /\ p + (k - p) = k
      BY <1>1, <1>2
    <3>2. s[p + (k - p)] = int[k - p] /\ int[k - p] \in 0..9
      BY <1>1, <1>2, <3>1
    <3> QED
      BY <3>1, <3>2
  <2>3. s[p + a + 1] \notin 0..9
    BY <1>2 DEF Dot
  <2> QED
    BY <1>2a, <2>1, <2>2, <2>3, RunEnds
<1>5. RunFrom(s, p + a + 2) = total + 1
  <2>1. p + a + 2 \in Nat /\ total \in Nat /\ total + 1 \in (p + a + 2)..(total + 1)
    BY <1>1, <1>2
  <2>2. ASSUME NEW k \in (p + a + 2)..((total + 1) - 1) PROVE s[k] \in 0..9
    <3> DEFINE j == k - (p + a + 1)
    <3>1. j \in 1..b /\ p + a + 1 + j = k
      BY <1>1, <1>2
    <3> HIDE DEF j
    <3>2. s[p + a + 1 + j] = dec[j] /\ dec[j] \in 0..9
      BY <1>1, <1>2, <3>1
    <3> QED
      BY <3>1, <3>2
  <2> QED
    BY <1>2a, <2>1, <2>2, RunEnds
<1>6. SubSeq(s, p + 1, p + a) = int
  <2> DEFINE to == p + a
  <2>1. p \in Nat /\ to \in Int /\ to = p + a /\ to <= total
    BY <1>1, <1>2
  <2> HIDE DEF to
  <2>2. to = p + Len(int) /\ to <= Len(s) /\ \A k \in 1..Len(int) : s[p + k] = int[k]
    BY <1>2, <1>2a, <2>1
  <2>3. s \in Seq(Nat) /\ int \in Seq(Nat)
    BY <1>1, <1>2
  <2>4. SubSeq(s, p + 1, to) = int
    BY ONLY <2>1, <2>2, <2>3, PartIs
  <2> QED
    BY <2>1, <2>4
<1>7. SubSeq(s, p + a + 2, total) = dec
  <2> DEFINE from == p + a + 1
  <2>1. from \in Nat /\ total \in Int /\ total = from + b /\ total <= total /\ p + a + 2 = from + 1
    BY <1>1, <1>2
  <2>2. \A k \in 1..b : s[from + k] = dec[k]
    BY <1>2
  <2> HIDE DEF from
  <2>3. SubSeq(s, from + 1, total) = dec
    BY ONLY <1>1, <1>2, <1>2a, <2>1, <2>2, PartIs
  <2> QED
    BY <2>1, <2>3
<1> DEFINE start == IF s[1] \in {Minus, Plus} THEN 2 ELSE 1
           point == RunFrom(s, start)
           end == IF point <= Len(s) /\ s[point] = Dot THEN RunFrom(s, point + 1) ELSE point
           frac == SubSeq(s, point + 1, end - 1)
           val == Wrapped(Value(SubSeq(s, start, point - 1), 10)) * 10000
                  + (Wrapped(Value(frac, 10)) * 10000) \div Wrapped(Power(10, Len(frac)))
<1>8. ParseF32(s) = IF s[1] = Minus THEN -val ELSE val
  BY DEF ParseF32
<1>9. start = p + 1
  BY <1>2, <1>3
<1> HIDE DEF start
<1>10. point = p + a + 1
  BY <1>4, <1>9
<1> HIDE DEF point
<1>11. end = total + 1
  <2>1. point <= Len(s) /\ s[point] = Dot /\ point + 1 = p + a + 2
    BY <1>1, <1>2, <1>2a, <1>10
  <2> QED
    BY <1>5, <2>1
<1> HIDE DEF end
<1>12. frac = dec
  <2>1. point + 1 = p + a + 2 /\ end - 1 = total
    BY <1>1, <1>2, <1>10, <1>11
  <2> QED
    BY <1>7, <2>1
<1> HIDE DEF frac
<1>13. SubSeq(s, start, point - 1) = int
  <2>1. point - 1 = p + a
    BY <1>1, <1>2, <1>10
  <2> QED
    BY <1>6, <1>9, <2>1
<1>14. val = Weight(int, dec)
  <2> DEFINE before == Wrapped(Value(SubSeq(s, start, point - 1), 10))
             after == Wrapped(Value(frac, 10))
             unit == Wrapped(Power(10, Len(frac)))
             sum(x, y, z) == x * 10000 + (y * 10000) \div z
  <2>1. /\ before = Wrapped(Value(int, 10)) /\ after = Wrapped(Value(dec, 10))
        /\ unit = Wrapped(Power(10, Len(dec)))
    BY ONLY <1>12, <1>13, Zenon DEF before, after, unit
  <2>2. val = sum(before, after, unit)
    OBVIOUS
  <2>3. Weight(int, dec) = sum(Wrapped(Value(int, 10)), Wrapped(Value(dec, 10)), Wrapped(Power(10, Len(dec))))
    BY DEF Weight
  <2> HIDE DEF before, after, unit, val, sum
  <2> QED
    BY ONLY <2>1, <2>2, <2>3, Zenon
<1> HIDE DEF val
<1> QED
  BY <1>3, <1>8, <1>14

LEMMA JoinIs ==
  ASSUME NEW s \in Seq(Nat), NEW t \in Seq(Nat)
  PROVE  /\ s \o t \in Seq(Nat) /\ Len(s \o t) = Len(s) + Len(t)
         /\ Len(s) \in Nat /\ Len(t) \in Nat
         /\ \A k \in 1..Len(s) : (s \o t)[k] = s[k]
         /\ \A k \in 1..Len(t) : (s \o t)[Len(s) + k] = t[k]
<1> DEFINE u == s \o t
<1>1. /\ u \in Seq(Nat) /\ Len(u) = Len(s) + Len(t)
      /\ \A i \in 1..(Len(s) + Len(t)) : u[i] = IF i <= Len(s) THEN s[i] ELSE t[i - Len(s)]
  <2> HIDE DEF u
  <2> QED
    BY ConcatProperties, Zenon DEF u
<1>2. Len(s) \in Nat /\ Len(t) \in Nat
  BY LenProperties
<1> HIDE DEF u
<1>3. ASSUME NEW k \in 1..Len(s) PROVE u[k] = s[k]
  <2>1. k \in 1..(Len(s) + Len(t)) /\ k <= Len(s)
    BY <1>2
  <2> QED
    BY <1>1, <2>1
<1>4. ASSUME NEW k \in 1..Len(t) PROVE u[Len(s) + k] = t[k]
  <2> DEFINE i == Len(s) + k
  <2>1. i \in 1..(Len(s) + Len(t)) /\ ~(i <= Len(s)) /\ i - Len(s) = k
    BY <1>2
  <2> HIDE DEF i
  <2>2. u[i] = t[k]
    BY <1>1, <2>1
  <2> QED
    BY <2>2 DEF i
<1> QED
  BY <1>1, <1>2, <1>3, <1>4 DEF u

LEMMA JoinShape ==
  ASSUME NEW before \in {<<>>, <<Minus>>}, NEW int \in Seq(Nat), NEW dec \in Seq(Nat)
  PROVE  Shape(before \o int \o <<Dot>> \o dec, IF before = <<>> THEN 0 ELSE 1, int, dec)
<1> DEFINE p == IF before = <<>> THEN 0 ELSE 1
           s1 == before \o int
           s2 == s1 \o <<Dot>>
           s3 == s2 \o dec
<1>1. /\ before \in Seq(Nat) /\ Len(before) = p /\ p \in {0, 1}
      /\ p = 1 => before[1] = Minus
  <2>1. CASE before = <<>>
    <3>1. <<>> \in Seq(Nat) /\ Len(<<>>) = 0
      BY EmptySeq
    <3> QED
      BY <2>1, <3>1
  <2>2. CASE before = <<Minus>>
    <3>1. <<Minus>> \in Seq(Nat) /\ Len(<<Minus>>) = 1 /\ <<Minus>>[1] = Minus
      BY DEF Minus
    <3>2. before # <<>>
      <4>1. Len(<<>>) = 0
        BY EmptySeq
      <4> QED
        BY <2>2, <3>1, <4>1
    <3> QED
      BY <2>2, <3>1, <3>2
  <2> QED
    BY <2>1, <2>2
<1>2. <<Dot>> \in Seq(Nat) /\ Len(<<Dot>>) = 1 /\ <<Dot>>[1] = Dot
  BY DEF Dot
<1> HIDE DEF p
<1>3. /\ s1 \in Seq(Nat) /\ Len(s1) = p + Len(int) /\ Len(int) \in Nat
      /\ \A k \in 1..p : s1[k] = before[k]
      /\ \A k \in 1..Len(int) : s1[p + k] = int[k]
  BY ONLY <1>1, int \in Seq(Nat), JoinIs
<1> HIDE DEF s1
<1>4. /\ s2 \in Seq(Nat) /\ Len(s2) = Len(s1) + 1
      /\ \A k \in 1..Len(s1) : s2[k] = s1[k]
      /\ \A k \in 1..1 : s2[Len(s1) + k] = <<Dot>>[k]
  BY ONLY <1>2, <1>3, JoinIs
<1> HIDE DEF s2
<1>5. /\ s3 \in Seq(Nat) /\ Len(s3) = Len(s2) + Len(dec) /\ Len(dec) \in Nat
      /\ \A k \in 1..Len(s2) : s3[k] = s2[k]
      /\ \A k \in 1..Len(dec) : s3[Len(s2) + k] = dec[k]
  BY ONLY <1>4, dec \in Seq(Nat), JoinIs
<1> HIDE DEF s3
<1>6. Len(s2) = p + Len(int) + 1
  BY <1>1, <1>3, <1>4
<1>7. s3[p + Len(int) + 1] = Dot
  <2> DEFINE i == Len(s1) + 1
  <2>1. i \in 1..Len(s2) /\ 1 \in 1..1 /\ i = p + Len(int) + 1
    BY <1>1, <1>3, <1>4
  <2>2. s2[i] = Dot
    BY <1>2, <1>4, <2>1
  <2> HIDE DEF i
  <2> QED
    BY <1>5, <2>1, <2>2
<1>8. ASSUME NEW k \in 1..Len(int) PROVE s3[p + k] = int[k]
  <2> DEFINE i == p + k
  <2>1. i \in 1..Len(s1) /\ i \in 1..Len(s2)
    BY <1>1, <1>3, <1>6
  <2>2. s1[i] = int[k]
    BY <1>3
  <2> HIDE DEF i
  <2>3. s3[i] = int[k]
    BY <1>4, <1>5, <2>1, <2>2
  <2> QED
    BY <2>3 DEF i
<1>9. p = 1 => s3[1] = Minus
  <2> SUFFICES ASSUME p = 1 PROVE s3[1] = Minus
    OBVIOUS
  <2>1. 1 \in 1..p /\ 1 \in 1..Len(s1) /\ 1 \in 1..Len(s2)
    BY <1>3, <1>6
  <2> QED
    BY <1>1, <1>3, <1>4, <1>5, <2>1
<1>10. ASSUME NEW k \in 1..Len(dec) PROVE s3[p + Len(int) + 1 + k] = dec[k]
  BY <1>5, <1>6
<1>11. Len(s3) = p + Len(int) + 1 + Len(dec)
  BY <1>1, <1>3, <1>5, <1>6
<1>12. Shape(s3, p, int, dec)
  BY <1>1, <1>5, <1>7, <1>8, <1>9, <1>10, <1>11 DEF Shape
<1> QED
  BY <1>12 DEF s3, s2, s1, p

LEMMA TenThousand ==
  Power(10, 4) = 10000
<1>1. /\ Power(10, 0) = 1 /\ Power(10, 0 + 1) = 10 * Power(10, 0)
      /\ Power(10, 1 + 1) = 10 * Power(10, 1) /\ Power(10, 2 + 1) = 10 * Power(10, 2)
      /\ Power(10, 3 + 1) = 10 * Power(10, 3)
  <2>1. 10 \in Nat /\ 0 \in Nat /\ 1 \in Nat /\ 2 \in Nat /\ 3 \in Nat
    OBVIOUS
  <2> QED
    BY ONLY <2>1, PowerIs, Zenon
<1>2. 0 + 1 = 1 /\ 1 + 1 = 2 /\ 2 + 1 = 3 /\ 3 + 1 = 4
  OBVIOUS
<1> QED
  BY <1>1, <1>2

(* A float comes back rounded to the fourth decimal, or saturated. *)
Rounded(x) == ((IF x < 0 THEN -x ELSE x) + 1) \div 2
Saturated(w) == IF w > UMax THEN UMax ELSE w

LEMMA FloatComesBack ==
  ASSUME NEW x \in Int
  PROVE  ParseF32(WriteF32(x)) = IF x < 0 THEN -Saturated(Rounded(x)) ELSE Saturated(Rounded(x))
<1> DEFINE w == Saturated(Rounded(x))
           before == IF x < 0 THEN <<Minus>> ELSE <<>>
           frac == w % 10000
           whole == w \div 10000
           z == IF frac < 10 THEN 3 ELSE IF frac < 100 THEN 2 ELSE IF frac < 1000 THEN 1 ELSE 0
           int == Decimal(whole)
           dec == Zeros(z) \o Decimal(frac)
           p == IF before = <<>> THEN 0 ELSE 1
<1>1. w \in Nat
  <2>1. Rounded(x) \in Nat
    BY DEF Rounded
  <2> QED
    BY <2>1, TextAssumption DEF Saturated
<1>2. WriteF32(x) = before \o int \o <<Dot>> \o Zeros(z) \o Decimal(frac)
  BY DEF WriteF32, Saturated, Rounded
<1> HIDE DEF w
<1>3. whole \in Nat /\ frac \in Nat /\ frac < 10000 /\ w = whole * 10000 + frac
  BY <1>1
<1> HIDE DEF whole, frac
<1>4. Written(int, whole) /\ Written(Decimal(frac), frac)
  BY <1>3, DecimalIs
<1>5. int \in Seq(0..9) /\ Len(int) >= 1 /\ Value(int, 10) = whole /\ int \in Seq(Nat)
  <2>1. int \in Seq(0..9) /\ Len(int) >= 1 /\ Value(int, 10) = whole
    BY <1>4 DEF Written
  <2> HIDE DEF int
  <2> QED
    BY <2>1, DigitsAreNumbers
<1> HIDE DEF int
<1> DEFINE d == Decimal(frac)
<1>6. /\ d \in Seq(0..9) /\ Value(d, 10) = frac
      /\ frac < 10 => d = <<frac>>
      /\ 10 <= frac /\ frac < 100 => d = <<frac \div 10, frac % 10>>
      /\ 100 <= frac /\ frac < 1000 => Len(d) = 3
      /\ 1000 <= frac /\ frac < 10000 => Len(d) = 4
  BY <1>4 DEF Written
<1>7. z \in Nat /\ z + Len(d) = 4 /\ z \in 0..3
  <2> HIDE DEF d
  <2>1. CASE frac < 10
    <3>1. d = <<frac>> /\ Len(<<frac>>) = 1
      BY <1>6, <2>1
    <3>2. Len(d) = 1
      BY <3>1
    <3>3. z = 3
      BY <2>1
    <3> QED
      BY <3>2, <3>3
  <2>2. CASE 10 <= frac /\ frac < 100
    <3>1. Len(<<frac \div 10, frac % 10>>) = 2
      OBVIOUS
    <3>2. d = <<frac \div 10, frac % 10>>
      BY <1>6, <2>2
    <3>3. Len(d) = 2
      BY <3>1, <3>2
    <3>4. z = 2
      BY <1>3, <2>2
    <3> QED
      BY <3>3, <3>4
  <2>3. CASE 100 <= frac /\ frac < 1000
    <3>1. Len(d) = 3
      BY <1>6, <2>3
    <3> QED
      BY <1>3, <2>3, <3>1
  <2>4. CASE 1000 <= frac /\ frac < 10000
    <3>1. Len(d) = 4
      BY <1>6, <2>4
    <3> QED
      BY <1>3, <2>4, <3>1
  <2> QED
    BY <1>3, <2>1, <2>2, <2>3, <2>4
<1> HIDE DEF z, d
<1>8. Zeros(z) \in Seq(0..9) /\ Len(Zeros(z)) = z
  BY <1>7 DEF Zeros
<1>9. dec = Zeros(z) \o d /\ dec \in Seq(0..9) /\ Len(dec) = 4
  <2> DEFINE zs == Zeros(z)
  <2> HIDE DEF zs
  <2>1. zs \o d \in Seq(0..9) /\ Len(zs \o d) = Len(zs) + Len(d)
    <3>1. zs \in Seq(0..9) /\ d \in Seq(0..9)
      BY <1>6, <1>8 DEF zs
    <3> QED
      BY ONLY <3>1, ConcatProperties
  <2> USE DEF zs
  <2> QED
    BY <1>7, <1>8, <2>1 DEF d
<1>10. Value(dec, 10) = frac /\ dec \in Seq(Nat)
  <2>1. d \in Seq(Nat) /\ 10 \in Nat
    BY <1>6, DigitsAreNumbers
  <2>2. Value(Zeros(z) \o d, 10) = Value(d, 10) /\ Zeros(z) \o d \in Seq(Nat)
    BY <1>7, <2>1, ValueOfZeros
  <2> HIDE DEF dec
  <2> QED
    BY <1>6, <1>9, <2>2
<1>11. WriteF32(x) = before \o int \o <<Dot>> \o dec
  <2> DEFINE first == before \o int \o <<Dot>>
  <2>1. first \in Seq(Nat)
    <3>1. before \in Seq(Nat) /\ <<Dot>> \in Seq(Nat)
      <4>1. <<>> \in Seq(Nat) /\ <<Minus>> \in Seq(Nat)
        BY EmptySeq DEF Minus
      <4> QED
        BY <4>1 DEF Dot
    <3> HIDE DEF before
    <3>2. before \o int \in Seq(Nat)
      BY <1>5, <3>1, JoinIs
    <3> QED
      BY <3>1, <3>2, JoinIs
  <2> HIDE DEF first
  <2>2. Zeros(z) \in Seq(Nat) /\ d \in Seq(Nat)
    BY <1>6, <1>8, DigitsAreNumbers
  <2>3. (first \o Zeros(z)) \o d = first \o (Zeros(z) \o d)
    BY ONLY <2>1, <2>2, ConcatAssociative
  <2>4. WriteF32(x) = (first \o Zeros(z)) \o d
    BY <1>2 DEF first, d
  <2>5. WriteF32(x) = first \o dec
    BY <1>9, <2>3, <2>4
  <2> QED
    BY <2>5 DEF first
<1> HIDE DEF dec
<1>12. p = (IF x < 0 THEN 1 ELSE 0) /\ before \in {<<>>, <<Minus>>}
  <2>1. <<Minus>> # <<>>
    <3>1. Len(<<Minus>>) = 1 /\ Len(<<>>) = 0
      BY EmptySeq
    <3> QED
      BY <3>1
  <2> QED
    BY <2>1
<1> HIDE DEF before
<1>13. Shape(WriteF32(x), p, int, dec)
  BY <1>5, <1>10, <1>11, <1>12, JoinShape
<1>14. ParseF32(WriteF32(x)) = IF p = 1 THEN -Weight(int, dec) ELSE Weight(int, dec)
  <2> HIDE DEF p
  <2> QED
    BY <1>5, <1>9, <1>13, ParseShape
<1>15. Weight(int, dec) = w
  <2>3. Wrapped(whole) = whole /\ Wrapped(frac) = frac /\ Wrapped(10000) = 10000
    <3>1. UMax \in Nat /\ 10000 <= UMax
      BY TextAssumption
    <3>2. w <= UMax
      <4>1. Rounded(x) \in Nat
        BY DEF Rounded
      <4> QED
        BY <3>1, <4>1 DEF w, Saturated
    <3>3. whole <= UMax /\ frac <= UMax
      BY <1>1, <1>3, <3>1, <3>2
    <3> QED
      BY <1>3, <3>1, <3>3 DEF Wrapped
  <2>1. Weight(int, dec) = whole * 10000 + (frac * 10000) \div 10000
    BY <1>5, <1>9, <1>10, <2>3, TenThousand DEF Weight
  <2>2. (frac * 10000) \div 10000 = frac
    BY <1>3
  <2> QED
    BY <1>3, <2>1, <2>2
<1> HIDE DEF p
<1>16. ParseF32(WriteF32(x)) = IF x < 0 THEN -w ELSE w
  <2>1. p = 1 <=> x < 0
    BY <1>12
  <2> QED
    BY <1>14, <1>15, <2>1
<1> QED
  BY <1>16 DEF w

LEMMA FloatIsNear ==
  ASSUME NEW x \in Int
  PROVE  LET told == WriteF32(x)
             half == 2 * ParseF32(told) - x
         IN IF x \in (-2 * UMax)..(2 * UMax) THEN half \in -1..1
            ELSE ParseF32(told) \in {UMax, -UMax}
<1> DEFINE back == ParseF32(WriteF32(x))
           w == Saturated(Rounded(x))
           r == Rounded(x)
<1>1. back = IF x < 0 THEN -w ELSE w
  BY FloatComesBack
<1>2. UMax \in Nat
  BY TextAssumption
<1>3. /\ r \in Nat
      /\ x < 0 => 2 * r = -x \/ 2 * r = -x + 1
      /\ ~(x < 0) => 2 * r = x \/ 2 * r = x + 1
  BY DEF Rounded
<1>4. w = IF r > UMax THEN UMax ELSE r
  BY DEF Saturated
<1> HIDE DEF back, w, r
<1>5. CASE x \in (-2 * UMax)..(2 * UMax)
  <2>1. -2 * UMax <= x /\ x <= 2 * UMax
    BY <1>2, <1>5
  <2>2. r <= UMax
    BY <1>2, <1>3, <2>1
  <2>3. w = r
    BY <1>2, <1>3, <1>4, <2>2
  <2>4. 2 * back - x \in -1..1
    BY <1>1, <1>3, <2>3
  <2> QED
    BY <1>5, <2>4 DEF back
<1>6. CASE x \notin (-2 * UMax)..(2 * UMax)
  <2>1. x < -2 * UMax \/ x > 2 * UMax
    BY <1>2, <1>6
  <2>2. r > UMax
    BY <1>2, <1>3, <2>1
  <2>3. w = UMax
    BY <1>4, <2>2
  <2>4. back \in {UMax, -UMax}
    BY <1>1, <2>3
  <2> QED
    BY <1>6, <2>4 DEF back
<1> QED
  BY <1>5, <1>6

-----------------------------------------------------------------------------
(* Text, the hexadecimals.  One digit more is sixteen times what there was *)
(* and the digit.                                                          *)
LEMMA DigitMore ==
  ASSUME NEW w \in Nat, NEW q \in Nat \ {0}
  PROVE  w \div q = 16 * (w \div (16 * q)) + ((w \div q) % 16)
<1>1. (w \div q) \div 16 = w \div (16 * q)
  OBVIOUS
<1>2. w \div q \in Nat
  OBVIOUS
<1>3. \A x \in Nat : x = 16 * (x \div 16) + (x % 16)
  OBVIOUS
<1> QED
  BY <1>1, <1>2, <1>3

(* The digits of a word, the high one first. *)
Hex(w, s) == /\ s \in Seq(0..15) /\ Len(s) = Width
             /\ \A i \in 1..Width : s[i] = (w \div Power(16, Width - i)) % 16

LEMMA HexIs ==
  ASSUME NEW w \in Nat
  PROVE  Hex(w, WriteHex64(w))
<1> DEFINE s == [i \in 1..Width |-> (w \div Power(16, Width - i)) % 16]
<1>1. Width \in Nat /\ Width >= 2
  BY TextAssumption
<1>2. \A i \in 1..Width : Width - i \in Nat /\ Power(16, Width - i) \in Nat \ {0}
  <2> SUFFICES ASSUME NEW i \in 1..Width PROVE Width - i \in Nat /\ Power(16, Width - i) \in Nat \ {0}
    OBVIOUS
  <2>1. Width - i \in Nat /\ 16 \in Nat \ {0} /\ Width - i \in 0..(Width - i)
    BY <1>1
  <2> QED
    BY <2>1, PowerGrows
<1>3. \A x \in Nat, q \in Nat \ {0} : (x \div q) % 16 \in 0..15
  <2>1. \A x \in Nat, q \in Nat \ {0} : x \div q \in Nat
    OBVIOUS
  <2>2. \A y \in Nat : y % 16 \in 0..15
    OBVIOUS
  <2> QED
    BY <2>1, <2>2
<1>4. s \in Seq(0..15) /\ Len(s) = Width
  <2>1. \A i \in 1..Width : (w \div Power(16, Width - i)) % 16 \in 0..15
    BY <1>2, <1>3
  <2> QED
    BY <1>1, <2>1
<1>5. WriteHex64(w) = SubSeq(s, 1, IF Len(s) < Width THEN Len(s) ELSE Width)
  BY DEF WriteHex64, HexDigits, Within
<1>6. \A i \in 1..Width : s[i] = (w \div Power(16, Width - i)) % 16
  OBVIOUS
<1> HIDE DEF s
<1>7. WriteHex64(w) = s
  <2>1. (IF Len(s) < Width THEN Len(s) ELSE Width) = Len(s)
    BY <1>1, <1>4
  <2>2. SubSeq(s, 1, Len(s)) = s
    BY <1>4, SubSeqFull
  <2> QED
    BY <1>5, <2>1, <2>2
<1> QED
  BY <1>4, <1>6, <1>7 DEF Hex

LEMMA HexAreNumbers ==
  ASSUME NEW s \in Seq(0..15)
  PROVE  s \in Seq(Nat) /\ Len(s) \in Nat /\ \A k \in 1..Len(s) : s[k] \in 0..15
<1>1. Len(s) \in Nat /\ s = [k \in 1..Len(s) |-> s[k]] /\ \A k \in 1..Len(s) : s[k] \in 0..15
  BY LenProperties, ElementOfSeq
<1> QED
  BY <1>1, SMTT(20)

LEMMA WidthPowers ==
  /\ Width \in Nat /\ Width >= 2 /\ Power(16, 0) = 1
  /\ \A k \in 0..Width : Power(16, k) \in Nat \ {0}
  /\ \A k \in 1..Width : Power(16, k) = 16 * Power(16, k - 1)
<1>1. Width \in Nat /\ Width >= 2
  BY TextAssumption
<1>2. 16 \in Nat /\ 16 \in Nat \ {0} /\ 0 \in Nat
  OBVIOUS
<1>3. Power(16, 0) = 1
  BY <1>2, PowerIs
<1>4. \A k \in 0..Width : Power(16, k) \in Nat \ {0}
  BY <1>1, <1>2, PowerGrows
<1>5. ASSUME NEW k \in 1..Width PROVE Power(16, k) = 16 * Power(16, k - 1)
  <2> DEFINE j == k - 1
  <2>1. j \in Nat /\ j + 1 = k
    BY <1>1
  <2> HIDE DEF j
  <2>2. Power(16, j + 1) = 16 * Power(16, j)
    BY <1>2, <2>1, PowerIs
  <2> QED
    BY <2>1, <2>2 DEF j
<1> QED
  BY <1>1, <1>3, <1>4, <1>5

LEMMA HexRuns ==
  ASSUME NEW w \in 0..(Power(16, Width) - 1), NEW s, Hex(w, s)
  PROVE  /\ w \div Power(16, Width) = 0 /\ w \div Power(16, 0) = w
         /\ \A k \in 1..Width : w \div Power(16, Width - k)
              = 16 * (w \div Power(16, Width - (k - 1))) + s[k]
<1>1. w \in Nat /\ Power(16, Width) \in Nat \ {0}
  <2>1. Width \in 0..Width
    BY WidthPowers
  <2> QED
    BY <2>1, WidthPowers
<1>2. \A q \in Nat \ {0} : w < q => w \div q = 0
  BY <1>1
<1>3. w < Power(16, Width)
  BY <1>1
<1>4. ASSUME NEW k \in 1..Width
      PROVE  w \div Power(16, Width - k) = 16 * (w \div Power(16, Width - (k - 1))) + s[k]
  <2> DEFINE q == Power(16, Width - k)
  <2>1. Width - k \in 0..Width /\ Width - (k - 1) \in 1..Width /\ (Width - (k - 1)) - 1 = Width - k
    BY WidthPowers
  <2>2. q \in Nat \ {0}
    BY <2>1, WidthPowers
  <2>3. Power(16, Width - (k - 1)) = 16 * q
    <3> DEFINE j == Width - (k - 1)
    <3>1. Power(16, j) = 16 * Power(16, j - 1)
      <4> HIDE DEF j
      <4>1. j \in 1..Width
        BY <2>1 DEF j
      <4> QED
        BY <4>1, WidthPowers
    <3> QED
      BY <2>1, <3>1
  <2>4. s[k] = (w \div q) % 16
    BY DEF Hex
  <2> HIDE DEF q
  <2>5. w \div q = 16 * (w \div (16 * q)) + ((w \div q) % 16)
    BY <1>1, <2>2, DigitMore
  <2> QED
    BY <2>3, <2>4, <2>5 DEF q
<1> QED
  BY <1>1, <1>2, <1>3, <1>4, WidthPowers

LEMMA HexValue ==
  ASSUME NEW w \in 0..(Power(16, Width) - 1), NEW s, Hex(w, s)
  PROVE  Value(s, 16) = w
<1> DEFINE g == [k \in 0..Width |-> w \div Power(16, Width - k)]
<1>1. Width \in Nat /\ 16 \in Nat /\ Width - 0 = Width /\ Width - Width = 0
  BY WidthPowers
<1>2. s \in Seq(Nat) /\ Len(s) = Width
  BY HexAreNumbers DEF Hex
<1>3. g[0] = 0 /\ g[Width] = w
  <2>1. 0 \in 0..Width /\ Width \in 0..Width
    BY <1>1
  <2>2. g[0] = w \div Power(16, Width - 0) /\ g[Width] = w \div Power(16, Width - Width)
    BY <2>1
  <2> QED
    BY <1>1, <2>2, HexRuns
<1>4. ASSUME NEW k \in 1..Width PROVE g[k] = 16 * g[k - 1] + s[k]
  <2>1. k \in 0..Width /\ k - 1 \in 0..Width
    BY <1>1
  <2>2. g[k] = w \div Power(16, Width - k) /\ g[k - 1] = w \div Power(16, Width - (k - 1))
    BY <2>1
  <2> HIDE DEF g
  <2> QED
    BY <2>2, HexRuns
<1> HIDE DEF g
<1>5. Values(g, s, 16)
  BY <1>2, <1>3, <1>4 DEF Values
<1> QED
  BY <1>1, <1>2, <1>3, <1>5, ValueIs

(* A one in front is one digit too many. *)
LEMMA HexOneMore ==
  ASSUME NEW w \in 0..(Power(16, Width) - 1), NEW s, Hex(w, s), NEW t \in Seq(Nat),
         Len(t) = Width + 1, t[1] = 1, \A k \in 1..Width : t[k + 1] = s[k]
  PROVE  Value(t, 16) = Power(16, Width) + w
<1> DEFINE h == [k \in 0..(Width + 1) |->
                   IF k = 0 THEN 0 ELSE Power(16, k - 1) + (w \div Power(16, Width - (k - 1)))]
<1>1. Width \in Nat /\ 16 \in Nat /\ (Width + 1) - 1 = Width /\ Width - Width = 0
      /\ 1 - 1 = 0 /\ Width - 0 = Width
  BY WidthPowers
<1>2. h[0] = 0 /\ \A k \in 0..Width : h[k + 1] = Power(16, k) + (w \div Power(16, Width - k))
  <2>1. 0 \in 0..(Width + 1)
    BY <1>1
  <2>2. ASSUME NEW k \in 0..Width
        PROVE  h[k + 1] = Power(16, k) + (w \div Power(16, Width - k))
    <3>1. k + 1 \in 0..(Width + 1) /\ k + 1 # 0 /\ (k + 1) - 1 = k
      BY <1>1
    <3>2. h[k + 1] = Power(16, (k + 1) - 1) + (w \div Power(16, Width - ((k + 1) - 1)))
      BY <3>1
    <3> QED
      BY <3>1, <3>2
  <2> QED
    BY <2>1, <2>2
<1> HIDE DEF h
<1>3. ASSUME NEW k \in 1..(Width + 1) PROVE h[k] = 16 * h[k - 1] + t[k]
  <2>1. CASE k = 1
    <3>1. 0 \in 0..Width /\ 0 + 1 = 1
      BY <1>1
    <3>2. h[0 + 1] = Power(16, 0) + (w \div Power(16, Width - 0))
      BY <1>2, <3>1
    <3>3. h[1] = 1
      <4>1. Power(16, 0) = 1 /\ w \div Power(16, Width - 0) = 0
        BY <1>1, HexRuns, WidthPowers
      <4>2. h[0 + 1] = 1
        BY <3>2, <4>1
      <4> QED
        BY <3>1, <4>2
    <3> QED
      BY <1>1, <1>2, <2>1, <3>3
  <2>2. CASE k # 1
    <3> DEFINE j == k - 1
    <3>1. j \in 1..Width /\ j \in 0..Width /\ j - 1 \in 0..Width /\ j + 1 = k /\ (j - 1) + 1 = k - 1
      BY <1>1, <2>2
    <3> HIDE DEF j
    <3>2. h[j + 1] = Power(16, j) + (w \div Power(16, Width - j))
      BY <1>2, <3>1
    <3>3. h[(j - 1) + 1] = Power(16, j - 1) + (w \div Power(16, Width - (j - 1)))
      BY <1>2, <3>1
    <3>4. Power(16, j) = 16 * Power(16, j - 1) /\ Power(16, j - 1) \in Nat
      BY <3>1, WidthPowers
    <3>5. w \div Power(16, Width - j) = 16 * (w \div Power(16, Width - (j - 1))) + s[j]
      BY <3>1, HexRuns
    <3> DEFINE lo == w \div Power(16, Width - (j - 1))
    <3>6. lo \in Int
      <4>1. Width - (j - 1) \in 0..Width
        BY <1>1, <3>1
      <4>2. Power(16, Width - (j - 1)) \in Nat \ {0}
        BY <4>1, WidthPowers
      <4>3. \A q \in Nat \ {0} : w \div q \in Int
        <5>1. w \in Int
          OBVIOUS
        <5> QED
          BY <5>1
      <4> QED
        BY <4>2, <4>3
    <3>7. t[j + 1] = s[j] /\ s[j] \in Int
      BY <3>1, HexAreNumbers, SMTT(20) DEF Hex
    <3> HIDE DEF lo
    <3>8. h[k] = 16 * Power(16, j - 1) + (16 * lo + s[j]) /\ h[k - 1] = Power(16, j - 1) + lo
      BY <3>1, <3>2, <3>3, <3>4, <3>5 DEF lo
    <3> QED
      BY <3>1, <3>4, <3>6, <3>7, <3>8, SMTT(20)
  <2> QED
    BY <2>1, <2>2
<1>4. Values(h, t, 16)
  BY <1>2, <1>3 DEF Values
<1>5. Value(t, 16) = h[Width + 1]
  BY <1>1, <1>4, ValueIs
<1>6. h[Width + 1] = Power(16, Width) + (w \div Power(16, Width - Width))
  <2>1. Width \in 0..Width
    BY <1>1
  <2> QED
    BY <1>2, <2>1
<1> QED
  BY <1>1, <1>5, <1>6, HexRuns

(* What is understood of the digits that are left after the blanks and 0x. *)
Understood(digits) ==
  IF \/ digits = <<>>
     \/ \E k \in DOMAIN digits : digits[k] \notin 0..15
     \/ \E k \in DOMAIN digits : Value(SubSeq(digits, 1, k), 16) >= Power(16, Width)
  THEN -1 ELSE Value(digits, 16)

Begins(args, i) == /\ i \in 1..(Len(args) + 1)
                   /\ \A k \in 1..(i - 1) : args[k] = Blank
                   /\ i = Len(args) + 1 \/ args[i] # Blank

Prefixed(args, i) == Len(args) >= i + 1 /\ args[i] = 0 /\ args[i + 1] = X

Start(args, i) == IF Prefixed(args, i) THEN i + 2 ELSE i

LEMMA ParseIs ==
  ASSUME NEW args \in Seq(Nat), NEW i, Begins(args, i)
  PROVE  ParseHex64(args) = Understood(SubSeq(args, Start(args, i), Len(args)))
<1> DEFINE Q(j) == /\ j \in 1..(Len(args) + 1)
                   /\ \A k \in 1..(j - 1) : args[k] = Blank
                   /\ j = Len(args) + 1 \/ args[j] # Blank
           r == CHOOSE j \in 1..(Len(args) + 1) : /\ \A k \in 1..(j - 1) : args[k] = Blank
                                                  /\ j = Len(args) + 1 \/ args[j] # Blank
<1>1. Len(args) \in Nat
  BY LenProperties
<1>2. Q(i)
  BY DEF Begins
<1>3. Q(r)
  <2>1. \E j \in 1..(Len(args) + 1) : /\ \A k \in 1..(j - 1) : args[k] = Blank
                                      /\ j = Len(args) + 1 \/ args[j] # Blank
    BY <1>2
  <2> QED
    BY ONLY <2>1, Zenon
<1>4. ASSUME NEW x, NEW y, Q(x), Q(y), x < y PROVE FALSE
  <2>1. x \in 1..(y - 1) /\ x # Len(args) + 1
    BY <1>1, <1>4
  <2>2. args[x] = Blank /\ args[x] # Blank
    BY <1>4, <2>1
  <2> QED
    BY <2>2
<1>5. r = i
  <2>1. r \in Int /\ i \in Int
    BY <1>1, <1>2, <1>3
  <2> HIDE DEF r, Q
  <2>2. ~(r < i) /\ ~(i < r)
    BY <1>2, <1>3, <1>4
  <2> QED
    BY <2>1, <2>2
<1> DEFINE From(j) == SubSeq(args, IF Len(args) >= j + 1 /\ args[j] = 0 /\ args[j + 1] = X
                                   THEN j + 2 ELSE j, Len(args))
<1>6. ParseHex64(args) = Understood(From(r))
  BY Zenon DEF ParseHex64, Understood
<1> HIDE DEF r
<1>7. From(i) = SubSeq(args, Start(args, i), Len(args))
  BY Zenon DEF Start, Prefixed
<1> HIDE DEF From
<1> QED
  BY <1>5, <1>6, <1>7

(* The first digits of a text are worth no more than all of them. *)
LEMMA FirstAreLess ==
  ASSUME NEW s \in Seq(Nat), NEW k \in 0..Len(s)
  PROVE  Value(SubSeq(s, 1, k), 16) <= Value(s, 16)
<1>1. Len(s) \in Nat /\ 16 \in Nat
  BY LenProperties
<1>2. PICK g \in [0..Len(s) -> Nat] : Values(g, s, 16) /\ Value(s, 16) = g[Len(s)]
  BY <1>1, ValueHas
<1> DEFINE t == SubSeq(s, 1, k)
<1>3. t \in Seq(Nat) /\ Len(t) = k /\ \A j \in 1..k : t[j] = s[j]
  <2>1. 1 \in Int /\ k \in Int /\ \A j \in 1..k : s[j] \in Nat
    BY <1>1, ElementOfSeq
  <2>2. /\ t \in Seq(Nat) /\ Len(t) = (IF 1 <= k THEN k - 1 + 1 ELSE 0)
        /\ \A j \in 1..(k - 1 + 1) : t[j] = s[1 + j - 1]
    BY ONLY <2>1, SubSeqProperties
  <2> HIDE DEF t
  <2> QED
    BY <1>1, <2>2
<1> HIDE DEF t
<1>4. Values(g, t, 16)
  <2>1. \A j \in 1..k : j \in 1..Len(s)
    BY <1>1
  <2> QED
    BY <1>2, <1>3, <2>1 DEF Values
<1>5. Value(t, 16) = g[k]
  BY <1>1, <1>3, <1>4, ValueIs
<1> DEFINE T == {j \in k..Len(s) : g[k] <= g[j]}
<1>6. k \in T
  BY <1>1, <1>2, SMTT(20)
<1>7. ASSUME NEW j \in k..(Len(s) - 1), j \in T PROVE j + 1 \in T
  <2>1. j + 1 \in 1..Len(s) /\ j + 1 \in k..Len(s) /\ (j + 1) - 1 = j /\ j \in 0..Len(s) /\ k \in 0..Len(s)
    BY <1>1
  <2>2. g[j + 1] = 16 * g[(j + 1) - 1] + s[j + 1]
    BY <1>2, <2>1 DEF Values
  <2>3. g[j + 1] = 16 * g[j] + s[j + 1]
    BY <2>1, <2>2
  <2>4. g[j] \in Nat /\ g[k] \in Nat /\ s[j + 1] \in Nat /\ g[k] <= g[j]
    BY <1>2, <1>7, <2>1, ElementOfSeq
  <2>5. g[k] <= g[j + 1]
    BY <2>3, <2>4, SMTT(20)
  <2> QED
    BY <2>1, <2>5
<1>8. k \in Int /\ Len(s) \in Int /\ Len(s) \in k..Len(s)
  BY <1>1
<1> HIDE DEF T
<1>9. \A j \in k..Len(s) : j \in T
  BY ONLY <1>6, <1>7, <1>8, UpTo, Zenon
<1> QED
  BY <1>2, <1>5, <1>8, <1>9 DEF T, t

LEMMA DigitsUnderstood ==
  ASSUME NEW digits \in Seq(0..15), Len(digits) >= 1, Value(digits, 16) < Power(16, Width)
  PROVE  Understood(digits) = Value(digits, 16)
<1>1. /\ digits \in Seq(Nat) /\ Len(digits) \in Nat /\ DOMAIN digits = 1..Len(digits)
      /\ \A k \in 1..Len(digits) : digits[k] \in 0..15
  BY HexAreNumbers, LenProperties
<1>2. digits # <<>>
  BY EmptySeq
<1>3. Power(16, Width) \in Nat
  <2>1. Width \in 0..Width
    BY WidthPowers
  <2> QED
    BY <2>1, WidthPowers
<1>4. ASSUME NEW k \in 1..Len(digits) PROVE ~(Value(SubSeq(digits, 1, k), 16) >= Power(16, Width))
  <2>1. k \in 0..Len(digits)
    BY <1>1
  <2>2. Value(SubSeq(digits, 1, k), 16) <= Value(digits, 16)
    BY <1>1, <2>1, FirstAreLess
  <2>3. Value(digits, 16) \in Nat /\ Value(SubSeq(digits, 1, k), 16) \in Nat
    <3>1. SubSeq(digits, 1, k) \in Seq(Nat)
      <4>1. 1 \in Int /\ k \in Int /\ \A j \in 1..k : digits[j] \in Nat
        BY <1>1
      <4> QED
        BY ONLY <4>1, SubSeqProperties
    <3> QED
      BY <1>1, <3>1, ValueIsNat
  <2> QED
    BY <1>3, <2>2, <2>3
<1> QED
  BY <1>1, <1>2, <1>4 DEF Understood

LEMMA TooMuchIsRefused ==
  ASSUME NEW digits \in Seq(Nat), Len(digits) >= 1, Value(digits, 16) >= Power(16, Width)
  PROVE  Understood(digits) = -1
<1>1. Len(digits) \in DOMAIN digits
  <2>1. Len(digits) \in Nat /\ DOMAIN digits = 1..Len(digits)
    BY LenProperties
  <2> QED
    BY <2>1
<1>2. SubSeq(digits, 1, Len(digits)) = digits
  BY SubSeqFull
<1>3. \E k \in DOMAIN digits : Value(SubSeq(digits, 1, k), 16) >= Power(16, Width)
  BY <1>1, <1>2
<1> QED
  BY <1>3, Zenon DEF Understood

(* A word written whole is read as it was. *)
LEMMA WholeComesBack ==
  ASSUME NEW w \in 0..(Power(16, Width) - 1), NEW s, Hex(w, s)
  PROVE  ParseHex64(s) = w
<1>1. s \in Seq(0..15) /\ s \in Seq(Nat) /\ Len(s) = Width /\ Width \in Nat /\ Width >= 2
      /\ \A k \in 1..Width : s[k] \in 0..15
  BY HexAreNumbers, WidthPowers DEF Hex
<1>2. s[1] \in 0..15 /\ s[2] \in 0..15
  <2>1. 1 \in 1..Width /\ 2 \in 1..Width
    BY <1>1
  <2> QED
    BY <1>1, <2>1
<1>3. Begins(s, 1)
  <2>1. s[1] # Blank
    BY <1>2 DEF Blank
  <2>2. 1 \in 1..(Len(s) + 1) /\ \A k \in 1..(1 - 1) : FALSE
    BY <1>1
  <2> QED
    BY <2>1, <2>2 DEF Begins
<1>4. Start(s, 1) = 1
  <2>1. 1 + 1 = 2 /\ s[2] # X
    BY <1>2 DEF X
  <2> QED
    BY <2>1 DEF Start, Prefixed
<1>5. SubSeq(s, 1, Len(s)) = s
  BY <1>1, SubSeqFull
<1>6. ParseHex64(s) = Understood(s)
  <2>1. ParseHex64(s) = Understood(SubSeq(s, Start(s, 1), Len(s)))
    BY <1>1, <1>3, ParseIs
  <2> QED
    BY <1>4, <1>5, <2>1
<1>7. Value(s, 16) = w
  BY HexValue
<1>8. w < Power(16, Width)
  <2>1. Width \in 0..Width
    BY <1>1
  <2>2. Power(16, Width) \in Nat
    BY <2>1, WidthPowers
  <2> QED
    BY <2>2
<1>9. Understood(s) = w
  BY <1>1, <1>7, <1>8, DigitsUnderstood
<1> QED
  BY <1>6, <1>9

(* A word with a digit too many is refused. *)
LEMMA OneMoreIsRefused ==
  ASSUME NEW w \in 0..(Power(16, Width) - 1), NEW s, Hex(w, s)
  PROVE  ParseHex64(<<1>> \o s) = -1
<1> DEFINE t == <<1>> \o s
<1>1. s \in Seq(Nat) /\ Len(s) = Width /\ Width \in Nat /\ Width >= 2
  BY HexAreNumbers, WidthPowers DEF Hex
<1>2. <<1>> \in Seq(Nat) /\ Len(<<1>>) = 1 /\ <<1>>[1] = 1
  OBVIOUS
<1>3. /\ t \in Seq(Nat) /\ Len(t) = 1 + Width
      /\ \A k \in 1..1 : t[k] = <<1>>[k]
      /\ \A k \in 1..Width : t[1 + k] = s[k]
  BY ONLY <1>1, <1>2, JoinIs
<1> HIDE DEF t
<1>4. t[1] = 1 /\ Len(t) = Width + 1 /\ \A k \in 1..Width : t[k + 1] = s[k]
  BY <1>1, <1>2, <1>3
<1>5. Begins(t, 1) /\ Start(t, 1) = 1
  BY <1>1, <1>4 DEF Begins, Start, Prefixed, Blank
<1>6. ParseHex64(t) = Understood(t)
  <2>1. ParseHex64(t) = Understood(SubSeq(t, Start(t, 1), Len(t)))
    BY <1>3, <1>5, ParseIs
  <2>2. SubSeq(t, 1, Len(t)) = t
    BY <1>3, SubSeqFull
  <2> QED
    BY <1>5, <2>1, <2>2
<1>7. Value(t, 16) = Power(16, Width) + w
  BY <1>3, <1>4, HexOneMore
<1>8. Value(t, 16) >= Power(16, Width)
  <2>1. Width \in 0..Width
    BY <1>1
  <2>2. Power(16, Width) \in Nat
    BY <2>1, WidthPowers
  <2> QED
    BY <1>7, <2>2
<1>9. Understood(t) = -1
  BY <1>1, <1>3, <1>8, TooMuchIsRefused
<1> QED
  BY <1>6, <1>9 DEF t

(* The short form leaves out the zeros in front and is read after 0x. *)
FirstFull(s, i) == /\ i \in 1..Width /\ (s[i] # 0 \/ i = Width)
                   /\ \A k \in 1..(i - 1) : s[k] = 0

LEMMA ShortIs ==
  ASSUME NEW w \in Nat
  PROVE  \E i \in 1..Width : /\ WriteHexMin(w) = SubSeq(WriteHex64(w), i, Width)
                             /\ \A k \in 1..(i - 1) : WriteHex64(w)[k] = 0
<1> DEFINE all == WriteHex64(w)
           first == CHOOSE i \in 1..Width : (all[i] # 0 \/ i = Width) /\ \A k \in 1..(i - 1) : all[k] = 0
           Full == {i \in 1..Width : all[i] # 0 \/ i = Width}
<1>1. WriteHexMin(w) = SubSeq(all, first, Width)
  BY DEF WriteHexMin
<1>2. Width \in Nat /\ Width >= 2
  BY WidthPowers
<1> HIDE DEF all
<1>3. PICK i \in Full : \A j \in Full : i <= j
  <2>1. Width \in Full /\ Full \in SUBSET Nat
    BY <1>2
  <2> HIDE DEF Full
  <2> QED
    BY <2>1, LeastNumber
<1>4. i \in 1..Width /\ (all[i] # 0 \/ i = Width) /\ \A k \in 1..(i - 1) : all[k] = 0
  <2>1. ASSUME NEW k \in 1..(i - 1) PROVE all[k] = 0
    <3>1. k \in 1..Width /\ ~(i <= k)
      BY <1>2
    <3>2. k \notin Full
      BY <1>3, <3>1
    <3> QED
      BY <3>1, <3>2
  <2> QED
    BY <2>1
<1>5. first \in 1..Width /\ \A k \in 1..(first - 1) : all[k] = 0
  BY <1>4, Zenon
<1> HIDE DEF first
<1> QED
  BY <1>1, <1>5 DEF all

LEMMA ShortComesBack ==
  ASSUME NEW w \in 0..(Power(16, Width) - 1)
  PROVE  ParseHex64(<<Blank, 0, X>> \o WriteHexMin(w)) = w
<1> DEFINE all == WriteHex64(w)
           short == WriteHexMin(w)
           front == <<Blank, 0, X>>
           args == front \o short
<1>1. w \in Nat /\ Hex(w, all)
  <2>1. w \in Nat
    <3>1. Width \in 0..Width
      BY WidthPowers
    <3>2. Power(16, Width) \in Nat
      BY <3>1, WidthPowers
    <3> QED
      BY <3>2
  <2> QED
    BY <2>1, HexIs
<1>2. /\ all \in Seq(0..15) /\ all \in Seq(Nat) /\ Len(all) = Width /\ Width \in Nat /\ Width >= 2
      /\ \A k \in 1..Width : all[k] \in 0..15
  BY <1>1, HexAreNumbers, WidthPowers DEF Hex
<1>3. PICK i \in 1..Width : short = SubSeq(all, i, Width) /\ \A k \in 1..(i - 1) : all[k] = 0
  BY <1>1, ShortIs
<1> HIDE DEF all, short, front
<1>4. /\ short \in Seq(0..15) /\ Len(short) = Width - (i - 1)
      /\ \A k \in 1..Len(short) : short[k] = all[(i - 1) + k]
  <2>1. i \in Int /\ Width \in Int /\ \A k \in i..Width : all[k] \in 0..15
    BY <1>2
  <2>2. /\ SubSeq(all, i, Width) \in Seq(0..15)
        /\ Len(SubSeq(all, i, Width)) = IF i <= Width THEN Width - i + 1 ELSE 0
        /\ \A k \in 1..(Width - i + 1) : SubSeq(all, i, Width)[k] = all[i + k - 1]
    BY ONLY <2>1, SubSeqProperties
  <2>3. short \in Seq(0..15) /\ Len(short) = Width - i + 1
        /\ \A k \in 1..(Width - i + 1) : short[k] = all[i + k - 1]
    BY <1>2, <1>3, <2>2
  <2>4. ASSUME NEW k \in 1..Len(short) PROVE short[k] = all[(i - 1) + k]
    <3>1. k \in 1..(Width - i + 1) /\ (i - 1) + k = i + k - 1
      BY <1>2, <2>3
    <3> QED
      BY <2>3, <3>1
  <2> QED
    BY <1>2, <2>3, <2>4
<1>5. short \in Seq(Nat) /\ Len(short) >= 1 /\ Len(short) \in Nat
  BY <1>2, <1>4, HexAreNumbers
<1>6. all = Zeros(i - 1) \o short
  <2> DEFINE zs == Zeros(i - 1)
  <2>1. zs \in Seq(Nat) /\ Len(zs) = i - 1 /\ \A k \in 1..(i - 1) : zs[k] = 0
    BY DEF Zeros
  <2> HIDE DEF zs
  <2>2. /\ zs \o short \in Seq(Nat) /\ Len(zs \o short) = (i - 1) + Len(short)
        /\ \A k \in 1..(i - 1) : (zs \o short)[k] = zs[k]
        /\ \A k \in 1..Len(short) : (zs \o short)[(i - 1) + k] = short[k]
    <3>1. /\ zs \o short \in Seq(Nat) /\ Len(zs \o short) = Len(zs) + Len(short)
          /\ \A k \in 1..Len(zs) : (zs \o short)[k] = zs[k]
          /\ \A k \in 1..Len(short) : (zs \o short)[Len(zs) + k] = short[k]
      BY ONLY <1>5, <2>1, JoinIs
    <3> QED
      BY <2>1, <3>1
  <2>3. ASSUME NEW k \in 1..Len(all) PROVE all[k] = (zs \o short)[k]
    <3>1. CASE k <= i - 1
      <4>1. k \in 1..(i - 1)
        BY <1>2, <3>1
      <4> QED
        BY <1>3, <2>1, <2>2, <4>1
    <3>2. CASE ~(k <= i - 1)
      <4> DEFINE j == k - (i - 1)
      <4>1. j \in 1..Len(short) /\ (i - 1) + j = k
        BY <1>2, <1>4, <3>2
      <4> HIDE DEF j
      <4>2. short[j] = all[(i - 1) + j] /\ (zs \o short)[(i - 1) + j] = short[j]
        BY <1>4, <2>2, <4>1
      <4> QED
        BY <4>1, <4>2
    <3> QED
      BY <3>1, <3>2
  <2>4. Len(all) = Len(zs \o short)
    BY <1>2, <1>4, <2>2
  <2>5. all = zs \o short
    BY ONLY <1>2, <2>2, <2>3, <2>4, SeqEqual
  <2> QED
    BY <2>5 DEF zs
<1>7. Value(short, 16) = w
  <2>1. Value(all, 16) = w
    BY <1>1, HexValue
  <2>2. i - 1 \in Nat /\ 16 \in Nat
    BY <1>2
  <2>3. Value(Zeros(i - 1) \o short, 16) = Value(short, 16)
    BY <1>5, <2>2, ValueOfZeros
  <2> QED
    BY <1>6, <2>1, <2>3
<1>8. front \in Seq(Nat) /\ Len(front) = 3 /\ front[1] = Blank /\ front[2] = 0 /\ front[3] = X
  BY DEF front, Blank, X
<1>9. /\ args \in Seq(Nat) /\ Len(args) = 3 + Len(short)
      /\ \A k \in 1..3 : args[k] = front[k]
      /\ \A k \in 1..Len(short) : args[3 + k] = short[k]
  <2>1. /\ args \in Seq(Nat) /\ Len(args) = Len(front) + Len(short)
        /\ \A k \in 1..Len(front) : args[k] = front[k]
        /\ \A k \in 1..Len(short) : args[Len(front) + k] = short[k]
    BY ONLY <1>5, <1>8, JoinIs
  <2> HIDE DEF args
  <2> QED
    BY <1>8, <2>1
<1> HIDE DEF args
<1>10. args[1] = Blank /\ args[2] = 0 /\ args[3] = X
  <2>1. 1 \in 1..3 /\ 2 \in 1..3 /\ 3 \in 1..3
    OBVIOUS
  <2> QED
    BY <1>8, <1>9, <2>1
<1>11. Begins(args, 2)
  <2>1. 2 \in 1..(Len(args) + 1) /\ \A k \in 1..(2 - 1) : k = 1
    BY <1>5, <1>9
  <2>2. args[2] # Blank
    BY <1>10 DEF Blank
  <2> QED
    BY <1>10, <2>1, <2>2 DEF Begins
<1>12. Start(args, 2) = 3 + 1
  <2>1. Len(args) >= 2 + 1 /\ 2 + 1 = 3 /\ 2 + 2 = 3 + 1
    BY <1>5, <1>9
  <2>2. Prefixed(args, 2)
    BY <1>10, <2>1 DEF Prefixed
  <2> QED
    BY <2>1, <2>2 DEF Start
<1>13. SubSeq(args, 3 + 1, Len(args)) = short
  <2>1. 3 \in Nat /\ Len(args) \in Int /\ Len(args) = 3 + Len(short) /\ Len(args) <= Len(args)
    BY <1>5, <1>9
  <2> QED
    BY ONLY <1>5, <1>9, <2>1, PartIs
<1>14. ParseHex64(args) = Understood(short)
  <2>1. ParseHex64(args) = Understood(SubSeq(args, Start(args, 2), Len(args)))
    BY <1>9, <1>11, ParseIs
  <2> QED
    BY <1>12, <1>13, <2>1
<1>15. w < Power(16, Width)
  <2>1. Width \in 0..Width
    BY <1>2
  <2>2. Power(16, Width) \in Nat
    BY <2>1, WidthPowers
  <2> QED
    BY <2>2
<1>16. Understood(short) = w
  BY <1>4, <1>5, <1>7, <1>15, DigitsUnderstood
<1> QED
  BY <1>14, <1>16 DEF args, front, short

(* The two low digits are the last two of the whole word. *)
LEMMA LowDigits ==
  ASSUME NEW w \in Nat, NEW room
  PROVE  HexDigits(w, 2, room) = Within(room, SubSeq(WriteHex64(w), Width - 1, Width))
<1> DEFINE full == WriteHex64(w)
           two == [i \in 1..2 |-> (w \div Power(16, 2 - i)) % 16]
           last == SubSeq(full, Width - 1, Width)
<1>1. Hex(w, full) /\ Width \in Nat /\ Width >= 2
  BY HexIs, WidthPowers
<1> HIDE DEF full
<1>2. full \in Seq(0..15) /\ Len(full) = Width
      /\ \A i \in 1..Width : full[i] = (w \div Power(16, Width - i)) % 16 /\ full[i] \in 0..15
  BY <1>1, HexAreNumbers DEF Hex
<1>3. /\ last \in Seq(0..15) /\ Len(last) = 2
      /\ \A i \in 1..2 : last[i] = full[Width - 1 + i - 1]
  <2>1. Width - 1 \in Int /\ Width \in Int /\ \A k \in (Width - 1)..Width : full[k] \in 0..15
    BY <1>1, <1>2
  <2>2. /\ last \in Seq(0..15)
        /\ Len(last) = (IF Width - 1 <= Width THEN Width - (Width - 1) + 1 ELSE 0)
        /\ \A k \in 1..(Width - (Width - 1) + 1) : last[k] = full[Width - 1 + k - 1]
    BY ONLY <2>1, SubSeqProperties
  <2>3. Width - (Width - 1) + 1 = 2 /\ Width - 1 <= Width
    BY <1>1
  <2> HIDE DEF last
  <2> QED
    BY <2>2, <2>3
<1> HIDE DEF last
<1>4. ASSUME NEW i \in 1..2 PROVE last[i] = two[i]
  <2>1. Width - 1 + i - 1 \in 1..Width /\ Width - (Width - 1 + i - 1) = 2 - i
    BY <1>1
  <2> DEFINE j == Width - 1 + i - 1
  <2>2. full[j] = (w \div Power(16, Width - j)) % 16 /\ last[i] = full[j]
    <3>1. last[i] = full[j]
      BY <1>3
    <3> HIDE DEF j
    <3> QED
      BY <1>2, <2>1, <3>1 DEF j
  <2>3. two[i] = (w \div Power(16, 2 - i)) % 16
    OBVIOUS
  <2> QED
    BY <2>1, <2>2, <2>3
<1>5. last = two
  <2>1. last = [i \in 1..2 |-> last[i]]
    BY <1>3, LenProperties
  <2> QED
    BY <1>4, <2>1
<1>6. HexDigits(w, 2, room) = Within(room, two)
  BY Zenon DEF HexDigits
<1> QED
  BY <1>5, <1>6 DEF last, full

(* Whatever is understood is made of digits, blanks and 0x. *)
LEMMA BeginExists ==
  ASSUME NEW args \in Seq(Nat)
  PROVE  \E i : Begins(args, i)
<1> DEFINE Ends == {i \in 1..(Len(args) + 1) : i = Len(args) + 1 \/ args[i] # Blank}
<1>1. Len(args) \in Nat
  BY LenProperties
<1>2. PICK i \in Ends : \A j \in Ends : i <= j
  <2>1. Len(args) + 1 \in Ends /\ Ends \in SUBSET Nat
    BY <1>1
  <2> HIDE DEF Ends
  <2> QED
    BY <2>1, LeastNumber
<1>3. ASSUME NEW k \in 1..(i - 1) PROVE args[k] = Blank
  <2>1. k \in 1..(Len(args) + 1) /\ ~(i <= k)
    BY <1>1
  <2>2. k \notin Ends
    BY <1>2, <2>1
  <2> QED
    BY <2>1, <2>2
<1>4. Begins(args, i)
  BY <1>3 DEF Begins
<1> QED
  BY <1>4

LEMMA OnlyDigits ==
  ASSUME NEW args \in Seq(Nat), ParseHex64(args) # -1, NEW k \in 1..Len(args)
  PROVE  args[k] \in (0..15) \cup {Blank, X}
<1>1. Len(args) \in Nat
  BY LenProperties
<1>2. PICK i : Begins(args, i)
  BY BeginExists
<1> DEFINE from == Start(args, i)
           digits == SubSeq(args, from, Len(args))
<1>3. ParseHex64(args) = Understood(digits)
  BY <1>2, ParseIs
<1>4. \A j \in DOMAIN digits : digits[j] \in 0..15
  <2> HIDE DEF digits
  <2> QED
    BY <1>3, Zenon DEF Understood
<1>5. i \in 1..(Len(args) + 1) /\ from \in {i, i + 2}
  BY <1>1, <1>2 DEF Begins, Start
<1>6. CASE k < i
  <2>1. k \in 1..(i - 1)
    BY <1>5, <1>6
  <2> QED
    BY <1>2, <2>1 DEF Begins
<1>7. CASE i <= k /\ k < from
  <2>1. Prefixed(args, i)
    BY <1>5, <1>7 DEF Start
  <2>2. k = i \/ k = i + 1
    BY <1>5, <1>7
  <2>3. args[i] = 0 /\ args[i + 1] = X
    BY <2>1 DEF Prefixed
  <2> QED
    BY <2>2, <2>3
<1>8. CASE from <= k
  <2> DEFINE j == k - from + 1
  <2>1. from \in Int /\ from >= 1
    BY <1>1, <1>5
  <2>2. from + j - 1 = k /\ j \in 1..(Len(args) - from + 1) /\ from <= Len(args)
    BY <1>1, <1>8, <2>1, SMTT(20)
  <2>3. \A m \in from..Len(args) : args[m] \in Nat
    <3> SUFFICES ASSUME NEW m \in from..Len(args) PROVE args[m] \in Nat
      OBVIOUS
    <3>1. m \in 1..Len(args)
      BY <1>1, <2>1
    <3> QED
      BY <3>1, ElementOfSeq
  <2>4. Len(args) \in Int
    BY <1>1
  <2> HIDE DEF from
  <2>5. /\ digits \in Seq(Nat)
        /\ Len(digits) = (IF from <= Len(args) THEN Len(args) - from + 1 ELSE 0)
        /\ \A m \in 1..(Len(args) - from + 1) : digits[m] = args[from + m - 1]
    BY ONLY <2>1, <2>3, <2>4, SubSeqProperties
  <2> HIDE DEF digits, j
  <2>6. DOMAIN digits = 1..Len(digits) /\ Len(digits) = Len(args) - from + 1
    BY <2>2, <2>5, LenProperties
  <2>7. digits[j] \in 0..15 /\ digits[j] = args[from + j - 1]
    BY <1>4, <2>2, <2>5, <2>6
  <2> QED
    BY <2>2, <2>7
<1>9. from \in Int /\ k \in Int /\ i \in Int
  BY <1>1, <1>5
<1> HIDE DEF from
<1> QED
  BY <1>6, <1>7, <1>8, <1>9

(* The four numbers of the probe can be told apart. *)
Told(p, s) == /\ Len(s) = 3 + (IF p[4] >= 10 THEN 2 ELSE 1)
              /\ s[1] = p[1] /\ s[2] = p[2] /\ s[3] = p[3]
              /\ p[4] < 10 => s[4] = p[4]
              /\ p[4] >= 10 => s[5] = p[4] - 10

LEMMA LastIs ==
  ASSUME NEW w \in {0, 1, 10, 15}
  PROVE  /\ Decimal(w) \in Seq(Nat) /\ Len(Decimal(w)) = IF w >= 10 THEN 2 ELSE 1
         /\ w < 10 => Decimal(w)[1] = w
         /\ w >= 10 => Decimal(w)[2] = w - 10
<1> DEFINE d == Decimal(w)
<1>1. Written(d, w)
  BY DecimalIs
<1>2. d \in Seq(Nat)
  <2>1. d \in Seq(0..9)
    BY <1>1 DEF Written
  <2> QED
    BY <2>1, DigitsAreNumbers
<1> HIDE DEF d
<1>3. CASE w \in {0, 1}
  <2>1. d = <<w>>
    BY <1>1, <1>3 DEF Written
  <2>2. Len(<<w>>) = 1 /\ <<w>>[1] = w
    OBVIOUS
  <2>3. Len(d) = 1 /\ d[1] = w /\ w < 10 /\ ~(w >= 10)
    BY <1>3, <2>1, <2>2
  <2> QED
    BY <1>2, <2>3 DEF d
<1>4. CASE w \in {10, 15}
  <2>1. 10 <= w /\ w < 100 /\ w % 10 = w - 10 /\ ~(w < 10) /\ w >= 10
    BY <1>4
  <2>2. d = <<w \div 10, w % 10>>
    BY <1>1, <2>1 DEF Written
  <2>3. Len(<<w \div 10, w % 10>>) = 2 /\ <<w \div 10, w % 10>>[2] = w % 10
    OBVIOUS
  <2>4. Len(d) = 2 /\ d[2] = w - 10
    BY <2>1, <2>2, <2>3
  <2> QED
    BY <1>2, <2>1, <2>4 DEF d
<1> QED
  BY <1>3, <1>4

LEMMA ProbeIs ==
  ASSUME NEW p \in Probes
  PROVE  Told(p, WriteProbeDigits(p))
<1>1. p[1] \in 0..1 /\ p[2] \in 0..1 /\ p[3] \in 0..1 /\ p[4] \in {0, 1, 10, 15}
  BY DEF Probes
<1> DEFINE d == Decimal(p[4])
           s1 == <<p[1]>>
           s2 == s1 \o <<p[2]>>
           s3 == s2 \o <<p[3]>>
           s == s3 \o d
<1>2. ASSUME NEW w \in 0..1 PROVE Decimal(w) = <<w>>
  <2>1. w \in Nat /\ w < 10
    OBVIOUS
  <2> QED
    BY <2>1, DecimalIs DEF Written
<1>3. WriteProbeDigits(p) = s
  BY <1>1, <1>2 DEF WriteProbeDigits
<1>4. /\ d \in Seq(Nat) /\ Len(d) = IF p[4] >= 10 THEN 2 ELSE 1
      /\ p[4] < 10 => d[1] = p[4]
      /\ p[4] >= 10 => d[2] = p[4] - 10
  BY <1>1, LastIs
<1> HIDE DEF d
<1>5. ASSUME NEW w \in 0..1 PROVE <<w>> \in Seq(Nat) /\ Len(<<w>>) = 1 /\ <<w>>[1] = w
  OBVIOUS
<1>6. s1 \in Seq(Nat) /\ Len(s1) = 1 /\ s1[1] = p[1]
  BY <1>1, <1>5
<1> HIDE DEF s1
<1>7. s2 \in Seq(Nat) /\ Len(s2) = 2 /\ s2[1] = p[1] /\ s2[2] = p[2]
  <2> DEFINE t == <<p[2]>>
  <2>1. t \in Seq(Nat) /\ Len(t) = 1 /\ t[1] = p[2]
    BY <1>1, <1>5
  <2> HIDE DEF t
  <2>2. /\ s1 \o t \in Seq(Nat) /\ Len(s1 \o t) = Len(s1) + Len(t)
        /\ \A k \in 1..Len(s1) : (s1 \o t)[k] = s1[k]
        /\ \A k \in 1..Len(t) : (s1 \o t)[Len(s1) + k] = t[k]
    BY ONLY <1>6, <2>1, JoinIs
  <2>3. 1 \in 1..1 /\ 1 + 1 = 2
    OBVIOUS
  <2>4. s1 \o t \in Seq(Nat) /\ Len(s1 \o t) = 2 /\ (s1 \o t)[1] = p[1] /\ (s1 \o t)[2] = p[2]
    BY <1>6, <2>1, <2>2, <2>3
  <2> QED
    BY <2>4 DEF t
<1> HIDE DEF s2
<1>8. s3 \in Seq(Nat) /\ Len(s3) = 3 /\ s3[1] = p[1] /\ s3[2] = p[2] /\ s3[3] = p[3]
  <2> DEFINE t == <<p[3]>>
  <2>1. t \in Seq(Nat) /\ Len(t) = 1 /\ t[1] = p[3]
    BY <1>1, <1>5
  <2> HIDE DEF t
  <2>2. /\ s2 \o t \in Seq(Nat) /\ Len(s2 \o t) = Len(s2) + Len(t)
        /\ \A k \in 1..Len(s2) : (s2 \o t)[k] = s2[k]
        /\ \A k \in 1..Len(t) : (s2 \o t)[Len(s2) + k] = t[k]
    BY ONLY <1>7, <2>1, JoinIs
  <2>3. 1 \in 1..1 /\ 1 \in 1..2 /\ 2 \in 1..2 /\ 2 + 1 = 3
    OBVIOUS
  <2>4. /\ s2 \o t \in Seq(Nat) /\ Len(s2 \o t) = 3
        /\ (s2 \o t)[1] = p[1] /\ (s2 \o t)[2] = p[2] /\ (s2 \o t)[3] = p[3]
    BY <1>7, <2>1, <2>2, <2>3
  <2> QED
    BY <2>4 DEF t
<1> HIDE DEF s3
<1>9. /\ Len(s) = 3 + Len(d)
      /\ \A k \in 1..3 : s[k] = s3[k]
      /\ \A k \in 1..Len(d) : s[3 + k] = d[k]
  <2>1. /\ Len(s) = Len(s3) + Len(d)
        /\ \A k \in 1..Len(s3) : s[k] = s3[k]
        /\ \A k \in 1..Len(d) : s[Len(s3) + k] = d[k]
    BY ONLY <1>4, <1>8, JoinIs
  <2> HIDE DEF s
  <2> QED
    BY <1>8, <2>1
<1> HIDE DEF s
<1>10. s[1] = p[1] /\ s[2] = p[2] /\ s[3] = p[3]
  <2>1. 1 \in 1..3 /\ 2 \in 1..3 /\ 3 \in 1..3
    OBVIOUS
  <2> QED
    BY <1>8, <1>9, <2>1
<1>11. CASE p[4] < 10
  <2>1. Len(d) = 1 /\ 1 \in 1..1 /\ 3 + 1 = 4 /\ d[1] = p[4] /\ ~(p[4] >= 10)
    BY <1>1, <1>4, <1>11
  <2>2. s[4] = p[4] /\ Len(s) = 3 + 1
    BY <1>9, <2>1
  <2> QED
    BY <1>3, <1>10, <2>1, <2>2 DEF Told
<1>12. CASE ~(p[4] < 10)
  <2>1. Len(d) = 2 /\ 2 \in 1..2 /\ 3 + 2 = 5 /\ d[2] = p[4] - 10 /\ p[4] >= 10
    BY <1>1, <1>4, <1>12
  <2>2. s[5] = p[4] - 10 /\ Len(s) = 3 + 2
    BY <1>9, <2>1
  <2> QED
    BY <1>3, <1>10, <1>12, <2>1, <2>2 DEF Told
<1> QED
  BY <1>11, <1>12

LEMMA ProbesAreTold == ProbesDiffer
<1> SUFFICES ASSUME NEW p \in Probes, NEW r \in Probes, WriteProbeDigits(p) = WriteProbeDigits(r)
             PROVE  p = r
  BY DEF ProbesDiffer
<1> DEFINE s == WriteProbeDigits(p)
<1>1. Told(p, s) /\ Told(r, s)
  BY ProbeIs
<1>2. p[4] \in {0, 1, 10, 15} /\ r[4] \in {0, 1, 10, 15}
  BY DEF Probes
<1> HIDE DEF s
<1>3. p[1] = r[1] /\ p[2] = r[2] /\ p[3] = r[3]
  BY <1>1 DEF Told
<1>4. p[4] = r[4]
  BY <1>1, <1>2 DEF Told
<1>5. p = <<p[1], p[2], p[3], p[4]>> /\ r = <<r[1], r[2], r[3], r[4]>>
  BY DEF Probes
<1> QED
  BY <1>3, <1>4, <1>5

LEMMA TextIsRight ==
  ASSUME text \in Texts
  PROVE  TextComesBack
<1> DEFINE w == text.word
           full == WriteHex64(w)
           arg == text.line
<1>1. /\ w \in Words /\ Words \subseteq 0..(Power(16, Width) - 1) /\ text.float \in Int
      /\ arg \in Seq(Nat)
  <2>1. w \in Words /\ text.float \in Floats2 /\ arg \in Lines
    BY DEF Texts
  <2>2. Words \subseteq 0..(Power(16, Width) - 1) /\ Floats2 \subseteq Int /\ Lines \subseteq Seq(Nat)
    BY TextAssumption
  <2> HIDE DEF w, arg
  <2> QED
    BY <2>1, <2>2
<1> HIDE DEF w
<1>2. w \in 0..(Power(16, Width) - 1) /\ w \in Nat
  <2>1. Width \in 0..Width
    BY WidthPowers
  <2>2. Power(16, Width) \in Nat
    BY <2>1, WidthPowers
  <2>3. w \in 0..(Power(16, Width) - 1)
    BY <1>1, Zenon
  <2> QED
    BY <2>2, <2>3
<1>3. Hex(w, full)
  BY <1>2, HexIs
<1> HIDE DEF full
<1>4. ParseHex64(full) = w
  BY <1>2, <1>3, WholeComesBack
<1>5. ParseHex64(<<Blank, 0, X>> \o WriteHexMin(w)) = w
  BY <1>2, ShortComesBack
<1>6. ParseHex64(<<1>> \o full) = -1
  BY <1>2, <1>3, OneMoreIsRefused
<1>7. \A room \in Rooms : HexDigits(w, 2, room) = Within(room, SubSeq(full, Width - 1, Width))
  BY <1>2, LowDigits DEF full
<1>8. DOMAIN arg = 1..Len(arg)
  BY <1>1, LenProperties
<1>9. ParseHex64(arg) # -1 => \A i \in DOMAIN arg : arg[i] \in (0..15) \cup {Blank, X}
  <2> HIDE DEF arg
  <2> QED
    BY <1>1, <1>8, OnlyDigits
<1>10. Noise \in {arg[i] : i \in DOMAIN arg} => ParseHex64(arg) = -1
  <2>1. Noise \notin (0..15) \cup {Blank, X}
    BY DEF Noise, Blank, X
  <2> QED
    BY <1>9, <2>1
<1>11. LET told == WriteF32(text.float)
           half == 2 * ParseF32(told) - text.float
       IN IF text.float \in (-2 * UMax)..(2 * UMax) THEN half \in -1..1
          ELSE ParseF32(told) \in {UMax, -UMax}
  BY <1>1, FloatIsNear
<1> QED
  BY <1>4, <1>5, <1>6, <1>7, <1>9, <1>10, <1>11, ProbesAreTold DEF TextComesBack, w, full

(* A number that is written, whole or short or as a float, reads back as   *)
(* what it was, and an argument is understood only if it is one            *)
(* (src/hexutil.rs parse_hex64, write_hex_min; src/net.rs write_f32_buf;   *)
(* src/serial.rs parse_f32).                                               *)
THEOREM NumbersAreRead == Spec => []NumbersComeBack
<1> DEFINE L == followed = "text" => text \in Texts
<1>1. Init => L
  BY DEF Init, TextInit
<1>2. L /\ [Next]_sensesVars => L'
  BY DEF Next, FollowTouch, FollowPad, FollowPain, FollowLine, Resting, sensesVars, still
<1>3. L => NumbersComeBack
  BY TextIsRight DEF NumbersComeBack
<1> QED
  BY <1>1, <1>2, <1>3, PTL DEF Spec
=============================================================================
