----------------------------- MODULE MindProofs -----------------------------
(***************************************************************************)
(* The safety of the organs of the mind for every capacity, period and     *)
(* threshold, every number of ticks and every input.                       *)
(*                                                                         *)
(* Each organ has an inductive invariant of its own, named after it and    *)
(* proved about the organ's next-state relation; Mind moves one organ at a *)
(* time, so the conjunction of them is inductive for Spec.                 *)
(***************************************************************************)
EXTENDS Mind, Induction, TLAPS, SequenceTheorems, FiniteSetTheorems

-----------------------------------------------------------------------------
(* Remainders, for the rings and the periods of every organ. *)
LEMMA Remainder ==
  ASSUME NEW c \in Nat \ {0}, NEW x \in 0..(2 * c - 1)
  PROVE  x % c = IF x < c THEN x ELSE x - c
<1>1. CASE x < c
  BY <1>1
<1>2. CASE ~(x < c)
  <2>1. x - c \in 0..(c - 1) /\ x = (x - c) + c
    BY <1>2
  <2> QED
    BY <1>2, <2>1
<1> QED
  BY <1>1, <1>2

LEMMA RemainderIsUnique ==
  ASSUME NEW c \in Nat \ {0}, NEW q \in Int, NEW r \in 0..(c - 1), NEW y \in Int, y = c * q + r
  PROVE  y % c = r /\ y \div c = q
<1> DEFINE w == y % c
           p == y \div c
           d == p - q
<1>1. w \in 0..(c - 1) /\ p \in Int /\ y = c * p + w
  OBVIOUS
<1> HIDE DEF w, p
<1>2. c * p + w = c * q + r
  BY <1>1
<1>3. c * d = c * p - c * q
  BY <1>1
<1>4. c * d = r - w
  BY <1>1, <1>2, <1>3
<1>5. d \in Int
  BY <1>1
<1> HIDE DEF d
<1>6. d >= 1 => c * d >= c
  BY <1>5
<1>7. d <= -1 => c * d <= -c
  BY <1>5
<1>8. d = 0
  BY <1>1, <1>4, <1>5, <1>6, <1>7
<1>9. c * d = 0
  BY <1>8
<1>10. w = r
  BY <1>1, <1>4, <1>9
<1>11. p = q
  BY <1>1, <1>8 DEF d
<1> QED
  BY <1>10, <1>11 DEF w, p

(* A counter that never wraps: the slot of a ring it stands for, and the   *)
(* periods that have passed.                                               *)
LEMMA NextRemainder ==
  ASSUME NEW c \in Nat \ {0}, NEW x \in Nat
  PROVE  /\ x % c \in 0..(c - 1)
         /\ (x + 1) % c = IF (x % c) + 1 = c THEN 0 ELSE (x % c) + 1
         /\ (x + 1) \div c = IF (x + 1) % c = 0 THEN (x \div c) + 1 ELSE x \div c
<1> DEFINE r == x % c
           q == x \div c
<1>1. r \in 0..(c - 1) /\ q \in Int /\ x = c * q + r
  OBVIOUS
<1>2. CASE r + 1 < c
  <2>1. x + 1 = c * q + (r + 1) /\ r + 1 \in 0..(c - 1)
    BY <1>1, <1>2
  <2>2. (x + 1) % c = r + 1 /\ (x + 1) \div c = q
    <3> DEFINE y == x + 1
               w == r + 1
    <3>1. y = c * q + w /\ w \in 0..(c - 1) /\ y \in Int /\ q \in Int
      BY <1>1, <2>1
    <3> HIDE DEF y, w, r, q
    <3>2. y % c = w /\ y \div c = q
      BY <3>1, RemainderIsUnique
    <3> QED
      BY <3>2 DEF y, w
  <2> QED
    BY <1>1, <1>2, <2>2
<1>3. CASE ~(r + 1 < c)
  <2>1. r + 1 = c
    BY <1>1, <1>3
  <2>2. x + 1 = c * q + c
    BY <1>1, <2>1
  <2>3. x + 1 = c * (q + 1)
    BY <1>1, <2>2
  <2>4. (x + 1) % c = 0 /\ (x + 1) \div c = q + 1
    <3> DEFINE y == x + 1
               p == q + 1
               w == 0
    <3>1. y = c * p + w /\ w \in 0..(c - 1) /\ y \in Int /\ p \in Int
      BY <1>1, <2>3
    <3> HIDE DEF y, p, w
    <3>2. y % c = w /\ y \div c = p
      BY <3>1, RemainderIsUnique
    <3> QED
      BY <3>2 DEF y, w, p
  <2> QED
    BY <1>1, <2>1, <2>4
<1> QED
  BY <1>2, <1>3

-----------------------------------------------------------------------------
(* Adapter. *)
AdapterIInv == AdapterTypeOK /\ (u # 0 \/ v # 0)

LEMMA AdapterInitIInv == AdapterInit => AdapterIInv
  BY AdapterAssumption DEF AdapterInit, AdapterIInv, AdapterTypeOK, Alive

LEMMA PassoIInv ==
  AdapterIInv /\ Passo =>
    /\ AdapterIInv'
    /\ \A t \in lastPasso' : t.m <= 0 \/ ~t.open => u' <= u /\ v' <= v
<1> SUFFICES ASSUME AdapterIInv,
                    NEW t \in Moments,
                    NEW a \in IF LearnsU(t) THEN Levels ELSE Shrunk(u),
                    NEW b \in IF LearnsV(t) THEN Alive ELSE Shrunk(v),
                    NEW p \in Clamped(a, b),
                    u' = p[1], v' = p[2], lastPasso' = {t}
             PROVE  /\ AdapterIInv'
                    /\ t.m <= 0 \/ ~t.open => u' <= u /\ v' <= v
  BY DEF Passo
<1>1. u' \in Shrunk(a) /\ v' \in Shrunk(b)
  BY DEF Clamped
<1>2. u \in Nat /\ v \in Nat /\ Levels \subseteq Nat
  BY AdapterAssumption DEF AdapterIInv, AdapterTypeOK
<1>3. a \in Levels /\ b \in Levels /\ u' \in Levels /\ v' \in Levels
  BY <1>1 DEF Shrunk, Alive
<1>4. (u' = 0 <=> a = 0) /\ (v' = 0 <=> b = 0) /\ u' <= a /\ v' <= b
  BY <1>1 DEF Shrunk
<1>5. u' # 0 \/ v' # 0
  <2>1. CASE v # 0
    <3>1. b # 0
      BY <2>1, <1>2 DEF Shrunk, Alive
    <3> QED
      BY <3>1, <1>4
  <2>2. CASE v = 0
    <3>1. u # 0 /\ ~LearnsU(t)
      BY <2>2 DEF AdapterIInv, LearnsU
    <3>2. a # 0
      BY <3>1 DEF Shrunk
    <3> QED
      BY <3>2, <1>4
  <2> QED
    BY <2>1, <2>2
<1>6. ASSUME t.m <= 0 \/ ~t.open PROVE u' <= u /\ v' <= v
  <2>1. t.m \in {-1, 0, 1}
    BY DEF Moments
  <2>2. ~Drive(t)
    BY <1>6, <2>1 DEF Drive, Gated, Law, V21
  <2>3. a <= u /\ b <= v
    BY <2>2 DEF LearnsU, LearnsV, Shrunk
  <2> QED
    BY <2>3, <1>2, <1>3, <1>4
<1> QED
  BY <1>3, <1>5, <1>6 DEF AdapterIInv, AdapterTypeOK

LEMMA PotaturaIInv == AdapterIInv /\ Potatura => AdapterIInv' /\ lastPasso' = {}
<1> SUFFICES ASSUME AdapterIInv, Potatura PROVE AdapterIInv' /\ lastPasso' = {}
  OBVIOUS
<1>1. Redrawn = Alive
  BY DEF Redrawn, Law, V21
<1>2. 0 \in Levels
  BY AdapterAssumption
<1>3. CASE Dead
  BY <1>1, <1>2, <1>3 DEF Potatura, AdapterIInv, AdapterTypeOK, Alive
<1>4. CASE ~Dead
  BY <1>4 DEF Potatura, AdapterIInv, AdapterTypeOK
<1> QED
  BY <1>3, <1>4 DEF Potatura

LEMMA AdapterStep ==
  ASSUME AdapterIInv, [AdapterNext]_adapterOwn
  PROVE  /\ AdapterIInv'
         /\ [\A t \in lastPasso' : t.m <= 0 \/ ~t.open => u' <= u /\ v' <= v]_adapterOwn
<1>1. CASE UNCHANGED adapterOwn
  BY <1>1 DEF adapterOwn, AdapterIInv, AdapterTypeOK
<1>2. CASE AdapterNext
  BY <1>2, PassoIInv, PotaturaIInv DEF AdapterNext
<1> QED
  BY <1>1, <1>2
-----------------------------------------------------------------------------
(* Brain.  A cycle is told by the ticks since the reading was submitted:   *)
(* the runtime thinks while they are fewer than its latency, whatever the  *)
(* kernels do, and the answer is out for three ticks from there.           *)
Timing ==
  /\ thought.is = "Thinking" => /\ asked \in 0..(Latency - 1)
                                /\ thought.left = Latency - asked
                                /\ runtime = "nucleo" => layer = asked
  /\ thought.is = "Output" => /\ thought.left \in {1, 2} /\ asked = Latency + 2 - thought.left
                              /\ output = {input}
  /\ thought.is = "Idle" => \/ asked = Latency + 2 /\ output = {input}
                            \/ asked = 0 /\ brainPc = "ask"

\* The will hears an answer only in the tick that took it, and only a new one.
HeardNow == heard = IF brainPc = "will" /\ asked >= Latency THEN {input} ELSE {}

\* How many wills in a row may have heard an answer, a ticks after the request.
Row(a) == IF a = 0 THEN 3 ELSE IF a < Latency THEN 0 ELSE a - Latency + 1

RowLaw == /\ brainPc = "will" => asked > 0 /\ stale <= Row(asked - 1)
          /\ brainPc # "will" => stale <= Row(asked)

\* The Maestro keeps the word of the reading under thought.
WordKept == runtime = "nucleo" /\ thought.is # "Idle" => word = {input}

BrainIInv == BrainTypeOK /\ Timing /\ HeardNow /\ RowLaw /\ WordKept /\ CycleIsCoherent

LEMMA LatencyIsLong == Latency \in Nat \ {0, 1} /\ Latency <= Think + Layers
  BY BrainAssumption DEF Latency

LEMMA BrainInitIInv == BrainInit => BrainIInv
<1> SUFFICES ASSUME BrainInit PROVE BrainIInv
  OBVIOUS
<1>1. BrainTypeOK
  BY LatencyIsLong, BrainAssumption DEF BrainInit, BrainTypeOK, Thoughts
<1>2. Timing /\ HeardNow /\ RowLaw /\ WordKept /\ CycleIsCoherent
  BY LatencyIsLong
     DEF BrainInit, Timing, HeardNow, RowLaw, Row, WordKept, CycleIsCoherent, Idle
<1> QED
  BY <1>1, <1>2 DEF BrainIInv

LEMMA AskIInv == BrainIInv /\ Ask => BrainIInv'
<1> SUFFICES ASSUME BrainIInv, Ask PROVE BrainIInv'
  OBVIOUS
<1> USE LatencyIsLong
<1>1. /\ UNCHANGED <<runtime, output, body, heard, stale>>
      /\ brainPc = "ask" /\ brainPc' = "tick" /\ Latency' = Latency
  BY DEF Ask, Latency
<1>2. CASE Submit
  <2>1. /\ thought = Idle /\ input' = body /\ thought' = Thinking(Latency) /\ layer' = 0
        /\ lessons' = {} /\ asked' = 0
        /\ runtime = "nucleo" => word' = {body}
    BY <1>2 DEF Ask, Submit, Accepting, SetCorpo
  <2>2. thought'.is = "Thinking" /\ thought'.left = Latency /\ thought' \in Thoughts
    BY <2>1 DEF Thinking, Thoughts
  <2>3. word' \subseteq Readings
    BY DEF Ask, SetCorpo, BrainIInv, BrainTypeOK
  <2>4. 0 \in 0..Layers /\ 0 \in 0..(Latency + 3)
    BY BrainAssumption
  <2>5. BrainTypeOK'
    BY <1>1, <2>1, <2>2, <2>3, <2>4 DEF BrainIInv, BrainTypeOK
  <2>6. stale <= 3
    BY <1>1, <2>1 DEF BrainIInv, Timing, RowLaw, Row, Idle, BrainTypeOK
  <2>7. Timing' /\ HeardNow' /\ RowLaw'
    BY <1>1, <2>1, <2>2, <2>6 DEF BrainIInv, Timing, HeardNow, RowLaw, Row
  <2>8. WordKept' /\ CycleIsCoherent'
    BY <1>1, <2>1 DEF WordKept, CycleIsCoherent
  <2> QED
    BY <2>5, <2>7, <2>8 DEF BrainIInv
<1>3. CASE ~Accepting /\ UNCHANGED <<input, thought, layer, error, lessons, asked>>
  <2>1. UNCHANGED word
    BY <1>3 DEF Ask, SetCorpo, Accepting
  <2>2. BrainTypeOK' /\ CycleIsCoherent'
    BY <1>1, <1>3, <2>1 DEF BrainIInv, BrainTypeOK, CycleIsCoherent
  <2>3. thought.is # "Idle"
    BY <1>3 DEF Accepting, BrainIInv, BrainTypeOK, Thoughts, Idle, Thinking, Output
  <2>4. Timing' /\ HeardNow' /\ RowLaw' /\ WordKept'
    BY <1>1, <1>3, <2>1, <2>3 DEF BrainIInv, Timing, HeardNow, RowLaw, Row, WordKept
  <2> QED
    BY <2>2, <2>4 DEF BrainIInv
<1> QED
  BY <1>2, <1>3 DEF Ask

LEMMA ThoughtShape ==
  BrainIInv => /\ thought.is = "Idle" => thought = Idle
               /\ thought.is \in {"Idle", "Thinking", "Output"}
               /\ \A k \in Nat : /\ Thinking(k).is = "Thinking" /\ Thinking(k).left = k
                                 /\ Output(k).is = "Output" /\ Output(k).left = k
               /\ Idle.is = "Idle"
  BY DEF BrainIInv, BrainTypeOK, Thoughts, Idle, Thinking, Output

LEMMA BrainTickIInv == BrainIInv /\ BrainTick => BrainIInv'
<1> SUFFICES ASSUME BrainIInv, BrainTick PROVE BrainIInv'
  OBVIOUS
<1> USE LatencyIsLong
<1>1. /\ UNCHANGED <<runtime, input, word, error, body, stale>>
      /\ brainPc = "tick" /\ brainPc' = "will" /\ Latency' = Latency
      /\ heard' = IF Ready(thought.is, thought'.is) THEN output' ELSE heard
  BY DEF BrainTick, Latency
<1>2. heard = {} /\ stale <= Row(asked) /\ stale \in 0..4
  BY <1>1 DEF BrainIInv, HeardNow, RowLaw, BrainTypeOK
<1>3. asked \in 0..(Latency + 3) /\ layer \in 0..Layers /\ input \in Readings
  BY DEF BrainIInv, BrainTypeOK
<1>4. ASSUME ThinkOn PROVE BrainIInv'
  <2> DEFINE next == IF runtime = "stub" THEN layer ELSE layer + 1
  <2>1. PICK done \in IF runtime = "stub" THEN {{}} ELSE Given :
           /\ layer' = next
           /\ lessons' = lessons \cup Lessons(layer, done)
           /\ IF Finished(next)
                THEN output' = {input} /\ thought' = Output(2)
                ELSE thought' = Thinking(Left(next)) /\ UNCHANGED output
    BY <1>4 DEF ThinkOn
  <2>2. /\ thought.is = "Thinking" /\ asked \in 0..(Latency - 1)
        /\ thought.left = Latency - asked
        /\ runtime = "nucleo" => layer = asked /\ Latency = Layers
    BY <1>4 DEF ThinkOn, BrainIInv, Timing, Latency
  <2>3. asked' = asked + 1
    BY <2>2 DEF BrainTick
  <2>4. runtime \in {"stub", "nucleo"}
    BY DEF BrainIInv, BrainTypeOK, Runtimes
  <2>5. Finished(next) <=> asked + 1 = Latency
    BY <2>2, <2>4 DEF Finished
  <2>6. ~Finished(next) => Left(next) = Latency - asked' /\ Left(next) \in 1..(Think + Layers)
    <3>1. ~Finished(next) => Latency - asked' \in 1..(Think + Layers)
      BY <2>2, <2>3, <2>5, BrainAssumption
    <3>2. runtime = "stub" => Left(next) = Latency - asked'
      BY <2>2, <2>3 DEF Left
    <3>3. runtime = "nucleo" => Left(next) = Latency - asked'
      BY <2>2, <2>3 DEF Left
    <3> QED
      BY <2>4, <3>1, <3>2, <3>3
  <2>7. layer' \in 0..Layers /\ (runtime = "nucleo" => layer' = asked')
    BY <1>3, <2>1, <2>2, <2>3, <2>4
  <2>8. /\ \A x \in lessons' \ lessons : /\ x.layer \in 0..(Layers - 1)
                                         /\ x.on \in Projections
                                         /\ x.by = {input} /\ x.of = error
    <3> SUFFICES ASSUME NEW x \in Lessons(layer, done)
                 PROVE  /\ x.layer \in 0..(Layers - 1) /\ x.on \in Projections
                        /\ x.by = {input} /\ x.of = error
      BY <2>1
    <3>1. PICK on \in done : x = [layer |-> layer, on |-> on, by |-> word, of |-> error]
      BY DEF Lessons
    <3>2. runtime = "nucleo" /\ done \in Given /\ on \in Projections
      BY <2>1, <2>4, <3>1 DEF Given, Projections
    <3>3. word = {input}
      BY <2>2, <3>2 DEF BrainIInv, WordKept
    <3>4. layer \in 0..(Layers - 1)
      BY <1>3, <2>2, <3>2
    <3> QED
      BY <3>1, <3>2, <3>3, <3>4
  <2>9. CycleIsCoherent'
    BY <1>1, <2>8 DEF BrainIInv, CycleIsCoherent
  <2>10. \A x \in lessons' : x.layer \in 0..(Layers - 1) /\ x.on \in Projections
    BY <2>8 DEF BrainIInv, BrainTypeOK
  <2>11. CASE Finished(next)
    <3>1. output' = {input} /\ thought' = Output(2) /\ asked' = Latency
      BY <2>1, <2>3, <2>5, <2>11
    <3>2. thought'.is = "Output" /\ thought'.left = 2 /\ thought' \in Thoughts
      BY <3>1 DEF Output, Thoughts
    <3>3. heard' = {input}
      BY <1>1, <3>1, <3>2 DEF Ready
    <3>4. output' \subseteq Readings /\ heard' \subseteq Readings
      BY <1>3, <3>1, <3>3
    <3>5. asked' \in 0..(Latency + 3)
      BY <3>1
    <3>6. BrainTypeOK'
      BY <1>1, <2>7, <2>10, <3>2, <3>4, <3>5 DEF BrainIInv, BrainTypeOK
    <3>7. Timing' /\ HeardNow' /\ WordKept'
      <4>1. Timing'
        BY <1>1, <3>1, <3>2 DEF Timing
      <4>2. HeardNow' /\ WordKept'
        BY <1>1, <2>2, <3>1, <3>2, <3>3 DEF BrainIInv, HeardNow, WordKept
      <4> QED
        BY <4>1, <4>2
    <3>8. RowLaw'
      BY <1>1, <1>2, <2>2, <2>3, <3>1 DEF RowLaw, Row
    <3> QED
      BY <2>9, <3>6, <3>7, <3>8 DEF BrainIInv
  <2>12. CASE ~Finished(next)
    <3>1. output' = output /\ thought' = Thinking(Left(next)) /\ asked' < Latency
      BY <2>1, <2>2, <2>3, <2>5, <2>12
    <3>2. /\ thought'.is = "Thinking" /\ thought'.left = Latency - asked'
          /\ thought' \in Thoughts
      BY <2>6, <2>12, <3>1 DEF Thinking, Thoughts
    <3>3. heard' = {}
      BY <1>1, <1>2, <2>2, <3>2 DEF Ready
    <3>4. asked' \in 0..(Latency + 3) /\ asked' \in 0..(Latency - 1)
      BY <2>2, <2>3, <3>1
    <3>5. BrainTypeOK'
      BY <1>1, <2>7, <2>10, <3>1, <3>2, <3>3, <3>4 DEF BrainIInv, BrainTypeOK
    <3>6. Timing' /\ HeardNow' /\ WordKept'
      <4>1. Timing'
        BY <1>1, <2>7, <3>2, <3>4 DEF Timing
      <4>2. HeardNow' /\ WordKept'
        BY <1>1, <2>2, <3>1, <3>2, <3>3, <3>4 DEF BrainIInv, HeardNow, WordKept
      <4> QED
        BY <4>1, <4>2
    <3>7. RowLaw'
      BY <1>1, <1>2, <2>2, <2>3, <3>1 DEF RowLaw, Row
    <3> QED
      BY <2>9, <3>5, <3>6, <3>7 DEF BrainIInv
  <2> QED
    BY <2>11, <2>12
<1>5. ASSUME TellOn PROVE BrainIInv'
  <2>1. /\ thought.is = "Output" /\ UNCHANGED <<layer, output, lessons>>
        /\ thought' = IF thought.left <= 1 THEN Idle ELSE Output(thought.left - 1)
    BY <1>5 DEF TellOn
  <2>2. /\ thought.left \in {1, 2} /\ asked = Latency + 2 - thought.left
        /\ output = {input} /\ asked' = asked + 1
    BY <2>1 DEF BrainIInv, Timing, BrainTick
  <2>3. heard' = {input}
    BY <1>1, <2>1, <2>2 DEF Ready
  <2>4. /\ thought.left = 1 => thought'.is = "Idle" /\ asked' = Latency + 2
        /\ thought.left = 2 => thought'.is = "Output" /\ thought'.left = 1
                               /\ asked' = Latency + 1
        /\ thought' \in Thoughts
    BY <2>1, <2>2 DEF Idle, Output, Thoughts
  <2>5. asked' \in 0..(Latency + 3)
    BY <2>2
  <2>6. BrainTypeOK'
    BY <1>1, <1>3, <2>1, <2>3, <2>4, <2>5 DEF BrainIInv, BrainTypeOK
  <2>7. Timing' /\ HeardNow' /\ WordKept'
    <3>1. output' = {input'}
      BY <1>1, <2>1, <2>2
    <3>2. Timing'
      <4>1. CASE thought.left = 1
        <5>1. thought'.is = "Idle" /\ asked' = Latency' + 2
          BY <1>1, <2>4, <4>1
        <5> QED
          BY <3>1, <5>1 DEF Timing
      <4>2. CASE thought.left = 2
        <5>1. thought'.is = "Output" /\ thought'.left = 1 /\ asked' = Latency + 2 - 1
          BY <2>4, <4>2
        <5> QED
          BY <1>1, <3>1, <5>1 DEF Timing
      <4> QED
        BY <2>2, <4>1, <4>2
    <3>3. HeardNow'
      <4>1. asked' >= Latency
        BY <2>2
      <4> QED
        BY <1>1, <2>3, <4>1 DEF HeardNow
    <3>4. WordKept'
      BY <1>1, <2>1 DEF BrainIInv, WordKept
    <3> QED
      BY <3>2, <3>3, <3>4
  <2>8. RowLaw'
    BY <1>1, <1>2, <2>2 DEF RowLaw, Row
  <2>9. CycleIsCoherent'
    BY <1>1, <2>1 DEF BrainIInv, CycleIsCoherent
  <2> QED
    BY <2>6, <2>7, <2>8, <2>9 DEF BrainIInv
<1> QED
  BY <1>4, <1>5 DEF BrainTick

LEMMA HearsIInv == BrainIInv /\ Will => BrainIInv'
<1> SUFFICES ASSUME BrainIInv, Will PROVE BrainIInv'
  OBVIOUS
<1> USE LatencyIsLong
<1>1. /\ UNCHANGED <<runtime, thought, layer, input, output, word, error, lessons, asked>>
      /\ brainPc = "will" /\ brainPc' = "ask" /\ heard' = {} /\ Latency' = Latency
      /\ body' \in Readings
      /\ stale' = IF heard = {} THEN 0 ELSE IF stale <= 3 THEN stale + 1 ELSE stale
  BY DEF Will, Consume, Latency
<1>2. /\ asked \in 0..(Latency + 2) /\ asked > 0 /\ stale <= Row(asked - 1)
      /\ heard = IF asked >= Latency THEN {input} ELSE {}
      /\ stale \in 0..4
  <2>1. asked <= Latency + 2
    BY ThoughtShape DEF BrainIInv, Timing
  <2> QED
    BY <1>1, <2>1 DEF BrainIInv, HeardNow, RowLaw, BrainTypeOK
<1>3. stale' \in 0..4 /\ stale' <= Row(asked)
  BY <1>1, <1>2 DEF Row
<1>4. BrainTypeOK'
  BY <1>1, <1>3 DEF BrainIInv, BrainTypeOK
<1>5. Timing' /\ HeardNow' /\ WordKept' /\ CycleIsCoherent'
  BY <1>1 DEF BrainIInv, Timing, HeardNow, WordKept, CycleIsCoherent
<1>6. RowLaw'
  BY <1>1, <1>3 DEF RowLaw, Row
<1> QED
  BY <1>4, <1>5, <1>6 DEF BrainIInv

LEMMA BrainNextIInv == BrainIInv /\ [BrainNext]_brainOwn => BrainIInv'
<1>1. ASSUME BrainIInv, UNCHANGED brainOwn PROVE BrainIInv'
  <2>1. /\ UNCHANGED <<runtime, thought, layer, input, output, word, error, body, heard>>
        /\ UNCHANGED <<brainPc, lessons, asked, stale>> /\ Latency' = Latency
    BY <1>1 DEF brainOwn, Latency
  <2>2. BrainTypeOK'
    BY <1>1, <2>1 DEF BrainIInv, BrainTypeOK
  <2>3. Timing' /\ HeardNow' /\ RowLaw' /\ WordKept' /\ CycleIsCoherent'
    BY <1>1, <2>1
       DEF BrainIInv, Timing, HeardNow, RowLaw, Row, WordKept, CycleIsCoherent
  <2> QED
    BY <2>2, <2>3 DEF BrainIInv
<1> QED
  BY <1>1, AskIInv, BrainTickIInv, HearsIInv DEF BrainNext

LEMMA BrainSafe == BrainIInv => BrainTypeOK /\ WillIsFresh /\ CycleIsCoherent
<1> SUFFICES ASSUME BrainIInv PROVE WillIsFresh
  BY DEF BrainIInv
<1>1. asked <= Latency + 2 /\ asked \in Nat /\ stale \in Nat
  BY LatencyIsLong, ThoughtShape DEF BrainIInv, Timing, BrainTypeOK
<1>2. stale <= 3
  BY <1>1, LatencyIsLong DEF BrainIInv, RowLaw, Row
<1>3. heard # {} => heard = {input}
  BY DEF BrainIInv, HeardNow
<1> QED
  BY <1>1, <1>2, <1>3 DEF WillIsFresh

(* The runtimes implement the contract of the trait, but for what it       *)
(* promises to do in the end: each step asks, replies, rests or is not     *)
(* seen from outside.                                                      *)
LEMMA BrainImplements ==
  ASSUME BrainIInv, BrainIInv', [BrainNext]_brainOwn PROVE [Contract!Next]_(Contract!vars)
<1> DEFINE stageOf(th) == [Idle |-> "free", Thinking |-> "busy", Output |-> "telling"][th.is]
           opened(th, r) == IF th.is = "Thinking" THEN {r} ELSE {}
<1> USE DEF Contract!Next, Contract!vars
<1>1. /\ \A th : /\ th.is = "Idle" => stageOf(th) = "free"
                 /\ th.is = "Thinking" => stageOf(th) = "busy"
                 /\ th.is = "Output" => stageOf(th) = "telling"
  OBVIOUS
<1>2. SUFFICES
        \/ Contract!Next
        \/ /\ stageOf(thought') = stageOf(thought) /\ output' = output
           /\ opened(thought', input') = opened(thought, input)
  OBVIOUS
<1>3. CASE Ask
  <2>1. CASE Submit
    <3>1. /\ thought.is = "Idle" /\ thought'.is = "Thinking" /\ input' = body
          /\ output' = output /\ body \in Readings
      BY <1>3, <2>1, LatencyIsLong
         DEF Submit, Accepting, Ask, Idle, Thinking, BrainIInv, BrainTypeOK
    <3>2. /\ stageOf(thought) = "free" /\ stageOf(thought') = "busy"
          /\ opened(thought', input') = {body} /\ output' = output
      BY <1>1, <3>1
    <3> QED
      BY <3>1, <3>2 DEF Contract!Ask
  <2>2. CASE ~Submit
    BY <1>3, <2>2 DEF Ask
  <2> QED
    BY <2>1, <2>2
<1>4. CASE BrainTick
  <2>1. CASE ThinkOn
    <3>1. thought.is = "Thinking" /\ input' = input
      BY <1>4, <2>1 DEF ThinkOn, BrainTick
    <3>2. \/ output' = {input} /\ thought'.is = "Output"
          \/ output' = output /\ thought'.is = "Thinking"
      BY <2>1 DEF ThinkOn, Output, Thinking
    <3>3. CASE output' = {input} /\ thought'.is = "Output"
      <4>1. /\ stageOf(thought) = "busy" /\ stageOf(thought') = "telling"
            /\ opened(thought, input) = {input} /\ opened(thought', input') = {}
        BY <1>1, <3>1, <3>3
      <4> QED
        BY <4>1, <3>3 DEF Contract!Reply
    <3>4. CASE output' = output /\ thought'.is = "Thinking"
      BY <1>1, <3>1, <3>4
    <3> QED
      BY <3>2, <3>3, <3>4
  <2>2. CASE TellOn
    <3>1. thought.is = "Output" /\ output' = output
      BY <2>2 DEF TellOn
    <3>2. thought'.is = "Idle" \/ thought'.is = "Output"
      BY <2>2 DEF TellOn, Idle, Output
    <3>3. CASE thought'.is = "Idle"
      <4>1. /\ stageOf(thought) = "telling" /\ stageOf(thought') = "free"
            /\ opened(thought, input) = {} /\ opened(thought', input') = {}
        BY <1>1, <3>1, <3>3
      <4> QED
        BY <4>1, <3>1 DEF Contract!Rest
    <3>4. CASE thought'.is = "Output"
      BY <1>1, <3>1, <3>4
    <3> QED
      BY <3>2, <3>3, <3>4
  <2> QED
    BY <1>4, <2>1, <2>2 DEF BrainTick
<1>5. CASE Will \/ UNCHANGED brainOwn
  BY <1>5 DEF Will, brainOwn
<1> QED
  BY <1>3, <1>4, <1>5 DEF BrainNext
-----------------------------------------------------------------------------
(* Memoria.  While the ring has never been full its head is its count; a   *)
(* store moves the order of the patterns by at most one place.             *)
HeadLaw == count < Cap => head = count

MemIInv == MemTypeOK /\ HeadLaw /\ tick <= MemTicks /\ NoDuplicates

\* The k-th oldest slot, without the remainder.
Place(k) == IF count < Cap THEN k - 1
            ELSE IF head + k - 1 < Cap THEN head + k - 1 ELSE head + k - 1 - Cap

LEMMA PlaceOf ==
  ASSUME NEW c \in 0..Cap, NEW h \in 0..(Cap - 1), NEW k \in 1..c
  PROVE  (IF c = Cap THEN h + k - 1 ELSE k - 1) % Cap
           = IF c < Cap THEN k - 1 ELSE IF h + k - 1 < Cap THEN h + k - 1 ELSE h + k - 1 - Cap
<1> DEFINE x == IF c = Cap THEN h + k - 1 ELSE k - 1
<1>1. Cap \in Nat \ {0} /\ c \in Nat /\ k \in Nat /\ k >= 1 /\ k <= c /\ c <= Cap /\ h \in Nat
  BY MemoriaAssumption
<1>2. x \in 0..(2 * Cap - 1)
  BY <1>1
<1>3. x % Cap = IF x < Cap THEN x ELSE x - Cap
  BY <1>1, <1>2, Remainder
<1> QED
  BY <1>1, <1>2, <1>3

LEMMA OldestPlace ==
  ASSUME count \in 0..Cap, head \in Slot, NEW k \in 1..count
  PROVE  Oldest(k) = Place(k) /\ Oldest(k) \in Slot /\ (count < Cap => Oldest(k) < count)
<1>1. Cap \in Nat \ {0}
  BY MemoriaAssumption
<1>2. Oldest(k) = Place(k)
  BY PlaceOf DEF Oldest, Place, Slot
<1>3. Place(k) \in Slot /\ (count < Cap => Place(k) < count)
  BY <1>1 DEF Place, Slot
<1> QED
  BY <1>2, <1>3

(* What a store does to the order: the new pattern is the youngest, the    *)
(* others keep their slots, and the oldest is lost if the ring was full.   *)
LEMMA StoreOrder ==
  ASSUME MemTypeOK, HeadLaw, NEW t, NEW p, NEW byBody, Store(t, p, byBody)
  PROVE  /\ count' = (IF count < Cap THEN count + 1 ELSE count) /\ count' \in 1..Cap
         /\ head' \in Slot /\ HeadLaw'
         /\ \A k \in 1..count' :
              LET j == IF count < Cap THEN k ELSE k + 1
              IN IF k = count' THEN Oldest(k)' = head
                 ELSE j \in 1..count /\ Oldest(k)' = Oldest(j) /\ Oldest(j) # head
<1>1. Cap \in Nat \ {0} /\ count \in 0..Cap /\ head \in Slot
  BY MemoriaAssumption DEF MemTypeOK
<1>2. head \in Nat /\ head < Cap
  BY <1>1 DEF Slot
<1>3. /\ count' = (IF count < Cap THEN count + 1 ELSE count)
      /\ head' = (head + 1) % Cap
  BY DEF Store, NextCount, NextHead
<1>4. head' = IF head + 1 = Cap THEN 0 ELSE head + 1
  <2> DEFINE x == head + 1
  <2>1. x \in 0..(2 * Cap - 1)
    BY <1>1, <1>2
  <2>2. x % Cap = IF x < Cap THEN x ELSE x - Cap
    BY <1>1, <2>1, Remainder
  <2> QED
    BY <1>1, <1>2, <1>3, <2>2
<1>5. count' \in 1..Cap /\ head' \in 0..(Cap - 1)
  BY <1>1, <1>2, <1>3, <1>4
<1>6. HeadLaw'
  BY <1>1, <1>2, <1>3, <1>4 DEF HeadLaw
<1>7. ASSUME NEW k \in 1..count' PROVE Oldest(k)' = Place(k)'
  <2>1. count' \in 0..Cap
    BY <1>1, <1>5
  <2>2. (IF count' = Cap THEN head' + k - 1 ELSE k - 1) % Cap
          = IF count' < Cap THEN k - 1
            ELSE IF head' + k - 1 < Cap THEN head' + k - 1 ELSE head' + k - 1 - Cap
    BY <1>5, <1>7, <2>1, PlaceOf
  <2> QED
    BY <2>2 DEF Oldest, Place
<1>8. ASSUME NEW k \in 1..count', k = count' PROVE Oldest(k)' = head
  <2>1. Oldest(k)' = Place(k)'
    BY <1>8, <1>7
  <2>2. Place(k)' = head
    BY <1>1, <1>2, <1>3, <1>4, <1>5, <1>8 DEF Place, HeadLaw
  <2> QED
    BY <2>1, <2>2
<1>9. ASSUME NEW k \in 1..count', k # count'
      PROVE  LET j == IF count < Cap THEN k ELSE k + 1
             IN j \in 1..count /\ Oldest(k)' = Oldest(j) /\ Oldest(j) # head
  <2> DEFINE j == IF count < Cap THEN k ELSE k + 1
  <2>1. j \in 1..count /\ k \in 1..count'
    BY <1>1, <1>3, <1>5, <1>9
  <2>2. Oldest(j) = Place(j) /\ Oldest(k)' = Place(k)'
    BY <1>1, <1>7, <2>1, OldestPlace
  <2>3. Place(k)' = Place(j) /\ Place(j) # head
    BY <1>1, <1>2, <1>3, <1>4, <1>5, <1>9, <2>1 DEF Place, HeadLaw
  <2> QED
    BY <2>1, <2>2, <2>3
<1> QED
  BY <1>3, <1>5, <1>6, <1>8, <1>9 DEF Slot

LEMMA MemInitIInv == MemInit => MemIInv
<1> SUFFICES ASSUME MemInit PROVE MemIInv
  OBVIOUS
<1>1. MemTypeOK
  BY MemoriaAssumption DEF MemInit, TickInit, MemTypeOK, Slot
<1>2. HeadLaw /\ tick <= MemTicks /\ NoDuplicates
  BY MemoriaAssumption DEF MemInit, TickInit, HeadLaw, NoDuplicates
<1> QED
  BY <1>1, <1>2 DEF MemIInv

(* A store, of a command or of a pattern found to be new. *)
LEMMA StoreIInv ==
  ASSUME MemIInv, NEW t \in 0..MemTicks, NEW p \in States, NEW byBody \in BOOLEAN,
         byBody => Novel(p), Store(t, p, byBody)
  PROVE  /\ HeadLaw' /\ NoDuplicates'
         /\ cells' \in [Slot -> States] /\ ticks' \in [Slot -> 0..MemTicks]
         /\ count' \in 0..Cap /\ head' \in Slot /\ own' \subseteq Slot
<1>1. Cap \in Nat \ {0} /\ count \in 0..Cap /\ head \in Slot
      /\ cells \in [Slot -> States] /\ ticks \in [Slot -> 0..MemTicks] /\ own \subseteq Slot
  BY MemoriaAssumption DEF MemIInv, MemTypeOK
<1>2. /\ cells' = [cells EXCEPT ![head] = p] /\ ticks' = [ticks EXCEPT ![head] = t]
      /\ own' = IF byBody THEN own \cup {head} ELSE own \ {head}
  BY DEF Store
<1>3. /\ cells' \in [Slot -> States] /\ ticks' \in [Slot -> 0..MemTicks]
      /\ own' \subseteq Slot
      /\ cells'[head] = p /\ \A i \in Slot \ {head} : cells'[i] = cells[i]
  BY <1>1, <1>2
<1>4. /\ count' = (IF count < Cap THEN count + 1 ELSE count) /\ count' \in 1..Cap
      /\ head' \in Slot /\ HeadLaw'
      /\ \A k \in 1..count' :
           LET j == IF count < Cap THEN k ELSE k + 1
           IN IF k = count' THEN Oldest(k)' = head
              ELSE j \in 1..count /\ Oldest(k)' = Oldest(j) /\ Oldest(j) # head
  BY StoreOrder DEF MemIInv
<1>5. NoDuplicates'
  <2> SUFFICES ASSUME NEW j \in 1..count', NEW k \in 1..count', j < k, Oldest(k)' \in own'
               PROVE  ~Similar(cells'[Oldest(k)'], cells'[Oldest(j)'])
    BY DEF NoDuplicates, Similar
  <2> DEFINE was(x) == IF count < Cap THEN x ELSE x + 1
  <2>1. /\ was(j) \in 1..count /\ Oldest(j)' = Oldest(was(j)) /\ Oldest(was(j)) # head
    BY <1>1, <1>4
  <2>2. Oldest(was(j)) \in Slot /\ (count < Cap => Oldest(was(j)) < count)
    BY <1>1, <2>1, OldestPlace
  <2>3. cells'[Oldest(j)'] = cells[Oldest(was(j))]
    BY <1>3, <2>1, <2>2
  <2>4. CASE k = count'
    <3>1. Oldest(k)' = head /\ cells'[Oldest(k)'] = p
      BY <1>3, <1>4, <2>4
    <3>2. byBody
      BY <1>2, <3>1
    <3>3. Oldest(was(j)) \in 0..(count - 1)
      BY <1>1, <2>2 DEF Slot
    <3> QED
      BY <2>3, <3>1, <3>2, <3>3 DEF Novel
  <2>5. CASE k # count'
    <3>1. /\ was(k) \in 1..count /\ Oldest(k)' = Oldest(was(k)) /\ Oldest(was(k)) # head
      BY <1>4, <2>5
    <3>2. Oldest(was(k)) \in Slot
      BY <1>1, <3>1, OldestPlace
    <3>3. cells'[Oldest(k)'] = cells[Oldest(was(k))] /\ Oldest(was(k)) \in own
      BY <1>2, <1>3, <3>1, <3>2
    <3>4. was(j) < was(k)
      BY <1>1, <1>4
    <3> QED
      BY <2>1, <2>3, <3>1, <3>3, <3>4 DEF MemIInv, NoDuplicates
  <2> QED
    BY <2>4, <2>5
<1>6. count' \in 0..Cap
  BY <1>1, <1>4
<1> QED
  BY <1>3, <1>4, <1>5, <1>6

LEMMA MemNextIInv == MemIInv /\ [MemNext]_memVars => MemIInv'
<1> SUFFICES ASSUME MemIInv, [MemNext]_memVars PROVE MemIInv'
  OBVIOUS
<1> USE MemoriaAssumption
<1>1. ASSUME UNCHANGED ring PROVE HeadLaw' /\ NoDuplicates'
  <2>1. UNCHANGED <<cells, ticks, count, head, own>>
    BY <1>1 DEF ring
  <2> QED
    BY <2>1 DEF MemIInv, HeadLaw, NoDuplicates, Oldest, Similar
<1>2. ASSUME Clear PROVE HeadLaw' /\ NoDuplicates' /\ count' = 0 /\ head' \in Slot /\ own' = {}
  BY <1>2 DEF Clear, ClearedHead, HeadLaw, NoDuplicates, Slot
<1>3. CASE UNCHANGED memVars
  <2>1. UNCHANGED <<cells, ticks, count, head, own, state, memPc, tick>> /\ UNCHANGED ring
    BY <1>3 DEF memVars, memOwn, ring
  <2>2. MemTypeOK'
    BY <2>1 DEF MemIInv, MemTypeOK
  <2> QED
    BY <1>1, <2>1, <2>2 DEF MemIInv
<1>4. CASE MemCommand
  <2>1. /\ UNCHANGED state /\ memPc' = "step" /\ tick' \in 0..MemTicks /\ tick' \in Nat
        /\ state \in States
    BY <1>4 DEF MemCommand, TickAdvances, MemIInv, MemTypeOK
  <2>2. CASE UNCHANGED ring
    <3>1. MemTypeOK'
      BY <2>1, <2>2 DEF MemIInv, MemTypeOK, ring
    <3> QED
      BY <1>1, <2>1, <2>2, <3>1 DEF MemIInv
  <2>3. CASE Store(tick', state, FALSE)
    <3>1. /\ HeadLaw' /\ NoDuplicates'
          /\ cells' \in [Slot -> States] /\ ticks' \in [Slot -> 0..MemTicks]
          /\ count' \in 0..Cap /\ head' \in Slot /\ own' \subseteq Slot
      BY <2>1, <2>3, StoreIInv
    <3>2. tick' <= MemTicks
      BY <2>1
    <3> QED
      BY <2>1, <3>1, <3>2 DEF MemIInv, MemTypeOK
  <2>4. CASE Clear
    <3>1. MemTypeOK'
      BY <1>2, <2>1, <2>4 DEF MemIInv, MemTypeOK, Clear
    <3> QED
      BY <1>2, <2>1, <2>4, <3>1 DEF MemIInv
  <2> QED
    BY <1>4, <2>2, <2>3, <2>4 DEF MemCommand
<1>5. CASE MemStep
  <2>1. PICK s \in States, due \in BOOLEAN :
          /\ state' = s
          /\ IF StoreDue(due) /\ Novel(s) THEN Store(tick, s, TRUE) ELSE UNCHANGED ring
    BY <1>5, Zenon DEF MemStep
  <2>2. UNCHANGED tick /\ memPc' = "command" /\ tick \in 0..MemTicks
    BY <1>5 DEF MemStep, MemIInv, MemTypeOK
  <2>3. CASE UNCHANGED ring
    <3>1. MemTypeOK'
      BY <2>1, <2>2, <2>3 DEF MemIInv, MemTypeOK, ring
    <3> QED
      BY <1>1, <2>2, <2>3, <3>1 DEF MemIInv
  <2>4. CASE Novel(s) /\ Store(tick, s, TRUE)
    BY <2>1, <2>2, <2>4, StoreIInv DEF MemIInv, MemTypeOK
  <2> QED
    BY <2>1, <2>3, <2>4
<1> QED
  BY <1>3, <1>4, <1>5 DEF MemNext

(* The ring implements the memory of the last patterns: the sequence it    *)
(* stands for is that of its slots, oldest first.                          *)
LEMMA KeptShape ==
  MemTypeOK => LET kept == [k \in 1..count |-> <<ticks[Oldest(k)], cells[Oldest(k)]>>]
               IN kept \in Seq((0..MemTicks) \X States) /\ Len(kept) = count
<1> SUFFICES ASSUME MemTypeOK
             PROVE  LET kept == [k \in 1..count |-> <<ticks[Oldest(k)], cells[Oldest(k)]>>]
                    IN kept \in Seq((0..MemTicks) \X States) /\ Len(kept) = count
  OBVIOUS
<1> DEFINE kept == [k \in 1..count |-> <<ticks[Oldest(k)], cells[Oldest(k)]>>]
<1>1. \A k \in 1..count : Oldest(k) \in Slot
  BY OldestPlace DEF MemTypeOK
<1>2. count \in Nat /\ \A k \in 1..count : kept[k] \in (0..MemTicks) \X States
  BY <1>1, MemoriaAssumption DEF MemTypeOK
<1>3. kept \in [1..count -> (0..MemTicks) \X States]
  BY <1>2
<1> QED
  BY <1>2, <1>3

(* A sequence of at most c that is given an element more. *)
LEMMA Pushed ==
  ASSUME NEW S, NEW s \in Seq(S), NEW x \in S, NEW c \in Nat \ {0}, Len(s) <= c
  PROVE  LET old == IF Len(s) < c THEN s ELSE Tail(s)
             new == Append(old, x)
         IN /\ new \in Seq(S) /\ Len(new) = (IF Len(s) < c THEN Len(s) + 1 ELSE Len(s))
            /\ new[Len(new)] = x
            /\ \A k \in 1..(Len(new) - 1) : new[k] = s[IF Len(s) < c THEN k ELSE k + 1]
<1> DEFINE old == IF Len(s) < c THEN s ELSE Tail(s)
<1>1. CASE Len(s) < c
  BY <1>1
<1>2. CASE ~(Len(s) < c)
  <2>1. Len(s) = c /\ s # <<>>
    BY <1>2
  <2>2. Tail(s) \in Seq(S) /\ Len(Tail(s)) = c - 1
    BY <2>1
  <2>3. \A k \in 1..(c - 1) : Tail(s)[k] = s[k + 1]
    BY <2>1
  <2> QED
    BY <1>2, <2>1, <2>2, <2>3
<1> QED
  BY <1>1, <1>2

LEMMA StoreRemembers ==
  ASSUME MemIInv, MemTypeOK', NEW t \in 0..MemTicks, NEW p \in States, NEW byBody,
         Store(t, p, byBody)
  PROVE  Mem!Remember
<1> DEFINE kept == [k \in 1..count |-> <<ticks[Oldest(k)], cells[Oldest(k)]>>]
           x == <<t, p>>
           old == IF Len(kept) < Cap THEN kept ELSE Tail(kept)
<1>1. kept \in Seq((0..MemTicks) \X States) /\ Len(kept) = count
  BY KeptShape DEF MemIInv
<1>2. kept' \in Seq((0..MemTicks) \X States) /\ Len(kept') = count'
  <2>1. (MemTypeOK => LET kk == [k \in 1..count |-> <<ticks[Oldest(k)], cells[Oldest(k)]>>]
                      IN kk \in Seq((0..MemTicks) \X States) /\ Len(kk) = count)'
    BY KeptShape, PTL
  <2> QED
    BY <2>1
<1>3. Cap \in Nat \ {0} /\ count \in 0..Cap /\ head \in Slot
      /\ cells \in [Slot -> States] /\ ticks \in [Slot -> 0..MemTicks]
  BY MemoriaAssumption DEF MemIInv, MemTypeOK
<1>4. /\ cells'[head] = p /\ \A i \in Slot \ {head} : cells'[i] = cells[i]
      /\ ticks'[head] = t /\ \A i \in Slot \ {head} : ticks'[i] = ticks[i]
  BY <1>3 DEF Store
<1>5. /\ count' = (IF count < Cap THEN count + 1 ELSE count) /\ count' \in 1..Cap
      /\ \A k \in 1..count' :
           LET j == IF count < Cap THEN k ELSE k + 1
           IN IF k = count' THEN Oldest(k)' = head
              ELSE j \in 1..count /\ Oldest(k)' = Oldest(j) /\ Oldest(j) # head
  BY StoreOrder DEF MemIInv
<1>6. x \in (0..MemTicks) \X States
  OBVIOUS
<1> HIDE DEF kept, x
<1>7. /\ Append(old, x) \in Seq((0..MemTicks) \X States)
      /\ Len(Append(old, x)) = count'
      /\ Append(old, x)[count'] = x
      /\ \A k \in 1..(count' - 1) :
           Append(old, x)[k] = kept[IF count < Cap THEN k ELSE k + 1]
  BY <1>1, <1>3, <1>5, <1>6, Pushed
<1>8. ASSUME NEW k \in 1..count' PROVE kept'[k] = Append(old, x)[k]
  <2>1. kept'[k] = <<ticks'[Oldest(k)'], cells'[Oldest(k)']>>
    BY DEF kept
  <2>2. CASE k = count'
    BY <1>4, <1>5, <1>7, <2>1, <2>2 DEF x
  <2>3. CASE k # count'
    <3> DEFINE j == IF count < Cap THEN k ELSE k + 1
    <3>1. j \in 1..count /\ Oldest(k)' = Oldest(j) /\ Oldest(j) # head
      BY <1>5, <2>3
    <3>2. Oldest(j) \in Slot
      BY <1>3, <3>1, OldestPlace
    <3>3. kept'[k] = <<ticks[Oldest(j)], cells[Oldest(j)]>>
      BY <1>4, <2>1, <3>1, <3>2
    <3>4. kept'[k] = kept[j]
      BY <3>1, <3>3 DEF kept
    <3>5. k \in 1..(count' - 1)
      BY <1>5, <2>3
    <3> QED
      BY <1>7, <3>4, <3>5
  <2> QED
    BY <2>2, <2>3
<1> HIDE DEF old
<1>9. kept' = Append(old, x)
  BY <1>2, <1>7, <1>8, SeqEqual
<1> QED
  BY <1>6, <1>9 DEF Mem!Remember, kept, old

LEMMA MemImplements ==
  ASSUME MemIInv, MemIInv', [MemNext]_memVars PROVE Mem!RecentNext \/ UNCHANGED
    [k \in 1..count |-> <<ticks[Oldest(k)], cells[Oldest(k)]>>]
<1> DEFINE kept == [k \in 1..count |-> <<ticks[Oldest(k)], cells[Oldest(k)]>>]
<1> SUFFICES Mem!RecentNext \/ kept' = kept
  OBVIOUS
<1>1. ASSUME UNCHANGED ring PROVE kept' = kept
  <2>1. UNCHANGED <<cells, ticks, count, head>>
    BY <1>1 DEF ring
  <2> QED
    BY <2>1 DEF Oldest
<1>2. ASSUME Clear PROVE Mem!Forget
  <2>1. count' = 0
    BY <1>2 DEF Clear
  <2>2. kept' = <<>>
    BY <2>1
  <2> QED
    BY <2>2 DEF Mem!Forget
<1>3. CASE UNCHANGED memVars
  BY <1>1, <1>3 DEF memVars, memOwn
<1>4. CASE MemCommand
  <2>1. state \in States /\ tick' \in 0..MemTicks
    BY <1>4 DEF MemCommand, TickAdvances, MemIInv, MemTypeOK
  <2>2. Store(tick', state, FALSE) => Mem!Remember
    BY <2>1, StoreRemembers DEF MemIInv
  <2> QED
    BY <1>1, <1>2, <1>4, <2>2 DEF MemCommand, Mem!RecentNext
<1>5. CASE MemStep
  <2>1. tick \in 0..MemTicks
    BY MemoriaAssumption DEF MemIInv, MemTypeOK
  <2>2. \A s \in States : Store(tick, s, TRUE) => Mem!Remember
    BY <2>1, StoreRemembers DEF MemIInv
  <2> QED
    BY <1>1, <1>5, <2>2 DEF MemStep, Mem!RecentNext
<1> QED
  BY <1>3, <1>4, <1>5 DEF MemNext
-----------------------------------------------------------------------------
(* Autonomy.  The regulators remember the last reading outside their band; *)
(* the reflex hears once per tick, so its memory of the energy is that of  *)
(* the last tick heard and its rest counts the ticks since the startle.    *)
FanAgrees == /\ memHigh <=> lastMem = 2
             /\ tempHigh <=> lastTemp = 2
             /\ FanLaw

LastHeard == IF autoPc = "reflex" THEN tick - 1 ELSE tick

ReflexLaw ==
  /\ autoPc = "reflex" => tick > 0
  /\ prev = 0 => calm = LastHeard
  /\ startle # None => /\ startle \in 1..LastHeard
                       /\ rest + (LastHeard - startle) >= Refractory
                       /\ prev = 0 => startle < LastHeard

AutoIInv == AutoTypeOK /\ FanAgrees /\ tick <= AutoTicks /\ ReflexLaw

LEMMA AutoInitIInv == AutoInit => AutoIInv
<1> SUFFICES ASSUME AutoInit PROVE AutoIInv
  OBVIOUS
<1> USE AutonomyAssumption DEF AutoInit, TickInit, None, Level
<1>1. 0 \in 0..Refractory /\ 0 \in 0..MaxStim /\ -1 \in -1..AutoTicks
  OBVIOUS
<1>2. AutoTypeOK
  <2>1. stim \in [energy : 0..2, left : 0..MaxStim]
    BY <1>1
  <2>2. /\ memHigh \in BOOLEAN /\ tempHigh \in BOOLEAN /\ fan \in BOOLEAN /\ blind \in BOOLEAN
        /\ startle \in -1..AutoTicks /\ calm \in -1..AutoTicks /\ rest \in 0..Refractory
        /\ tick \in Nat /\ mark \in Nat /\ lastMem \in {0, 2} /\ lastTemp \in {0, 2}
    BY <1>1
  <2>3. spinta \in 0..2 \cup {-1} /\ prev \in 0..2 \cup {-1} /\ autoPc = "command"
    OBVIOUS
  <2> QED
    BY <2>1, <2>2, <2>3 DEF AutoTypeOK
<1>3. FanAgrees /\ ReflexLaw
  BY DEF FanAgrees, FanLaw, ReflexLaw
<1> QED
  BY <1>2, <1>3 DEF AutoIInv

(* What the step promises of a startle. *)
Jump == startle' # startle =>
          /\ calm = tick - 1 /\ (startle = None \/ calm > startle)
          /\ startle # None => startle' - startle > Refractory

LEMMA CommandIInv == AutoIInv /\ Command => AutoIInv' /\ startle' = startle
<1> SUFFICES ASSUME AutoIInv, Command PROVE AutoIInv' /\ startle' = startle
  OBVIOUS
<1>1. /\ autoPc = "command" /\ autoPc' = "reflex" /\ tick' = tick + 1 /\ tick < AutoTicks
      /\ UNCHANGED <<prev, rest, startle, calm>>
      /\ UNCHANGED <<mark, memHigh, tempHigh, fan, lastMem, lastTemp, blind>>
  BY DEF Command, TickAdvances, reflex, homeo
<1>2. stim' \in [energy : Level, left : 0..MaxStim] /\ spinta' \in Level \cup {None}
  BY DEF Command, Suono, Spinta, AutoIInv, AutoTypeOK
<1>3. AutoTypeOK' /\ tick' <= AutoTicks
  BY <1>1, <1>2, AutonomyAssumption DEF AutoIInv, AutoTypeOK
<1>4. FanAgrees'
  BY <1>1 DEF AutoIInv, FanAgrees, FanLaw
<1>5. ReflexLaw'
  BY <1>1, AutonomyAssumption DEF AutoIInv, ReflexLaw, LastHeard, AutoTypeOK
<1> QED
  BY <1>1, <1>3, <1>4, <1>5 DEF AutoIInv

LEMMA HearIInv == AutoIInv /\ Hear => AutoIInv' /\ Jump
<1> SUFFICES ASSUME AutoIInv, Hear PROVE AutoIInv' /\ Jump
  OBVIOUS
<1> USE AutonomyAssumption
<1>1. /\ autoPc = "reflex" /\ autoPc' = "omeostasi" /\ UNCHANGED <<tick, spinta>>
      /\ UNCHANGED <<mark, memHigh, tempHigh, fan, lastMem, lastTemp, blind>>
      /\ stim' \in [energy : Level, left : 0..MaxStim]
  BY DEF Hear, homeo, Lasting, AutoIInv, AutoTypeOK
<1>2. PICK e \in Level : Percepisce(e)
  BY DEF Hear, AutoIInv, AutoTypeOK
<1>3. /\ prev' = e /\ e \in 0..2
      /\ rest' = IF Startles(e) THEN Refractory ELSE IF rest > 0 THEN rest - 1 ELSE 0
      /\ startle' = IF Startles(e) THEN tick ELSE startle
      /\ calm' = IF e = 0 THEN tick ELSE calm
      /\ Startles(e) => rest = 0 /\ prev = 0 /\ e = 2
  BY <1>2 DEF Percepisce, Rest, Startles, Level
<1>4. /\ tick \in Nat /\ tick > 0 /\ tick <= AutoTicks /\ rest \in 0..Refractory
      /\ startle \in -1..AutoTicks /\ calm \in -1..AutoTicks
      /\ prev = 0 => calm = tick - 1
      /\ startle # -1 => /\ startle \in 1..(tick - 1)
                         /\ rest + (tick - 1 - startle) >= Refractory
                         /\ prev = 0 => startle < tick - 1
  BY <1>1 DEF AutoIInv, AutoTypeOK, ReflexLaw, LastHeard, None
<1>5. Jump
  BY <1>3, <1>4 DEF Jump, None
<1>6. AutoTypeOK'
  <2>1. /\ prev' \in Level \cup {None} /\ rest' \in 0..Refractory
        /\ startle' \in -1..AutoTicks /\ calm' \in -1..AutoTicks
    BY <1>3, <1>4 DEF Level
  <2> QED
    BY <1>1, <2>1 DEF AutoIInv, AutoTypeOK
<1>7. FanAgrees'
  BY <1>1 DEF AutoIInv, FanAgrees, FanLaw
<1>8. ReflexLaw'
  <2>1. LastHeard' = tick
    BY <1>1 DEF LastHeard
  <2>2. CASE Startles(e)
    BY <1>1, <1>3, <1>4, <2>1, <2>2 DEF ReflexLaw
  <2>3. CASE ~Startles(e)
    BY <1>1, <1>3, <1>4, <2>1, <2>3 DEF ReflexLaw, None
  <2> QED
    BY <2>2, <2>3
<1> QED
  BY <1>1, <1>4, <1>5, <1>6, <1>7, <1>8 DEF AutoIInv

(* A regulator is high when the last reading outside the band was. *)
LEMMA RegulatorLaw ==
  ASSUME NEW high \in BOOLEAN, NEW last \in {0, 2}, high <=> last = 2, NEW r \in Level
  PROVE  /\ Aggiorna(high, r) \in BOOLEAN /\ Extreme(r, last) \in {0, 2}
         /\ Aggiorna(high, r) <=> Extreme(r, last) = 2
<1>1. r = 0 \/ r = 1 \/ r = 2
  BY DEF Level
<1>2. CASE high
  BY <1>1, <1>2 DEF Aggiorna, Extreme
<1>3. CASE ~high
  BY <1>1, <1>3 DEF Aggiorna, Extreme
<1> QED
  BY <1>2, <1>3

LEMMA BodyIInv == AutoIInv /\ Body => AutoIInv' /\ startle' = startle
<1> SUFFICES ASSUME AutoIInv, Body PROVE AutoIInv' /\ startle' = startle
  OBVIOUS
<1>1. /\ autoPc = "omeostasi" /\ autoPc' = "command" /\ UNCHANGED <<tick, spinta, stim>>
      /\ UNCHANGED <<prev, rest, startle, calm>>
  BY DEF Body, reflex
<1>2. ReflexLaw' /\ tick' <= AutoTicks
  BY <1>1 DEF AutoIInv, ReflexLaw, LastHeard
<1>3. CASE UNCHANGED homeo
  <2>1. UNCHANGED <<mark, memHigh, tempHigh, fan, lastMem, lastTemp, blind>>
    BY <1>3 DEF homeo
  <2>2. AutoTypeOK' /\ FanAgrees'
    BY <1>1, <2>1 DEF AutoIInv, AutoTypeOK, FanAgrees, FanLaw
  <2> QED
    BY <1>1, <1>2, <2>2 DEF AutoIInv
<1>4. ASSUME mark' = NextMark, NEW mem \in Level, NEW temp \in Level \cup {None},
             Omeostasi(mem, temp)
      PROVE  AutoIInv' /\ startle' = startle
  <2>1. mark' \in Nat
    <3>1. tick \in Nat /\ FanEvery \in Nat \ {0}
      BY AutonomyAssumption DEF AutoIInv, AutoTypeOK
    <3>2. tick \div FanEvery \in Nat
      BY <3>1
    <3> QED
      BY <1>4, <3>1, <3>2 DEF NextMark
  <2>2. /\ memHigh' \in BOOLEAN /\ (memHigh' <=> lastMem' = 2) /\ lastMem' \in {0, 2}
    <3>1. /\ memHigh' = Aggiorna(memHigh, mem) /\ lastMem' = Extreme(mem, lastMem)
          /\ memHigh \in BOOLEAN /\ (memHigh <=> lastMem = 2) /\ lastMem \in {0, 2}
      BY <1>4 DEF Omeostasi, AutoIInv, AutoTypeOK, FanAgrees
    <3> QED
      BY <3>1, RegulatorLaw
  <2>3. /\ tempHigh' \in BOOLEAN /\ (tempHigh' <=> lastTemp' = 2) /\ lastTemp' \in {0, 2}
    <3>1. /\ tempHigh \in BOOLEAN /\ (tempHigh <=> lastTemp = 2) /\ lastTemp \in {0, 2}
      BY DEF AutoIInv, AutoTypeOK, FanAgrees
    <3>2. CASE temp = None
      BY <1>4, <3>1, <3>2 DEF Omeostasi
    <3>3. CASE temp # None
      <4>1. tempHigh' = Aggiorna(tempHigh, temp) /\ lastTemp' = Extreme(temp, lastTemp)
        BY <1>4, <3>3 DEF Omeostasi
      <4> QED
        BY <3>1, <3>3, <4>1, RegulatorLaw
    <3> QED
      BY <3>2, <3>3
  <2>4. /\ blind' \in BOOLEAN /\ fan' \in BOOLEAN
        /\ fan' <=> (memHigh' \/ (tempHigh' /\ ~blind'))
    BY <1>4 DEF Omeostasi
  <2>5. FanAgrees'
    BY <2>2, <2>3, <2>4 DEF FanAgrees, FanLaw
  <2>6. AutoTypeOK'
    BY <1>1, <2>1, <2>2, <2>3, <2>4 DEF AutoIInv, AutoTypeOK
  <2> QED
    BY <1>1, <1>2, <2>5, <2>6 DEF AutoIInv
<1> QED
  BY <1>3, <1>4 DEF Body, AutoIInv, AutoTypeOK

LEMMA AutoStep == ASSUME AutoIInv, [AutoNext]_autoVars PROVE AutoIInv' /\ [Jump]_autoVars
<1>1. CASE UNCHANGED autoVars
  <2>1. /\ UNCHANGED <<autoPc, spinta, stim, tick, prev, rest, startle, calm>>
        /\ UNCHANGED <<mark, memHigh, tempHigh, fan, lastMem, lastTemp, blind>>
    BY <1>1 DEF autoVars, autoOwn, reflex, homeo
  <2>2. AutoTypeOK' /\ FanAgrees' /\ ReflexLaw'
    BY <2>1 DEF AutoIInv, AutoTypeOK, FanAgrees, FanLaw, ReflexLaw, LastHeard
  <2> QED
    BY <1>1, <2>1, <2>2 DEF AutoIInv
<1>2. CASE AutoNext
  BY <1>2, CommandIInv, HearIInv, BodyIInv DEF AutoNext, Jump
<1> QED
  BY <1>1, <1>2
-----------------------------------------------------------------------------
(* Executive.  Outside pain every source of a desire stays within the      *)
(* candidates, so a choice flees exactly when its circumstance is pain,    *)
(* and an outcome is credited to the choice of its own tick.               *)
FleesInPain(c, d) == c[1] = Pain <=> d = Flee

\* An outcome is due to be learned in the ticks that are multiples of OutcomeEvery.
OutcomesLearned(passed) == IF willPc = "outcome" THEN passed - 1 ELSE passed

CountLaw == /\ IsFiniteSet(Credits)
            /\ Cardinality(Credits) = OutcomesLearned(tick \div OutcomeEvery)

WillIInv == /\ WillTypeOK /\ PainSovereign /\ CountLaw
            /\ pending = {} \/ \E p \in Choice : pending = {p}
            /\ willPc = "outcome" => pending # {}

LEMMA WillInitIInv == WillInit => WillIInv
<1> SUFFICES ASSUME WillInit PROVE WillIInv
  OBVIOUS
<1> USE ExecutiveAssumption DEF WillInit, TickInit
<1>1. /\ good \in [Circ -> [Desires -> Nat]] /\ n \in [Circ -> [Desires -> Nat]]
      /\ \A c \in Circ, d \in Desires : n[c][d] = 0
  OBVIOUS
<1>2. desire \in Desires /\ curiosity \in 0..(ExploreEvery - 1)
  BY DEF Desires
<1>3. Cardinality(pending) <= 1
  BY FS_EmptySet
<1>4. WillTypeOK
  BY <1>1, <1>2, <1>3 DEF WillTypeOK
<1>5. PainSovereign
  BY <1>1 DEF PainSovereign
<1>6. CountLaw
  <2>1. Credits = {}
    <3>1. \A x \in Circ \X Desires : 1..n[x[1]][x[2]] = {}
      BY <1>1
    <3> QED
      BY <3>1 DEF Credits
  <2>2. 0 \div OutcomeEvery = 0
    OBVIOUS
  <2> QED
    BY <2>1, <2>2, FS_EmptySet DEF CountLaw, OutcomesLearned
<1> QED
  BY <1>4, <1>5, <1>6 DEF WillIInv

LEMMA FirstIsLeast ==
  ASSUME NEW S, S \subseteq Nat, S # {} PROVE First(S) \in S
<1> DEFINE R == {ss \in Nat \X Nat : ss[1] < ss[2]}
<1>1. IsWellFoundedOn(R, Nat)
  BY NatLessThanWellFounded DEF OpToRel
<1> HIDE DEF R
<1>2. PICK x \in S : \A y \in S : ~(<<y, x>> \in R)
  BY <1>1, WFMin
<1>3. \A y \in S : ~(y < x)
  BY <1>2 DEF R
<1>4. \A y \in S : x <= y
  BY <1>3
<1> QED
  BY <1>4 DEF First

LEMMA ChoiceIsSovereign ==
  ASSUME NEW c \in Circ, NEW d \in Desires, NEW base \in Rule(c), Chooses(c, base, d),
         curiosity \in 0..(ExploreEvery - 1)
  PROVE  FleesInPain(c, d) /\ curiosity' \in 0..(ExploreEvery - 1)
<1> USE ExecutiveAssumption
<1>1. Flee \notin Candidates /\ Candidates \subseteq Nat /\ Ruled \subseteq Candidates
  OBVIOUS
<1>2. curiosity' \in 0..(ExploreEvery - 1)
  BY DEF Chooses, Curious
<1>3. CASE c[1] = Pain
  <2>1. base = Flee
    BY <1>3 DEF Rule
  <2> QED
    BY <1>2, <1>3, <2>1 DEF Chooses, Sovereign, FleesInPain
<1>4. CASE c[1] # Pain
  <2>1. base \in Candidates /\ ~Sovereign(base)
    BY <1>1, <1>4 DEF Rule, Sovereign
  <2>2. Learned(c, base) \subseteq Candidates
    BY DEF Learned, Best, Top, Trusted
  <2>3. Unknown(c) # {} => First(Unknown(c)) \in Candidates
    <3>1. Unknown(c) \subseteq Nat /\ Unknown(c) \subseteq Candidates
      BY <1>1 DEF Unknown
    <3> QED
      BY <3>1, FirstIsLeast
  <2>4. d \in Candidates
    BY <2>1, <2>2, <2>3 DEF Chooses
  <2> QED
    BY <1>1, <1>2, <1>4, <2>4 DEF FleesInPain
<1> QED
  BY <1>3, <1>4

LEMMA ChooseIInv == WillIInv /\ Choose => WillIInv'
<1> SUFFICES ASSUME WillIInv, Choose PROVE WillIInv'
  OBVIOUS
<1> USE ExecutiveAssumption
<1>1. PICK c \in Circ, d \in Desires :
        /\ \E base \in Rule(c) : Chooses(c, base, d)
        /\ desire' = d /\ pending' = Remembered(c, d) /\ before' = pending
  BY DEF Choose
<1>2. /\ tick' = tick + 1 /\ willPc' \in {"step", "outcome"}
      /\ UNCHANGED <<good, n, prevErr>>
  BY DEF Choose, TickAdvances
<1>3. FleesInPain(c, d) /\ curiosity' \in 0..(ExploreEvery - 1)
  BY <1>1, ChoiceIsSovereign DEF WillIInv, WillTypeOK
<1> DEFINE p == [circ |-> c, desire |-> d]
<1>4. pending' = {p} /\ p \in Choice /\ p.circ = c /\ p.desire = d
  BY <1>1 DEF Remembered, Choice
<1>5. Cardinality(pending') <= 1
  BY <1>4, FS_Singleton
<1>6. WillTypeOK'
  BY <1>1, <1>2, <1>3, <1>4, <1>5 DEF WillIInv, WillTypeOK
<1>7. PainSovereign'
  BY <1>2, <1>3, <1>4 DEF WillIInv, PainSovereign, FleesInPain
<1>8. CountLaw'
  <2>1. Credits' = Credits
    BY <1>2 DEF Credits
  <2>2. /\ Cardinality(Credits) = tick \div OutcomeEvery /\ IsFiniteSet(Credits)
        /\ willPc' = IF tick' % OutcomeEvery = 0 THEN "outcome" ELSE "step"
    BY DEF Choose, WillIInv, CountLaw, OutcomesLearned
  <2>3. tick' \div OutcomeEvery
          = IF tick' % OutcomeEvery = 0 THEN (tick \div OutcomeEvery) + 1 ELSE tick \div OutcomeEvery
    BY <1>2, NextRemainder DEF WillIInv, WillTypeOK
  <2>4. tick \div OutcomeEvery \in Int
    BY DEF WillIInv, WillTypeOK
  <2>5. Cardinality(Credits') = OutcomesLearned(tick \div OutcomeEvery)'
    <3>1. CASE tick' % OutcomeEvery = 0
      BY <2>1, <2>2, <2>3, <2>4, <3>1 DEF OutcomesLearned
    <3>2. CASE tick' % OutcomeEvery # 0
      BY <2>1, <2>2, <2>3, <2>4, <3>2 DEF OutcomesLearned
    <3> QED
      BY <3>1, <3>2
  <2> QED
    BY <2>1, <2>2, <2>5 DEF CountLaw
<1> QED
  BY <1>4, <1>6, <1>7, <1>8 DEF WillIInv

LEMMA OutcomeIInv == WillIInv /\ Outcome => WillIInv'
<1> SUFFICES ASSUME WillIInv, Outcome PROVE WillIInv'
  OBVIOUS
<1>1. /\ willPc = "outcome" /\ willPc' = "step" /\ pending' = {}
      /\ UNCHANGED <<desire, curiosity, tick, before>>
  BY DEF Outcome
<1>2. PICK p \in Choice : pending = {p}
  BY <1>1 DEF WillIInv
<1>3. PICK err \in Surprises : Learn(p.circ, p.desire, err < prevErr) /\ prevErr' = err
  BY <1>2 DEF Outcome
<1>4. p.circ \in Circ /\ p.desire \in Desires /\ FleesInPain(p.circ, p.desire)
  BY <1>2 DEF Choice, WillIInv, PainSovereign, FleesInPain
<1>5. /\ good \in [Circ -> [Desires -> Nat]] /\ n \in [Circ -> [Desires -> Nat]]
  BY DEF WillIInv, WillTypeOK
<1>6. /\ n' = [n EXCEPT ![p.circ][p.desire] = @ + 1]
      /\ \E k \in {0, 1} : good' = [good EXCEPT ![p.circ][p.desire] = @ + k]
  BY <1>3 DEF Learn, Samples
<1>7. good' \in [Circ -> [Desires -> Nat]] /\ n' \in [Circ -> [Desires -> Nat]]
  BY <1>4, <1>5, <1>6
<1>8. \A c \in Circ, d \in Desires :
        (c # p.circ \/ d # p.desire) => n'[c][d] = n[c][d]
  BY <1>4, <1>5, <1>6
<1>9. PainSovereign'
  BY <1>1, <1>4, <1>8 DEF WillIInv, PainSovereign, FleesInPain
<1>10. Cardinality(pending') <= 1
  BY <1>1, FS_EmptySet
<1>11. WillTypeOK'
  BY <1>1, <1>3, <1>7, <1>10 DEF WillIInv, WillTypeOK
<1>12. CountLaw'
  <2> DEFINE c == p.circ
             d == p.desire
             x == <<c, d>>
             more == <<x, n[c][d] + 1>>
  <2>1. x \in Circ \X Desires /\ n[c][d] \in Nat /\ n'[c][d] = n[c][d] + 1
    BY <1>4, <1>5, <1>6
  <2>2. more \notin Credits
    BY <2>1 DEF Credits
  <2>3. Credits' = Credits \cup {more}
    <3>1. ASSUME NEW y \in Credits' PROVE y \in Credits \cup {more}
      <4>1. PICK w \in Circ \X Desires : \E k \in 1..n'[w[1]][w[2]] : y = <<w, k>>
        BY DEF Credits
      <4>2. CASE w = x
        BY <2>1, <4>1, <4>2 DEF Credits
      <4>3. CASE w # x
        <5>1. w[1] # c \/ w[2] # d
          BY <4>3
        <5>2. n'[w[1]][w[2]] = n[w[1]][w[2]]
          BY <1>8, <5>1
        <5> QED
          BY <4>1, <5>2 DEF Credits
      <4> QED
        BY <4>2, <4>3
    <3>2. ASSUME NEW y \in Credits PROVE y \in Credits'
      <4>1. PICK w \in Circ \X Desires : \E k \in 1..n[w[1]][w[2]] : y = <<w, k>>
        BY DEF Credits
      <4>2. n[w[1]][w[2]] \in Nat /\ n'[w[1]][w[2]] \in Nat
        BY <1>5, <1>7
      <4>3. n'[w[1]][w[2]] >= n[w[1]][w[2]]
        <5>1. CASE w = x
          BY <2>1, <5>1
        <5>2. CASE w # x
          <6>1. w[1] # c \/ w[2] # d
            BY <5>2
          <6> QED
            BY <1>8, <4>2, <6>1
        <5> QED
          BY <5>1, <5>2
      <4>4. \A k \in 1..n[w[1]][w[2]] : k \in 1..n'[w[1]][w[2]]
        BY <4>2, <4>3
      <4> QED
        BY <4>1, <4>4 DEF Credits
    <3>3. more \in Credits'
      <4>1. n[c][d] + 1 \in 1..n'[c][d]
        BY <2>1
      <4> QED
        BY <2>1, <4>1 DEF Credits
    <3> QED
      BY <3>1, <3>2, <3>3
  <2> HIDE DEF more
  <2>4. /\ IsFiniteSet(Credits) /\ Cardinality(Credits) = (tick \div OutcomeEvery) - 1
        /\ tick \div OutcomeEvery \in Int
    <3>1. tick \in Nat /\ OutcomeEvery \in Nat \ {0}
      BY ExecutiveAssumption DEF WillIInv, WillTypeOK
    <3>2. tick \div OutcomeEvery \in Int
      BY <3>1
    <3> QED
      BY <1>1, <3>2 DEF WillIInv, CountLaw, OutcomesLearned
  <2>5. IsFiniteSet(Credits') /\ Cardinality(Credits') = Cardinality(Credits) + 1
    BY <2>2, <2>3, <2>4, FS_AddElement
  <2>6. Cardinality(Credits') = tick' \div OutcomeEvery
    BY <1>1, <2>4, <2>5
  <2> QED
    BY <1>1, <2>5, <2>6 DEF CountLaw, OutcomesLearned
<1> QED
  BY <1>1, <1>9, <1>11, <1>12 DEF WillIInv

LEMMA WillNextIInv == WillIInv /\ [WillNext]_willVars => WillIInv'
<1>1. ASSUME WillIInv, UNCHANGED willVars PROVE WillIInv'
  <2>1. UNCHANGED <<good, n, desire, curiosity, pending, prevErr, willPc, before, tick>>
    BY <1>1 DEF willVars, willOwn
  <2>2. WillTypeOK' /\ PainSovereign' /\ CountLaw'
    BY <1>1, <2>1 DEF WillIInv, WillTypeOK, PainSovereign, CountLaw, OutcomesLearned, Credits
  <2> QED
    BY <1>1, <2>1, <2>2 DEF WillIInv
<1> QED
  BY <1>1, ChooseIInv, OutcomeIInv DEF WillNext
-----------------------------------------------------------------------------
(* NeuroPool.  The count of surprised ticks reaches no further back than   *)
(* the last calm tick and the last birth; what is left of a trial is told  *)
(* by the age of the clone; and the counters agree with the pool.          *)
SinceCalm == persist <= tick - lastCalm /\ persist <= tick - lastBirth

\* What is left to a clone of a ticks.
LeftAt(a) == IF a + 1 < Trial THEN Trial - (a + 1) ELSE 0

Ages == \A s \in CloneSlot : \A m \in clone[s] :
          m.born <= tick /\ m.left = LeftAt(tick - m.born)

NeuroIInv == /\ NeuroTypeOK /\ DOMAIN clone = CloneSlot /\ tick <= NeuroTicks
             /\ SinceCalm /\ Ages /\ births = prunes + Cardinality(Living)

LEMMA SlotsAreFinite ==
  /\ IsFiniteSet(CloneSlot)
  /\ \A S : S \subseteq CloneSlot => IsFiniteSet(S) /\ Cardinality(S) \in Nat
<1>1. IsFiniteSet(CloneSlot)
  BY FS_Interval, NeuroAssumption DEF CloneSlot
<1> QED
  BY <1>1, FS_Subset, FS_CardinalityType

LEMMA NeuroInitIInv == NeuroInit => NeuroIInv
<1> SUFFICES ASSUME NeuroInit PROVE NeuroIInv
  OBVIOUS
<1>1. /\ DOMAIN clone = CloneSlot /\ \A s \in CloneSlot : clone[s] = {}
      /\ persist = 0 /\ births = 0 /\ prunes = 0 /\ tick = 0
      /\ lastCalm = 0 /\ lastBirth = 0 /\ survivors = {}
  BY DEF NeuroInit, TickInit
<1>2. Living = {}
  BY <1>1 DEF Living
<1>3. Cardinality(Living) = 0
  BY <1>2, FS_EmptySet
<1>4. NeuroTypeOK
  BY <1>1, NeuroAssumption DEF NeuroTypeOK
<1> QED
  BY <1>1, <1>3, <1>4, NeuroAssumption DEF NeuroIInv, SinceCalm, Ages

(* The pool before the trial: at most one free slot has a newborn.         *)
LEMMA ClonedShape ==
  ASSUME DOMAIN clone = CloneSlot, NEW fires \in BOOLEAN
  PROVE  /\ DOMAIN Cloned(fires) = CloneSlot
         /\ \/ Cloned(fires) = clone
            \/ \E z \in Free : /\ Cloned(fires)[z] = {Newborn}
                               /\ \A s \in CloneSlot \ {z} : Cloned(fires)[s] = clone[s]
<1>1. CASE fires /\ Free # {}
  <2> DEFINE z == CHOOSE s \in Free : \A t \in Free : s <= t
  <2>1. Free \subseteq Nat /\ Free \subseteq CloneSlot
    BY NeuroAssumption DEF Free, CloneSlot
  <2>2. First(Free) \in Free
    BY <1>1, <2>1, FirstIsLeast
  <2>3. z = First(Free)
    BY DEF First
  <2>4. z \in Free /\ z \in CloneSlot
    BY <2>1, <2>2, <2>3
  <2>5. Cloned(fires) = [clone EXCEPT ![z] = {Newborn}]
    BY <1>1 DEF Cloned
  <2> HIDE DEF z
  <2> QED
    BY <2>4, <2>5
<1>2. CASE ~(fires /\ Free # {})
  BY <1>2 DEF Cloned
<1> QED
  BY <1>1, <1>2

(* What the step promises of births and deaths. *)
Needed == lastBirth' # lastBirth =>
            tick' - lastCalm >= Persistence /\ tick' - lastBirth >= Persistence
Tried  == \A s \in CloneSlot : \A m \in clone[s] :
            ~(\E k \in clone'[s] : k.born = m.born) => tick' - m.born >= Trial - 1

LEMMA NeuroTickIInv ==
  ASSUME NeuroIInv, NEW e \in Errors, NEW weak \in BOOLEAN, NeuroTick(e, weak)
  PROVE  NeuroIInv' /\ Needed /\ Tried
<1> USE NeuroAssumption
<1> DEFINE surprise == e > Threshold \/ weak
           fires == Fires(surprise)
           pool == Cloned(fires)
           tried == [s \in CloneSlot |-> {TrialStep(m, e) : m \in pool[s]}]
           dead == {s \in CloneSlot : \E m \in tried[s] : Fails(m)}
           bornIn == {s \in CloneSlot : pool[s] # clone[s]}
<1>1. /\ tick < NeuroTicks /\ tick' = tick + 1
      /\ persist' = IF fires THEN Kept(Count(surprise)) ELSE Count(surprise)
      /\ births' = births + Cardinality(bornIn)
      /\ clone' = [s \in CloneSlot |-> IF s \in dead THEN {} ELSE tried[s]]
      /\ prunes' = prunes + Cardinality(dead)
      /\ lastCalm' = IF surprise THEN lastCalm ELSE tick'
      /\ lastBirth' = IF fires THEN tick' ELSE lastBirth
      /\ survivors' = {s \in CloneSlot : \E m \in clone'[s] : Over(m)}
  BY DEF NeuroTick, TickAdvances, Pruned
<1>2. /\ tick \in Nat /\ persist \in 0..(Persistence - 1) /\ births \in Nat /\ prunes \in Nat
      /\ lastCalm \in 0..tick /\ lastBirth \in 0..tick /\ e \in Nat
      /\ SinceCalm /\ DOMAIN clone = CloneSlot
      /\ \A s \in CloneSlot : \A m \in clone[s] : m \in Clones /\ clone[s] = {m}
  BY DEF NeuroIInv, NeuroTypeOK
<1>3. surprise \in BOOLEAN /\ fires \in BOOLEAN
  BY DEF Fires
<1>4. /\ persist' \in 0..(Persistence - 1) /\ lastCalm' \in 0..tick' /\ lastBirth' \in 0..tick'
      /\ SinceCalm' /\ Needed
  <2> HIDE DEF surprise
  <2>1. fires <=> surprise /\ persist + 1 >= Persistence
    BY DEF Fires, Count
  <2>2. persist' = IF surprise THEN IF fires THEN 0 ELSE persist + 1 ELSE 0
    BY <1>1, <2>1 DEF Kept, Count
  <2> HIDE DEF fires
  <2>3. CASE fires
    <3>1. persist' = 0 /\ lastBirth' = tick' /\ lastCalm' = lastCalm
      BY <1>1, <2>1, <2>2, <2>3
    <3>2. 0 \in 0..(Persistence - 1) /\ lastCalm' \in 0..tick' /\ lastBirth' \in 0..tick'
      BY <1>1, <1>2, <3>1
    <3>3. Needed
      BY <1>1, <1>2, <2>1, <2>3 DEF SinceCalm, Needed
    <3>4. SinceCalm'
      <4>1. 0 <= tick' - lastCalm' /\ 0 <= tick' - lastBirth'
        BY <1>1, <1>2, <3>2
      <4>2. persist' = 0
        BY <3>1
      <4> QED
        BY <4>1, <4>2 DEF SinceCalm
    <3> QED
      BY <3>1, <3>2, <3>3, <3>4
  <2>4. CASE ~fires
    <3>1. lastBirth' = lastBirth /\ (surprise => lastCalm' = lastCalm)
      BY <1>1, <2>4
    <3>2. persist' \in 0..(Persistence - 1)
      BY <1>2, <2>1, <2>2, <2>4
    <3>3. lastCalm' \in 0..tick' /\ lastBirth' \in 0..tick'
      BY <1>1, <1>2, <3>1
    <3>4. SinceCalm'
      BY <1>1, <1>2, <2>2, <2>4, <3>1, <3>3 DEF SinceCalm
    <3> QED
      BY <3>1, <3>2, <3>3, <3>4 DEF Needed
  <2> QED
    BY <2>3, <2>4
<1>5. /\ DOMAIN pool = CloneSlot
      /\ \/ pool = clone
         \/ \E z \in Free : /\ pool[z] = {Newborn}
                            /\ \A s \in CloneSlot \ {z} : pool[s] = clone[s]
  BY <1>2, <1>3, ClonedShape
<1> HIDE DEF pool, fires, surprise
\* A clone of the pool, seen at the tick that begins.
<1>6. ASSUME NEW s \in CloneSlot, NEW m \in pool[s]
      PROVE  /\ pool[s] = {m} /\ m.sum \in Nat /\ m.born \in 1..NeuroTicks
             /\ m.born <= tick' /\ m.left \in 0..Trial
             /\ TrialStep(m, e).left = LeftAt(tick' - m.born)
             /\ TrialStep(m, e) \in Clones /\ TrialStep(m, e).born = m.born
  <2>1. /\ pool[s] = {m} /\ m \in Clones /\ m.born <= tick'
        /\ (IF m.left > 0 THEN m.left - 1 ELSE 0) = LeftAt(tick' - m.born)
    <3>1. CASE m \in clone[s] /\ pool[s] = clone[s]
      <4>1. /\ m \in Clones /\ clone[s] = {m} /\ m.born <= tick
            /\ m.left = LeftAt(tick - m.born)
        BY <1>2, <3>1 DEF NeuroIInv, Ages
      <4>2. m.born \in Nat
        BY <4>1 DEF Clones
      <4> QED
        BY <1>1, <1>2, <3>1, <4>1, <4>2 DEF LeftAt
    <3>2. CASE m = Newborn /\ pool[s] = {Newborn}
      <4>1. m.left = Trial /\ m.born = tick' /\ m.sum = 0
        BY <3>2 DEF Newborn
      <4>2. m \in Clones
        <5>1. Trial \in 0..Trial /\ 0 \in Nat /\ tick' \in 1..NeuroTicks
          BY <1>1, <1>2
        <5> QED
          BY <3>2, <5>1 DEF Newborn, Clones
      <4> QED
        BY <1>1, <1>2, <3>2, <4>1, <4>2 DEF LeftAt
    <3> QED
      BY <1>5, <3>1, <3>2
  <2>2. m.left \in 0..Trial /\ m.sum \in Nat /\ m.born \in 1..NeuroTicks
    BY <2>1 DEF Clones
  <2>3. (IF m.left > 0 THEN m.left - 1 ELSE 0) \in 0..Trial /\ m.sum + e \in Nat
    BY <1>2, <2>2
  <2>4. /\ TrialStep(m, e).left = (IF m.left > 0 THEN m.left - 1 ELSE 0)
        /\ TrialStep(m, e).born = m.born
    BY <2>1 DEF TrialStep, Clones
  <2>5. TrialStep(m, e) \in Clones
    BY <2>1, <2>3 DEF TrialStep, Clones
  <2> QED
    BY <2>1, <2>2, <2>4, <2>5
<1>7. \A s \in CloneSlot : \A m \in pool[s] : tried[s] = {TrialStep(m, e)}
  BY <1>6
<1>8. \A s \in CloneSlot : clone'[s] = IF s \in dead THEN {} ELSE tried[s]
  BY <1>1
<1>9. \A s \in CloneSlot : \A k \in clone'[s] :
        /\ k \in Clones /\ clone'[s] = {k}
        /\ k.born <= tick' /\ k.left = LeftAt(tick' - k.born)
  <2> SUFFICES ASSUME NEW s \in CloneSlot, NEW k \in clone'[s]
               PROVE  /\ k \in Clones /\ clone'[s] = {k}
                      /\ k.born <= tick' /\ k.left = LeftAt(tick' - k.born)
    OBVIOUS
  <2>1. clone'[s] = tried[s] /\ k \in tried[s]
    BY <1>8
  <2>2. PICK m \in pool[s] : k = TrialStep(m, e)
    BY <2>1
  <2> QED
    BY <1>6, <1>7, <2>1, <2>2
<1>10. Ages'
  BY <1>9 DEF Ages, LeftAt
<1>11. Tried
  <2> SUFFICES ASSUME NEW s \in CloneSlot, NEW m \in clone[s],
                      ~(\E k \in clone'[s] : k.born = m.born)
               PROVE  tick' - m.born >= Trial - 1
    BY DEF Tried
  <2>1. m \in pool[s]
    BY <1>5 DEF Free, Living
  <2>2. s \in dead
    <3> SUFFICES ASSUME s \notin dead PROVE FALSE
      OBVIOUS
    <3>1. clone'[s] = {TrialStep(m, e)}
      BY <1>7, <1>8, <2>1
    <3>2. TrialStep(m, e).born = m.born
      BY <1>6, <2>1
    <3> QED
      BY <3>1, <3>2
  <2>3. Fails(TrialStep(m, e))
    BY <1>7, <2>1, <2>2
  <2>4. LeftAt(tick' - m.born) = 0
    BY <1>6, <2>1, <2>3 DEF Fails, Over
  <2>5. m.born \in Nat
    BY <1>6, <2>1
  <2> QED
    BY <1>1, <1>2, <2>4, <2>5 DEF LeftAt
<1>12. births' = prunes' + Cardinality(Living')
  <2>1. bornIn \subseteq Free /\ \A s \in bornIn : pool[s] # {}
    BY <1>5
  <2>2. dead \subseteq Living \cup bornIn
    <3> SUFFICES ASSUME NEW s \in dead PROVE s \in Living \cup bornIn
      OBVIOUS
    <3>1. pool[s] # {}
      OBVIOUS
    <3> QED
      BY <3>1 DEF Living
  <2>3. Living' = (Living \cup bornIn) \ dead
    <3> SUFFICES ASSUME NEW s \in CloneSlot
                 PROVE  clone'[s] # {} <=> s \in (Living \cup bornIn) \ dead
      BY <2>1 DEF Living, Free
    <3>1. tried[s] # {} <=> pool[s] # {}
      OBVIOUS
    <3>2. pool[s] # {} <=> s \in Living \cup bornIn
      BY <2>1 DEF Living, Free
    <3> QED
      BY <1>8, <3>1, <3>2
  <2>4. Living \subseteq CloneSlot /\ bornIn \subseteq CloneSlot /\ Living \cap bornIn = {}
    BY <2>1 DEF Living, Free
  <2> HIDE DEF bornIn, dead
  <2>5. /\ IsFiniteSet(Living) /\ IsFiniteSet(bornIn) /\ IsFiniteSet(Living \cup bornIn)
        /\ Cardinality(Living) \in Nat /\ Cardinality(bornIn) \in Nat
    BY <2>4, SlotsAreFinite
  <2>6. Cardinality(Living \cup bornIn) = Cardinality(Living) + Cardinality(bornIn)
    <3>1. Cardinality(Living \cup bornIn)
            = Cardinality(Living) + Cardinality(bornIn) - Cardinality(Living \cap bornIn)
      BY <2>5, FS_Union
    <3>2. Cardinality(Living \cap bornIn) = 0
      BY <2>4, FS_EmptySet
    <3> QED
      BY <2>5, <3>1, <3>2
  <2>7. Cardinality(Living') = Cardinality(Living \cup bornIn) - Cardinality(dead)
    <3>1. (Living \cup bornIn) \cap dead = dead
      BY <2>2
    <3>2. Cardinality((Living \cup bornIn) \ dead)
            = Cardinality(Living \cup bornIn) - Cardinality((Living \cup bornIn) \cap dead)
      BY <2>5, FS_Difference
    <3> QED
      BY <2>3, <3>1, <3>2
  <2>8. Cardinality(dead) \in Nat
    BY <2>2, <2>4, SlotsAreFinite
  <2>9. births = prunes + Cardinality(Living)
    BY DEF NeuroIInv
  <2> QED
    BY <1>1, <1>2, <2>5, <2>6, <2>7, <2>8, <2>9
<1>13. births' \in Nat /\ prunes' \in Nat
  <2>1. Cardinality(bornIn) \in Nat /\ Cardinality(dead) \in Nat
    BY SlotsAreFinite
  <2> QED
    BY <1>1, <1>2, <2>1
<1>14. NeuroTypeOK'
  <2>1. survivors' \subseteq CloneSlot /\ tick' \in Nat
    BY <1>1, <1>2
  <2> QED
    BY <1>4, <1>9, <1>13, <2>1 DEF NeuroTypeOK
<1>15. DOMAIN clone' = CloneSlot /\ tick' <= NeuroTicks
  BY <1>1, <1>2
<1> QED
  BY <1>4, <1>10, <1>11, <1>12, <1>14, <1>15 DEF NeuroIInv

LEMMA NeuroStep ==
  ASSUME NeuroIInv, [NeuroNext]_neuroVars
  PROVE  NeuroIInv' /\ [Needed]_neuroVars /\ [Tried]_neuroVars
<1>1. CASE UNCHANGED neuroVars
  <2>1. UNCHANGED <<clone, persist, births, prunes, lastCalm, lastBirth, survivors, tick>>
    BY <1>1 DEF neuroVars, neuroOwn
  <2>2. Living' = Living
    BY <2>1 DEF Living
  <2>3. NeuroTypeOK' /\ SinceCalm' /\ Ages'
    BY <2>1 DEF NeuroIInv, NeuroTypeOK, SinceCalm, Ages, LeftAt
  <2> QED
    BY <1>1, <2>1, <2>2, <2>3 DEF NeuroIInv
<1>2. CASE NeuroNext
  BY <1>2, NeuroTickIInv DEF NeuroNext
<1> QED
  BY <1>1, <1>2
-----------------------------------------------------------------------------
(* Predictor.  The window read backwards from the index of the ring is the *)
(* sequence of the last errors, through every wrap; the counter of rising  *)
(* steps is the length of the run that is still on, up to its width.       *)
PastLaw == /\ past \in Seq(Mistakes) /\ Len(past) = Least(LongWin, errorCount)
           /\ \A k \in 1..Len(past) : past[k] = errorBuf[Back(errorIdx, k - 1)]

RunLaw == /\ risen \in Seq(BOOLEAN) /\ anomaly <= Len(risen)
          /\ \A i \in 1..anomaly : risen[i] = TRUE
          /\ anomaly < MaxAnomaly /\ anomaly < Len(risen) => risen[anomaly + 1] = FALSE
          /\ forced = (anomaly >= Trigger)

TrendLaw == risen # <<>> => risen[1] = Reference

PredIInv == PredTypeOK /\ PastLaw /\ RunLaw /\ TrendLaw

LEMMA PredInitIInv == PredInit => PredIInv
<1> SUFFICES ASSUME PredInit PROVE PredIInv
  OBVIOUS
<1> USE PredictorAssumption DEF PredInit
<1>1. errorBuf \in [0..ErrBuf-1 -> Mistakes \cup {0}]
  OBVIOUS
<1>2. errorIdx \in 0..ErrBuf-1 /\ errorCount \in 0..ErrBuf /\ anomaly \in 0..MaxAnomaly
  OBVIOUS
<1>3. forced \in BOOLEAN
  OBVIOUS
<1>4. PredTypeOK
  BY <1>1, <1>2, <1>3 DEF PredTypeOK
<1>5. PastLaw
  BY DEF PastLaw, Least
<1>6. Len(risen) = 0 /\ risen \in Seq(BOOLEAN) /\ anomaly = 0 /\ forced = FALSE /\ 1..anomaly = {}
  OBVIOUS
<1>7. forced = (anomaly >= Trigger)
  <2>1. Trigger \in 1..MaxAnomaly /\ MaxAnomaly \in Nat /\ anomaly = 0
    OBVIOUS
  <2>2. ~(anomaly >= Trigger)
    BY ONLY <2>1
  <2>3. (anomaly >= Trigger) = FALSE
    BY <2>2
  <2>4. forced = FALSE
    BY <1>6
  <2> QED
    BY ONLY <2>3, <2>4
<1>8. RunLaw
  BY <1>6, <1>7 DEF RunLaw
<1>9. TrendLaw
  BY DEF TrendLaw
<1> QED
  BY <1>4, <1>5, <1>8, <1>9 DEF PredIInv

LEMMA Consed ==
  ASSUME NEW S, NEW s \in Seq(S), NEW x \in S
  PROVE  /\ <<x>> \o s \in Seq(S) /\ Len(<<x>> \o s) = Len(s) + 1
         /\ (<<x>> \o s)[1] = x
         /\ \A k \in 2..(Len(s) + 1) : (<<x>> \o s)[k] = s[k - 1]
  OBVIOUS

(* The ring read backwards, before and after a push. *)
LEMMA BackMoves ==
  ASSUME NEW idx \in 0..(ErrBuf - 1)
  PROVE  /\ (idx + 1) % ErrBuf \in 0..(ErrBuf - 1)
         /\ Back((idx + 1) % ErrBuf, 0) = idx
         /\ \A k \in 1..(ErrBuf - 1) : /\ Back((idx + 1) % ErrBuf, k) = Back(idx, k - 1)
                                       /\ Back(idx, k - 1) \in 0..(ErrBuf - 1)
                                       /\ Back(idx, k - 1) # idx
<1>1. ErrBuf \in Nat \ {0} /\ idx \in Nat /\ idx < ErrBuf
  BY PredictorAssumption
<1> DEFINE nxt == (idx + 1) % ErrBuf
           y == idx + 1
<1>2. nxt = IF idx + 1 < ErrBuf THEN idx + 1 ELSE 0
  <2>1. y \in 0..(2 * ErrBuf - 1)
    BY <1>1
  <2>2. y % ErrBuf = IF y < ErrBuf THEN y ELSE y - ErrBuf
    BY <1>1, <2>1, Remainder
  <2> QED
    BY <1>1, <2>2
<1>3. ASSUME NEW i \in 0..(ErrBuf - 1), NEW j \in 0..(ErrBuf - 1)
      PROVE  Back(i, j) = IF j < i THEN i - 1 - j ELSE i + ErrBuf - 1 - j
  <2> DEFINE x == i + ErrBuf - 1 - j
  <2>1. x \in 0..(2 * ErrBuf - 1)
    BY <1>1
  <2>2. x % ErrBuf = IF x < ErrBuf THEN x ELSE x - ErrBuf
    BY <1>1, <2>1, Remainder
  <2> QED
    BY <1>1, <2>1, <2>2 DEF Back
<1>4. nxt \in 0..(ErrBuf - 1)
  BY <1>1, <1>2
<1> HIDE DEF nxt
<1>5. Back(nxt, 0) = idx
  BY <1>1, <1>2, <1>3, <1>4, 0 \in 0..(ErrBuf - 1)
<1>6. ASSUME NEW k \in 1..(ErrBuf - 1)
      PROVE  /\ Back(nxt, k) = Back(idx, k - 1) /\ Back(idx, k - 1) \in 0..(ErrBuf - 1)
             /\ Back(idx, k - 1) # idx
  <2>1. k \in 0..(ErrBuf - 1) /\ k - 1 \in 0..(ErrBuf - 1)
    BY <1>1
  <2>2. Back(nxt, k) = IF k < nxt THEN nxt - 1 - k ELSE nxt + ErrBuf - 1 - k
    BY <1>3, <1>4, <2>1
  <2>3. Back(idx, k - 1) = IF k - 1 < idx THEN idx - k ELSE idx + ErrBuf - k
    BY <1>1, <1>3, <2>1
  <2> QED
    BY <1>1, <1>2, <2>1, <2>2, <2>3
<1> QED
  BY <1>4, <1>5, <1>6 DEF nxt

LEMMA PredStepIInv == PredIInv /\ PredStep => PredIInv'
<1> SUFFICES ASSUME PredIInv, PredStep PROVE PredIInv'
  OBVIOUS
<1> USE PredictorAssumption
<1>1. PICK e \in Mistakes :
        /\ errorBuf' = [errorBuf EXCEPT ![errorIdx] = e]
        /\ past' = SubSeq(<<e>> \o past, 1, Least(Len(past) + 1, LongWin))
  BY DEF PredStep
<1> DEFINE rising == Rising(errorBuf', errorIdx', errorCount')
<1>2. /\ errorIdx' = (errorIdx + 1) % ErrBuf /\ errorCount' = Least(errorCount + 1, ErrBuf)
      /\ anomaly' = Counted(rising) /\ risen' = <<rising>> \o risen
      /\ forced' = (anomaly' >= Trigger)
  BY DEF PredStep
<1>3. /\ errorBuf \in [0..ErrBuf-1 -> Mistakes \cup {0}] /\ errorIdx \in 0..(ErrBuf - 1)
      /\ errorCount \in 0..ErrBuf /\ anomaly \in 0..MaxAnomaly
      /\ past \in Seq(Mistakes) /\ Len(past) = Least(LongWin, errorCount)
      /\ \A k \in 1..Len(past) : past[k] = errorBuf[Back(errorIdx, k - 1)]
  BY DEF PredIInv, PredTypeOK, PastLaw
<1>4. rising \in BOOLEAN
  BY DEF Rising
<1>5. errorIdx' \in 0..(ErrBuf - 1) /\ errorCount' \in 0..ErrBuf
      /\ errorBuf' \in [0..ErrBuf-1 -> Mistakes \cup {0}]
      /\ errorBuf'[errorIdx] = e
      /\ \A i \in 0..(ErrBuf - 1) : i # errorIdx => errorBuf'[i] = errorBuf[i]
  <2>1. errorIdx' \in 0..(ErrBuf - 1)
    BY <1>2, <1>3, BackMoves
  <2>2. errorCount' \in 0..ErrBuf
    BY <1>2, <1>3 DEF Least
  <2>3. errorBuf' \in [0..ErrBuf-1 -> Mistakes \cup {0}] /\ errorBuf'[errorIdx] = e
    BY <1>1, <1>3
  <2>4. ASSUME NEW i \in 0..(ErrBuf - 1), i # errorIdx PROVE errorBuf'[i] = errorBuf[i]
    BY <1>1, <1>3, <2>4
  <2> QED
    BY <2>1, <2>2, <2>3, <2>4
<1> DEFINE new == <<e>> \o past
           m == Least(Len(past) + 1, LongWin)
<1>6. /\ new \in Seq(Mistakes) /\ Len(new) = Len(past) + 1 /\ new[1] = e
      /\ \A k \in 2..(Len(past) + 1) : new[k] = past[k - 1]
  BY <1>3, Consed
<1> HIDE DEF new
<1>7. m \in 1..LongWin /\ m <= Len(past) + 1 /\ m = Least(LongWin, errorCount')
  BY <1>2, <1>3 DEF Least
<1>8. /\ past' \in Seq(Mistakes) /\ Len(past') = m
      /\ \A k \in 1..m : past'[k] = new[k]
  BY <1>1, <1>6, <1>7 DEF new
<1> HIDE DEF m
<1>9. ASSUME NEW k \in 1..m PROVE past'[k] = errorBuf'[Back(errorIdx', k - 1)]
  <2>1. CASE k = 1
    <3>1. past'[1] = e
      BY <1>6, <1>8, <2>1
    <3>2. Back(errorIdx', 0) = errorIdx
      BY <1>2, <1>3, BackMoves
    <3>3. k - 1 = 0
      BY <2>1
    <3> QED
      BY <1>5, <2>1, <3>1, <3>2, <3>3
  <2>2. CASE k # 1
    <3>1. k - 1 \in 1..Len(past) /\ k - 1 \in 1..(ErrBuf - 1) /\ k \in 2..(Len(past) + 1)
      BY <1>3, <1>7, <2>2
    <3>2. past'[k] = past[k - 1]
      BY <1>6, <1>8, <3>1
    <3>3. past[k - 1] = errorBuf[Back(errorIdx, k - 1 - 1)]
      BY <1>3, <3>1
    <3>4. /\ Back(errorIdx', k - 1) = Back(errorIdx, k - 1 - 1)
          /\ Back(errorIdx, k - 1 - 1) \in 0..(ErrBuf - 1)
          /\ Back(errorIdx, k - 1 - 1) # errorIdx
      BY <1>2, <1>3, <3>1, BackMoves
    <3> QED
      BY <1>5, <3>2, <3>3, <3>4
  <2> QED
    BY <2>1, <2>2
<1>10. PastLaw'
  BY <1>7, <1>8, <1>9 DEF PastLaw
<1>11. rising = Reference'
  <2>1. Len(past') = m /\ m = Least(LongWin, errorCount') /\ m = Least(LongWin, Len(past'))
    BY <1>7, <1>8 DEF Least
  <2>2. errorCount' >= ShortWin <=> m >= ShortWin
    BY <1>5, <1>7 DEF Least
  <2>3. past' = Window(errorBuf', errorIdx', m)
    <3> DEFINE w == Window(errorBuf', errorIdx', m)
    <3>1. w = [k \in 1..m |-> past'[k]]
      BY <1>9 DEF Window
    <3> QED
      BY <1>7, <1>8, <3>1
  <2>4. m >= ShortWin => SubSeq(past', 1, ShortWin) = Window(errorBuf', errorIdx', ShortWin)
    <3> SUFFICES ASSUME m >= ShortWin
                 PROVE  SubSeq(past', 1, ShortWin) = Window(errorBuf', errorIdx', ShortWin)
      OBVIOUS
    <3>1. \A k \in 1..ShortWin : k \in 1..m
      BY <1>7
    <3>2. SubSeq(past', 1, ShortWin) = [k \in 1..ShortWin |-> past'[k]]
      BY <1>7, <1>8
    <3> QED
      BY <1>9, <3>1, <3>2 DEF Window
  <2> QED
    BY <2>1, <2>2, <2>3, <2>4 DEF Rising, Reference
<1> HIDE DEF rising
<1>12. /\ risen \in Seq(BOOLEAN) /\ anomaly <= Len(risen)
       /\ \A i \in 1..anomaly : risen[i] = TRUE
       /\ anomaly < MaxAnomaly /\ anomaly < Len(risen) => risen[anomaly + 1] = FALSE
  BY DEF PredIInv, RunLaw
<1>13. /\ risen' \in Seq(BOOLEAN) /\ Len(risen') = Len(risen) + 1 /\ risen'[1] = rising
       /\ \A k \in 2..(Len(risen) + 1) : risen'[k] = risen[k - 1]
  BY <1>2, <1>4, <1>12, Consed
<1>14. RunLaw' /\ anomaly' \in 0..MaxAnomaly
  <2>1. CASE rising = TRUE
    <3>1. anomaly' = Least(anomaly + 1, MaxAnomaly)
      BY <1>2, <2>1 DEF Counted
    <3>2. anomaly' \in 0..MaxAnomaly /\ anomaly' <= Len(risen')
      BY <1>3, <1>12, <1>13, <3>1 DEF Least
    <3>3. ASSUME NEW i \in 1..anomaly' PROVE risen'[i] = TRUE
      <4>1. CASE i = 1
        BY <1>13, <2>1, <4>1
      <4>2. CASE i # 1
        <5>1. i \in 2..(Len(risen) + 1) /\ i - 1 \in 1..anomaly
          BY <1>3, <1>12, <3>1, <4>2 DEF Least
        <5> QED
          BY <1>12, <1>13, <5>1
      <4> QED
        BY <4>1, <4>2
    <3>4. ASSUME anomaly' < MaxAnomaly, anomaly' < Len(risen')
          PROVE  risen'[anomaly' + 1] = FALSE
      <4>1. anomaly' = anomaly + 1 /\ anomaly < MaxAnomaly /\ anomaly < Len(risen)
        BY <1>3, <1>12, <1>13, <3>1, <3>4 DEF Least
      <4> DEFINE k == anomaly' + 1
      <4>2. \A j \in 2..(Len(risen) + 1) : risen'[j] = risen[j - 1]
        BY <1>13
      <4>3. k \in 2..(Len(risen) + 1) /\ k - 1 = anomaly + 1
        <5>1. anomaly' = anomaly + 1 /\ anomaly \in Nat /\ Len(risen) \in Nat /\ anomaly < Len(risen)
          BY <1>3, <1>12, <4>1
        <5>2. k = anomaly + 2
          BY <5>1
        <5> HIDE DEF k
        <5> QED
          BY <5>1, <5>2
      <4> HIDE DEF k
      <4>4. risen'[k] = risen[anomaly + 1]
        BY <4>2, <4>3
      <4>5. risen[anomaly + 1] = FALSE
        BY <1>12, <4>1
      <4> QED
        BY <4>4, <4>5 DEF k
    <3> QED
      BY <1>2, <1>13, <3>2, <3>3, <3>4 DEF RunLaw
  <2>2. CASE rising = FALSE
    <3>1. anomaly' = 0
      BY <1>2, <2>2 DEF Counted
    <3> QED
      BY <1>2, <1>12, <1>13, <2>2, <3>1 DEF RunLaw
  <2> QED
    BY <1>4, <2>1, <2>2
<1>15. TrendLaw'
  BY <1>11, <1>13 DEF TrendLaw
<1>16. PredTypeOK'
  BY <1>2, <1>5, <1>14 DEF PredTypeOK
<1> QED
  BY <1>10, <1>14, <1>15, <1>16 DEF PredIInv

LEMMA PredNextIInv == PredIInv /\ [PredNext]_predOwn => PredIInv'
<1>1. ASSUME PredIInv, UNCHANGED predOwn PROVE PredIInv'
  <2>1. UNCHANGED <<errorBuf, errorIdx, errorCount, anomaly, forced, past, risen>>
    BY <1>1 DEF predOwn
  <2>2. Reference' = Reference
    BY <2>1 DEF Reference
  <2>3. PredTypeOK' /\ PastLaw' /\ RunLaw' /\ TrendLaw'
    BY <1>1, <2>1, <2>2 DEF PredIInv, PredTypeOK, PastLaw, RunLaw, TrendLaw
  <2> QED
    BY <2>3 DEF PredIInv
<1> QED
  BY <1>1, PredStepIInv DEF PredNext

LEMMA PredSafe == PredIInv => PredTypeOK /\ ForcedByInsistence
<1> SUFFICES ASSUME PredIInv
             PROVE  forced = (Len(risen) >= Trigger /\ \A i \in 1..Trigger : risen[i])
  BY DEF PredIInv, TrendLaw, ForcedByInsistence
<1>1. /\ anomaly \in 0..MaxAnomaly /\ Trigger \in 1..MaxAnomaly /\ MaxAnomaly \in Nat
      /\ risen \in Seq(BOOLEAN) /\ anomaly <= Len(risen)
      /\ \A i \in 1..anomaly : risen[i] = TRUE
      /\ anomaly < MaxAnomaly /\ anomaly < Len(risen) => risen[anomaly + 1] = FALSE
      /\ forced = (anomaly >= Trigger)
  BY PredictorAssumption DEF PredIInv, PredTypeOK, RunLaw
<1>2. CASE anomaly >= Trigger
  BY <1>1, <1>2
<1>3. CASE anomaly < Trigger
  <2>1. Len(risen) >= Trigger => risen[anomaly + 1] = FALSE /\ anomaly + 1 \in 1..Trigger
    BY <1>1, <1>3
  <2>2. ~(Len(risen) >= Trigger /\ \A i \in 1..Trigger : risen[i])
    BY <2>1
  <2>3. ~(anomaly >= Trigger)
    BY <1>1, <1>3
  <2> QED
    BY <1>1, <2>2, <2>3
<1> QED
  BY <1>1, <1>2, <1>3
-----------------------------------------------------------------------------
(* Journal.  Both rings read backwards from where they are written hold    *)
(* the last ticks recorded; the next sleep is never due later than         *)
(* SleepEvery ticks after the last one.                                    *)

(* The k-th slot back from the one the counter x is about to write.        *)
Behind(x, k, c) == IF k <= x % c THEN (x % c) - k ELSE (x % c) + c - k

(* What a push does to the ring read backwards. *)
LEMMA BehindMoves ==
  ASSUME NEW c \in Nat \ {0}, NEW x \in Nat
  PROVE  /\ x % c \in 0..(c - 1)
         /\ Behind(x + 1, 1, c) = x % c
         /\ \A k \in 1..(c - 1) : /\ Behind(x, k, c) \in 0..(c - 1)
                                  /\ Behind(x, k, c) # x % c
                                  /\ Behind(x + 1, k + 1, c) = Behind(x, k, c)
         /\ \A k \in 1..c : Behind(x, k, c) \in 0..(c - 1)
         /\ \A i \in 0..(c - 1) : \E k \in 1..c : Behind(x, k, c) = i
<1> DEFINE r == x % c
           s == (x + 1) % c
<1>1. r \in 0..(c - 1) /\ s = IF r + 1 = c THEN 0 ELSE r + 1
  BY NextRemainder
<1>2. Behind(x + 1, 1, c) = r
  BY <1>1 DEF Behind
<1>3. ASSUME NEW k \in 1..c
      PROVE  Behind(x, k, c) = IF k <= r THEN r - k ELSE r + c - k
  BY DEF Behind
<1>4. ASSUME NEW k \in 1..(c - 1)
      PROVE  Behind(x + 1, k + 1, c) = IF k + 1 <= s THEN s - (k + 1) ELSE s + c - (k + 1)
  BY DEF Behind
<1> HIDE DEF r, s
<1>5. \A k \in 1..c : Behind(x, k, c) \in 0..(c - 1)
  BY <1>1, <1>3
<1>6. ASSUME NEW k \in 1..(c - 1)
      PROVE  Behind(x, k, c) # r /\ Behind(x + 1, k + 1, c) = Behind(x, k, c)
  <2>1. k \in 1..c
    OBVIOUS
  <2>2. Behind(x, k, c) = IF k <= r THEN r - k ELSE r + c - k
    BY <1>3, <2>1
  <2> QED
    BY <1>1, <1>4, <2>1, <2>2
<1>7. ASSUME NEW i \in 0..(c - 1) PROVE \E k \in 1..c : Behind(x, k, c) = i
  <2> DEFINE k == IF i < r THEN r - i ELSE r + c - i
  <2>1. k \in 1..c
    BY <1>1
  <2>2. (IF k <= r THEN r - k ELSE r + c - k) = i
    BY <1>1
  <2> QED
    BY <1>3, <2>1, <2>2
<1>8. \A k \in 1..(c - 1) : k \in 1..c
  OBVIOUS
<1> QED
  BY <1>1, <1>2, <1>5, <1>6, <1>7, <1>8 DEF r

(* The last entries of a held, as many as it has. *)
Tells(held, x, c) == \A k \in 1..Least(c, x) : held[Behind(x, k, c)] = x - k + 1

LEMMA TellsTheNext ==
  ASSUME NEW c \in Nat \ {0}, NEW x \in Nat, NEW held, NEW next,
         DOMAIN held = 0..(c - 1), next = [held EXCEPT ![x % c] = x + 1], Tells(held, x, c)
  PROVE  Tells(next, x + 1, c)
<1>1. x % c \in 0..(c - 1)
  BY BehindMoves
<1>2. /\ next[x % c] = x + 1
      /\ \A i \in 0..(c - 1) : i # x % c => next[i] = held[i]
  BY <1>1
<1> SUFFICES ASSUME NEW k \in 1..Least(c, x + 1)
             PROVE  next[Behind(x + 1, k, c)] = (x + 1) - k + 1
  BY DEF Tells
<1>3. k \in 1..c /\ k \in 1..(x + 1)
  BY DEF Least
<1>4. CASE k = 1
  <2>1. Behind(x + 1, k, c) = x % c
    BY <1>4, BehindMoves
  <2>2. (x + 1) - k + 1 = x + 1
    BY <1>4
  <2> QED
    BY <1>2, <2>1, <2>2
<1>5. CASE k # 1
  <2> DEFINE j == k - 1
  <2>1. j \in 1..(c - 1) /\ j \in 1..Least(c, x) /\ k = j + 1 /\ j \in 1..x
    BY <1>3, <1>5 DEF Least
  <2> HIDE DEF j
  <2>2. Behind(x, j, c) \in 0..(c - 1) /\ Behind(x, j, c) # x % c
        /\ Behind(x + 1, j + 1, c) = Behind(x, j, c)
    BY <2>1, BehindMoves
  <2>3. held[Behind(x, j, c)] = x - j + 1
    BY <2>1 DEF Tells
  <2>4. (x + 1) - k + 1 = x - j + 1
    BY <2>1
  <2> QED
    BY <1>2, <2>1, <2>2, <2>3, <2>4
<1> QED
  BY <1>4, <1>5

(* The slots of a ring that were written. *)
LEMMA BehindCovers ==
  ASSUME NEW c \in Nat \ {0}, NEW x \in Nat
  PROVE  /\ \A k \in 1..Least(c, x) : Behind(x, k, c) \in 0..(Least(c, x) - 1)
         /\ \A i \in 0..(Least(c, x) - 1) : \E k \in 1..Least(c, x) : Behind(x, k, c) = i
<1>1. CASE c <= x
  <2>1. Least(c, x) = c
    BY <1>1 DEF Least
  <2>2. \A k \in 1..c : Behind(x, k, c) \in 0..(c - 1)
    BY BehindMoves
  <2>3. \A i \in 0..(c - 1) : \E k \in 1..c : Behind(x, k, c) = i
    BY BehindMoves
  <2> QED
    BY <2>1, <2>2, <2>3
<1>2. CASE x < c
  <2>1. Least(c, x) = x
    BY <1>2 DEF Least
  <2>2. x % c = x
    BY <1>2
  <2>3. ASSUME NEW k \in 1..x PROVE Behind(x, k, c) = x - k
    BY <2>2 DEF Behind
  <2>4. ASSUME NEW i \in 0..(x - 1) PROVE \E k \in 1..x : Behind(x, k, c) = i
    <3>1. x - i \in 1..x /\ x - (x - i) = i
      OBVIOUS
    <3> QED
      BY <2>3, <3>1
  <2>5. \A k \in 1..x : x - k \in 0..(x - 1)
    OBVIOUS
  <2> QED
    BY <2>1, <2>3, <2>4, <2>5
<1> QED
  BY <1>1, <1>2

LEMMA RingIsLastTicks ==
  ASSUME NEW c \in Nat \ {0}, NEW x \in Nat, NEW held, Tells(held, x, c)
  PROVE  {held[i] : i \in 0..(Least(c, x) - 1)} = LastTicks(c, x)
<1> DEFINE l == Least(c, x)
<1>1. l \in Nat /\ l <= c /\ l <= x /\ (l = c \/ l = x)
  BY DEF Least
<1>2. \A k \in 1..l : Behind(x, k, c) \in 0..(l - 1)
  BY BehindCovers
<1>3. \A i \in 0..(l - 1) : \E k \in 1..l : Behind(x, k, c) = i
  BY BehindCovers
<1>4. \A k \in 1..l : held[Behind(x, k, c)] = x - k + 1
  BY DEF Tells
<1> HIDE DEF l
<1>5. ASSUME NEW i \in 0..(l - 1) PROVE held[i] \in LastTicks(c, x)
  <2>1. PICK k \in 1..l : Behind(x, k, c) = i
    BY <1>3
  <2>2. held[i] = x - k + 1
    BY <1>4, <2>1
  <2>3. x - k + 1 \in 1..x /\ x - k + 1 > x - c
    BY <1>1
  <2> QED
    BY <2>2, <2>3 DEF LastTicks
<1>6. ASSUME NEW t \in LastTicks(c, x) PROVE \E i \in 0..(l - 1) : held[i] = t
  <2>1. t \in 1..x /\ t > x - c
    BY DEF LastTicks
  <2> DEFINE k == x - t + 1
  <2>2. k \in 1..l /\ x - k + 1 = t
    BY <1>1, <2>1
  <2> HIDE DEF k
  <2>3. Behind(x, k, c) \in 0..(l - 1) /\ held[Behind(x, k, c)] = t
    BY <1>2, <1>4, <2>2
  <2> QED
    BY <2>3
<1> QED
  BY <1>5, <1>6 DEF l

Recorded == IF journalPc \in {"sleep", "record"} THEN tick - 1 ELSE tick

RecordLaw == /\ tick \in Nat /\ tick <= JournalTicks
             /\ journalPc \in {"command", "sleep", "record", "verify", "dump"}
             /\ journalPc # "command" => tick >= 1
             /\ logIdx = Recorded /\ expIdx = Recorded
             /\ (expFull <=> Recorded >= ExpCap)

RingsTell == Tells(log, logIdx, LogCap) /\ Tells(exp, expIdx, ExpCap)

SleepLaw == /\ sleepAt \in Nat /\ sleepAt <= sleptAt + SleepEvery
            /\ journalPc = "record" => tick - sleptAt < SleepEvery
            /\ sleptAt > 0 => slept = LastTicks(ExpCap, sleptAt - 1)

JournalIInv == JournalTypeOK /\ RecordLaw /\ RingsTell /\ SleepLaw

LEMMA JournalInitIInv == JournalInit => JournalIInv
<1> SUFFICES ASSUME JournalInit PROVE JournalIInv
  OBVIOUS
<1> USE JournalAssumption DEF JournalInit, TickInit
<1>1. log \in [0..LogCap-1 -> 0..tick] /\ exp \in [0..ExpCap-1 -> 0..tick]
  OBVIOUS
<1>2. /\ logIdx \in 0..tick /\ expIdx \in 0..tick /\ expFull \in BOOLEAN
      /\ sleptAt \in 0..tick
  OBVIOUS
<1>3. /\ sleepPending \in BOOLEAN /\ dumpAsked \in BOOLEAN /\ halted \in BOOLEAN
      /\ dream \subseteq [at : 1..JournalTicks, steps : 1..MaxDream]
  OBVIOUS
<1>4. JournalTypeOK
  BY <1>1, <1>2, <1>3 DEF JournalTypeOK
<1>5. Recorded = 0 /\ (0 >= ExpCap) = FALSE
  BY DEF Recorded
<1>6. RecordLaw
  <2>1. tick = 0 /\ logIdx = 0 /\ expIdx = 0 /\ expFull = FALSE /\ journalPc = "command"
    OBVIOUS
  <2>2. tick \in Nat /\ tick <= JournalTicks
    OBVIOUS
  <2>3. (expFull <=> Recorded >= ExpCap)
    BY <1>5, <2>1
  <2> QED
    BY <1>5, <2>1, <2>2, <2>3 DEF RecordLaw
<1>7. RingsTell
  BY DEF RingsTell, Tells, Least
<1>8. SleepLaw
  BY DEF SleepLaw
<1> QED
  BY <1>4, <1>6, <1>7, <1>8 DEF JournalIInv

(* What GoesBackToWhatItLived asks of a step. *)
Tale == dumped' # dumped /\ logIdx >= LogCap =>
          dumped' = [e \in 1..LogCap |-> tick - LogCap + e]

(* Read forwards from the slot to write next, a full ring is in order. *)
LEMMA DumpIsInOrder ==
  ASSUME NEW c \in Nat \ {0}, NEW x \in Nat, c <= x, NEW held, Tells(held, x, c)
  PROVE  \A e \in 1..c : held[((x % c) + e - 1) % c] = x - c + e
<1> SUFFICES ASSUME NEW e \in 1..c
             PROVE  held[((x % c) + e - 1) % c] = x - c + e
  OBVIOUS
<1> DEFINE r == x % c
           y == r + e - 1
           k == c - e + 1
<1>1. r \in 0..(c - 1)
  BY BehindMoves
<1>2. k \in 1..c /\ k \in 1..Least(c, x) /\ x - k + 1 = x - c + e
  BY DEF Least
<1>3. Behind(x, k, c) = IF k <= r THEN r - k ELSE r + c - k
  BY DEF Behind
<1> HIDE DEF r
<1>4. y \in 0..(2 * c - 1)
  BY <1>1
<1>5. y % c = IF y < c THEN y ELSE y - c
  BY <1>4, Remainder
<1>6. y % c = Behind(x, k, c)
  BY <1>1, <1>3, <1>5
<1> HIDE DEF k, y
<1>7. held[Behind(x, k, c)] = x - k + 1
  BY <1>2 DEF Tells
<1> QED
  BY <1>2, <1>6, <1>7 DEF y, r

LEMMA CommandedIInv == JournalIInv /\ JournalCommand => JournalIInv' /\ dumped' = dumped
<1> SUFFICES ASSUME JournalIInv, JournalCommand PROVE JournalIInv' /\ dumped' = dumped
  OBVIOUS
<1>1. /\ journalPc = "command" /\ journalPc' = "sleep" /\ ~halted
      /\ tick < JournalTicks /\ tick' = tick + 1
      /\ UNCHANGED <<log, logIdx, exp, expIdx, expFull, sleepAt, halted, dumped, slept, sleptAt>>
  BY DEF JournalCommand, At, TickAdvances
<1>2. /\ tick \in Nat /\ logIdx = tick /\ expIdx = tick /\ (expFull <=> tick >= ExpCap)
  BY <1>1 DEF JournalIInv, RecordLaw, Recorded
<1>3. Recorded' = tick
  BY <1>1, <1>2 DEF Recorded
<1>4. RecordLaw'
  <2>1. tick' \in Nat /\ tick' <= JournalTicks /\ tick' >= 1
    BY <1>1, <1>2, JournalAssumption
  <2>2. expFull' <=> Recorded' >= ExpCap
    BY <1>1, <1>2, <1>3
  <2> QED
    BY <1>1, <1>2, <1>3, <2>1, <2>2 DEF RecordLaw
<1>5. RingsTell' /\ SleepLaw'
  BY <1>1 DEF JournalIInv, RingsTell, Tells, SleepLaw
<1>6. sleepPending' \in BOOLEAN /\ dumpAsked' \in BOOLEAN
  BY DEF JournalCommand, JournalIInv, JournalTypeOK
<1>7. dream' \subseteq [at : 1..JournalTicks, steps : 1..MaxDream]
  <2>1. tick' \in 1..JournalTicks
    BY <1>1, <1>2, JournalAssumption
  <2>2. CASE dream' = dream
    BY <2>2 DEF JournalIInv, JournalTypeOK
  <2>3. CASE \E m \in 1..MaxDream : dream' = {[at |-> tick', steps |-> m]}
    BY <2>1, <2>3
  <2> QED
    BY <2>2, <2>3 DEF JournalCommand
<1>8. 0..tick \subseteq 0..tick'
  BY <1>1, <1>2
<1>9. JournalTypeOK'
  BY <1>1, <1>6, <1>7, <1>8 DEF JournalIInv, JournalTypeOK
<1> QED
  BY <1>1, <1>4, <1>5, <1>9 DEF JournalIInv

LEMMA SleepIInv == JournalIInv /\ Sleep => JournalIInv' /\ dumped' = dumped
<1> SUFFICES ASSUME JournalIInv, Sleep PROVE JournalIInv' /\ dumped' = dumped
  OBVIOUS
<1>1. /\ journalPc = "sleep" /\ journalPc' = "record"
      /\ UNCHANGED <<tick, log, logIdx, exp, expIdx, expFull, dumpAsked, dream, halted, dumped>>
      /\ sleepPending' = FALSE
      /\ sleepAt' = IF AutoSleep THEN NextSleep ELSE sleepAt
  BY DEF Sleep, At
<1>2. /\ tick \in Nat /\ tick >= 1 /\ expIdx = tick - 1 /\ (expFull <=> tick - 1 >= ExpCap)
      /\ Tells(exp, expIdx, ExpCap) /\ ExpCap \in Nat \ {0} /\ SleepEvery \in Nat \ {0}
  BY <1>1, JournalAssumption DEF JournalIInv, RecordLaw, Recorded, RingsTell
<1>3. /\ sleepAt \in Nat /\ sleepAt <= sleptAt + SleepEvery /\ sleptAt \in 0..tick
      /\ sleptAt > 0 => slept = LastTicks(ExpCap, sleptAt - 1)
  BY DEF JournalIInv, SleepLaw, JournalTypeOK
<1>4. /\ sleptAt' \in 0..tick' /\ sleepAt' \in Nat /\ sleepAt' <= sleptAt' + SleepEvery
      /\ tick' - sleptAt' < SleepEvery
      /\ sleptAt' > 0 => slept' = LastTicks(ExpCap, sleptAt' - 1)
  <2>1. CASE sleepPending \/ AutoSleep
    <3>1. slept' = {exp[i] : i \in 0..Experiences-1} /\ sleptAt' = tick
      BY <2>1 DEF Sleep
    <3>2. Experiences = Least(ExpCap, expIdx)
      <4>1. CASE expFull
        BY <1>2, <4>1 DEF Experiences, Least
      <4>2. CASE ~expFull
        BY <1>2, <4>2 DEF Experiences, Least
      <4> QED
        BY <4>1, <4>2
    <3>3. slept' = LastTicks(ExpCap, tick - 1)
      <4>1. expIdx \in Nat
        BY <1>2
      <4> QED
        BY <1>2, <3>1, <3>2, <4>1, RingIsLastTicks
    <3>4. sleepAt' \in Nat /\ sleepAt' <= tick + SleepEvery
      BY <1>1, <1>2, <1>3 DEF NextSleep
    <3>5. sleptAt' \in 0..tick' /\ tick' - sleptAt' < SleepEvery /\ sleptAt' = tick
      BY <1>1, <1>2, <3>1
    <3> QED
      BY <3>3, <3>4, <3>5
  <2>2. CASE ~(sleepPending \/ AutoSleep)
    <3>1. UNCHANGED <<slept, sleptAt>> /\ ~sleepPending /\ ~AutoSleep
      BY <2>2 DEF Sleep
    <3>2. tick < sleepAt
      BY <1>2, <1>3, <3>1 DEF AutoSleep
    <3> QED
      BY <1>1, <1>2, <1>3, <3>1, <3>2
  <2> QED
    BY <2>1, <2>2
<1>5. SleepLaw'
  BY <1>4 DEF SleepLaw
<1>6. RecordLaw' /\ RingsTell'
  BY <1>1 DEF JournalIInv, RecordLaw, Recorded, RingsTell, Tells
<1>7. JournalTypeOK'
  BY <1>1, <1>4 DEF JournalIInv, JournalTypeOK
<1> QED
  BY <1>1, <1>5, <1>6, <1>7 DEF JournalIInv

LEMMA RecordIInv == JournalIInv /\ Record => JournalIInv' /\ dumped' = dumped
<1> SUFFICES ASSUME JournalIInv, Record PROVE JournalIInv' /\ dumped' = dumped
  OBVIOUS
<1>1. /\ journalPc = "record" /\ journalPc' = "verify"
      /\ UNCHANGED <<tick, sleepPending, sleepAt, dumpAsked, dream, halted, dumped, slept, sleptAt>>
      /\ log' = [log EXCEPT ![logIdx % LogCap] = tick] /\ logIdx' = logIdx + 1
      /\ exp' = [exp EXCEPT ![expIdx % ExpCap] = tick] /\ expIdx' = expIdx + 1
      /\ expFull' = (expFull \/ Filled(expIdx'))
  BY DEF Record, At
<1>2. /\ tick \in Nat /\ tick >= 1 /\ logIdx = tick - 1 /\ expIdx = tick - 1
      /\ (expFull <=> tick - 1 >= ExpCap) /\ tick <= JournalTicks
      /\ ExpCap \in Nat \ {0} /\ LogCap \in Nat \ {0}
  BY <1>1, JournalAssumption DEF JournalIInv, RecordLaw, Recorded
<1>3. /\ log \in [0..LogCap-1 -> 0..tick] /\ exp \in [0..ExpCap-1 -> 0..tick]
      /\ Tells(log, logIdx, LogCap) /\ Tells(exp, expIdx, ExpCap)
  BY DEF JournalIInv, JournalTypeOK, RingsTell
<1>4. logIdx \in Nat /\ expIdx \in Nat /\ logIdx + 1 = tick /\ expIdx + 1 = tick /\ tick \in 0..tick
  BY <1>2
<1>5. RingsTell'
  <2>1. Tells(log', logIdx + 1, LogCap)
    BY <1>1, <1>2, <1>3, <1>4, TellsTheNext
  <2>2. Tells(exp', expIdx + 1, ExpCap)
    BY <1>1, <1>2, <1>3, <1>4, TellsTheNext
  <2> QED
    BY <1>1, <2>1, <2>2 DEF RingsTell
<1>6. Recorded' = tick
  BY <1>1 DEF Recorded
<1>7. expFull' <=> Recorded' >= ExpCap
  <2>1. expFull' = (expFull \/ tick >= ExpCap)
    BY <1>1, <1>4 DEF Filled
  <2>2. tick - 1 >= ExpCap => tick >= ExpCap
    BY <1>2
  <2> QED
    BY <1>2, <1>6, <2>1, <2>2
<1>8. RecordLaw'
  BY <1>1, <1>2, <1>4, <1>6, <1>7 DEF RecordLaw
<1>9. SleepLaw'
  BY <1>1 DEF JournalIInv, SleepLaw
<1>10. log' \in [0..LogCap-1 -> 0..tick'] /\ exp' \in [0..ExpCap-1 -> 0..tick']
  BY <1>1, <1>3, <1>4
<1>11. logIdx' \in 0..tick' /\ expIdx' \in 0..tick' /\ expFull' \in BOOLEAN
  BY <1>1, <1>4, <1>7
<1>12. JournalTypeOK'
  BY <1>1, <1>10, <1>11 DEF JournalIInv, JournalTypeOK
<1> QED
  BY <1>1, <1>5, <1>8, <1>9, <1>12 DEF JournalIInv

LEMMA VerifiedIInv == JournalIInv /\ VerifyDream => JournalIInv' /\ dumped' = dumped
<1> SUFFICES ASSUME JournalIInv, VerifyDream PROVE JournalIInv' /\ dumped' = dumped
  OBVIOUS
<1>1. /\ journalPc = "verify" /\ journalPc' = "dump"
      /\ UNCHANGED <<tick, log, logIdx, exp, expIdx, expFull, sleepPending, sleepAt, dumpAsked,
                     dumped, slept, sleptAt>>
  BY DEF VerifyDream, At
<1>2. halted' \in BOOLEAN /\ dream' \subseteq [at : 1..JournalTicks, steps : 1..MaxDream]
  BY DEF VerifyDream, DreamIsOver, JournalIInv, JournalTypeOK
<1>3. JournalTypeOK'
  BY <1>1, <1>2 DEF JournalIInv, JournalTypeOK
<1>4. RecordLaw' /\ RingsTell' /\ SleepLaw'
  BY <1>1 DEF JournalIInv, RecordLaw, Recorded, RingsTell, Tells, SleepLaw
<1> QED
  BY <1>1, <1>3, <1>4 DEF JournalIInv

LEMMA DumpIInv == JournalIInv /\ Dump => JournalIInv' /\ Tale
<1> SUFFICES ASSUME JournalIInv, Dump PROVE JournalIInv' /\ Tale
  OBVIOUS
<1>1. /\ journalPc = "dump" /\ journalPc' = "command" /\ dumpAsked' = FALSE
      /\ UNCHANGED <<tick, log, logIdx, exp, expIdx, expFull, sleepPending, sleepAt, dream,
                     halted, slept, sleptAt>>
  BY DEF Dump, At
<1>2. JournalTypeOK'
  BY <1>1 DEF JournalIInv, JournalTypeOK
<1>3. RecordLaw' /\ RingsTell' /\ SleepLaw'
  BY <1>1 DEF JournalIInv, RecordLaw, Recorded, RingsTell, Tells, SleepLaw
<1>4. Tale
  <2> SUFFICES ASSUME dumped' # dumped, logIdx >= LogCap
               PROVE  dumped' = [e \in 1..LogCap |-> tick - LogCap + e]
    BY DEF Tale
  <2>1. /\ logIdx = tick /\ tick \in Nat /\ LogCap \in Nat \ {0} /\ LogCap <= logIdx
        /\ Tells(log, logIdx, LogCap)
    BY <1>1, JournalAssumption DEF JournalIInv, RecordLaw, Recorded, RingsTell
  <2>2. LogLen = LogCap
    BY <2>1 DEF LogLen
  <2>3. dumped' = [e \in 1..LogLen |-> log[(DumpStart + e - 1) % LogCap]]
    BY DEF Dump
  <2>4. dumped' = [e \in 1..LogCap |-> log[((logIdx % LogCap) + e - 1) % LogCap]]
    BY <2>2, <2>3 DEF DumpStart
  <2>5. logIdx \in Nat
    BY <2>1
  <2>6. \A e \in 1..LogCap : log[((logIdx % LogCap) + e - 1) % LogCap] = logIdx - LogCap + e
    BY <2>1, <2>5, DumpIsInOrder
  <2> QED
    BY <2>1, <2>4, <2>6
<1> QED
  BY <1>2, <1>3, <1>4 DEF JournalIInv

LEMMA JournalStep ==
  ASSUME JournalIInv, [JournalNext]_journalVars
  PROVE  JournalIInv' /\ [Tale]_journalVars
<1>1. CASE UNCHANGED journalVars
  <2>1. UNCHANGED <<log, logIdx, exp, expIdx, expFull, sleepPending, sleepAt, dumpAsked,
                    dream, journalPc, halted, dumped, slept, sleptAt, tick>>
    BY <1>1 DEF journalVars, journalOwn
  <2>2. JournalTypeOK' /\ RecordLaw' /\ RingsTell' /\ SleepLaw'
    BY <2>1 DEF JournalIInv, JournalTypeOK, RecordLaw, Recorded, RingsTell, Tells, SleepLaw
  <2> QED
    BY <1>1, <2>2 DEF JournalIInv
<1>2. CASE JournalCommand
  BY <1>2, CommandedIInv DEF Tale
<1>3. CASE Sleep
  BY <1>3, SleepIInv DEF Tale
<1>4. CASE Record
  BY <1>4, RecordIInv DEF Tale
<1>5. CASE VerifyDream
  BY <1>5, VerifiedIInv DEF Tale
<1>6. CASE Dump
  BY <1>6, DumpIInv
<1> QED
  BY <1>1, <1>2, <1>3, <1>4, <1>5, <1>6 DEF JournalNext
-----------------------------------------------------------------------------
(* Mind.  The clock is shared: an organ that rests sees it move, so what   *)
(* its invariant says of the present tick holds for the organ that runs,   *)
(* and the rest of it for all.                                             *)
NeuroRests   == NeuroTypeOK /\ births = prunes + Cardinality(Living)
MemRests     == MemTypeOK /\ NoDuplicates
WillRests    == WillTypeOK /\ PainSovereign
AutoRests    == AutoTypeOK /\ FanLaw
JournalRests == JournalTypeOK /\ journalPc = "command" /\ sleptAt = 0

MindIInv ==
  /\ tick \in Nat
  /\ IF organ = "neurogenesis" THEN NeuroIInv ELSE NeuroRests
  /\ IF organ = "memoria" THEN MemIInv ELSE MemRests
  /\ IF organ = "executive" THEN WillIInv ELSE WillRests
  /\ IF organ = "autonomy" THEN AutoIInv ELSE AutoRests
  /\ IF organ = "journal" THEN JournalIInv ELSE JournalRests
  /\ BrainIInv /\ AdapterIInv /\ PredIInv

(* A step of the mind is a step of the organ that runs; the others at most *)
(* see the clock move.                                                     *)
LEMMA Turns ==
  ASSUME [Next]_mindVars
  PROVE  /\ organ' = organ
         /\ IF organ = "neurogenesis" THEN [NeuroNext]_neuroVars ELSE UNCHANGED neuroOwn
         /\ IF organ = "memoria" THEN [MemNext]_memVars ELSE UNCHANGED memOwn
         /\ IF organ = "executive" THEN [WillNext]_willVars ELSE UNCHANGED willOwn
         /\ IF organ = "autonomy" THEN [AutoNext]_autoVars ELSE UNCHANGED autoOwn
         /\ IF organ = "journal" THEN [JournalNext]_journalVars ELSE UNCHANGED journalOwn
         /\ [BrainNext]_brainOwn /\ [AdapterNext]_adapterOwn /\ [PredNext]_predOwn
<1> USE DEF Resting
<1>1. CASE UNCHANGED mindVars
  BY <1>1 DEF mindVars, neuroVars, memVars, willVars, autoVars, journalVars
<1>2. CASE organ = "neurogenesis" /\ Next
  BY <1>2 DEF Next
<1>3. CASE organ = "memoria" /\ Next
  BY <1>3 DEF Next
<1>4. CASE organ = "executive" /\ Next
  BY <1>4 DEF Next
<1>5. CASE organ = "autonomy" /\ Next
  BY <1>5 DEF Next
<1>6. CASE organ = "brain" /\ Next
  BY <1>6 DEF Next
<1>7. CASE organ = "adapter" /\ Next
  BY <1>7 DEF Next
<1>8. CASE organ = "predictor" /\ Next
  BY <1>8 DEF Next
<1>9. CASE organ = "journal" /\ Next
  BY <1>9 DEF Next
<1> QED
  BY <1>1, <1>2, <1>3, <1>4, <1>5, <1>6, <1>7, <1>8, <1>9 DEF Next

LEMMA ClockRuns == ASSUME tick \in Nat, [Next]_mindVars PROVE tick' \in Nat /\ tick' >= tick
<1>1. CASE tick' = tick
  BY <1>1
<1>2. CASE tick' = tick + 1
  BY <1>2
<1>3. tick' = tick \/ tick' = tick + 1
  <2>1. CASE UNCHANGED mindVars
    BY <2>1 DEF mindVars
  <2>2. CASE NeuroNext
    BY <2>2 DEF NeuroNext, NeuroTick, TickAdvances
  <2>3. CASE MemNext
    BY <2>3 DEF MemNext, MemCommand, MemStep, TickAdvances
  <2>4. CASE WillNext
    BY <2>4 DEF WillNext, Choose, Outcome, TickAdvances
  <2>5. CASE AutoNext
    BY <2>5 DEF AutoNext, Command, Hear, Body, TickAdvances
  <2>6. CASE JournalNext
    BY <2>6 DEF JournalNext, JournalCommand, Sleep, Record, VerifyDream, Dump, TickAdvances
  <2>7. CASE UNCHANGED tick
    BY <2>7
  <2> QED
    BY <2>1, <2>2, <2>3, <2>4, <2>5, <2>6, <2>7 DEF Next, Resting
<1> QED
  BY <1>1, <1>2, <1>3

LEMMA MindInitIInv == Init => MindIInv
<1> SUFFICES ASSUME Init PROVE MindIInv
  OBVIOUS
<1>1. /\ NeuroInit /\ MemInit /\ WillInit /\ AutoInit /\ PredInit /\ JournalInit
      /\ BrainInit /\ AdapterInit
  BY DEF Init
<1>2. NeuroIInv /\ MemIInv /\ WillIInv
  BY <1>1, NeuroInitIInv, MemInitIInv, WillInitIInv
<1>3. AutoIInv /\ JournalIInv
  BY <1>1, AutoInitIInv, JournalInitIInv
<1>4. BrainIInv /\ AdapterIInv /\ PredIInv
  BY <1>1, BrainInitIInv, AdapterInitIInv, PredInitIInv
<1>5. tick \in Nat /\ NeuroRests /\ MemRests /\ WillRests /\ AutoRests
  BY <1>2, <1>3 DEF NeuroRests, MemRests, WillRests, AutoRests, FanAgrees,
                    NeuroIInv, MemIInv, WillIInv, AutoIInv, MemTypeOK
<1>6. JournalRests
  BY <1>1, <1>3 DEF JournalInit, JournalRests, JournalIInv
<1> QED
  BY <1>2, <1>3, <1>4, <1>5, <1>6 DEF MindIInv

(* What rests stays what it was, whatever the clock says. *)
LEMMA NeuroRestsOn ==
  ASSUME NeuroRests, UNCHANGED neuroOwn, tick \in Nat, tick' \in Nat, tick' >= tick
  PROVE  NeuroRests'
<1>1. UNCHANGED <<clone, persist, births, prunes, lastCalm, lastBirth, survivors>>
  BY DEF neuroOwn
<1>2. lastCalm' \in 0..tick' /\ lastBirth' \in 0..tick'
  BY <1>1 DEF NeuroRests, NeuroTypeOK
<1>3. Living' = Living
  BY <1>1 DEF Living
<1> QED
  BY <1>1, <1>2, <1>3 DEF NeuroRests, NeuroTypeOK

LEMMA MemRestsOn == ASSUME MemRests, UNCHANGED memOwn, tick' \in Nat PROVE MemRests'
<1>1. UNCHANGED <<cells, ticks, count, head, own, state, memPc>>
  BY DEF memOwn, ring
<1>2. \A k : Oldest(k)' = Oldest(k)
  BY <1>1 DEF Oldest
<1>3. NoDuplicates'
  BY <1>1, <1>2 DEF MemRests, NoDuplicates
<1> QED
  BY <1>1, <1>3 DEF MemRests, MemTypeOK

LEMMA WillRestsOn == ASSUME WillRests, UNCHANGED willOwn, tick' \in Nat PROVE WillRests'
<1>1. UNCHANGED <<good, n, desire, curiosity, pending, prevErr, willPc, before>>
  BY DEF willOwn
<1> QED
  BY <1>1 DEF WillRests, WillTypeOK, PainSovereign

LEMMA AutoRestsOn == ASSUME AutoRests, UNCHANGED autoOwn, tick' \in Nat PROVE AutoRests'
<1>1. UNCHANGED <<autoPc, spinta, stim, prev, rest, startle, calm, mark, memHigh, tempHigh, fan,
                  lastMem, lastTemp, blind>>
  BY DEF autoOwn, reflex, homeo
<1> QED
  BY <1>1 DEF AutoRests, AutoTypeOK, FanLaw

LEMMA JournalRestsOn ==
  ASSUME JournalRests, UNCHANGED journalOwn, tick \in Nat, tick' \in Nat, tick' >= tick
  PROVE  JournalRests'
<1>1. UNCHANGED <<log, logIdx, exp, expIdx, expFull, sleepPending, sleepAt, dumpAsked,
                  dream, journalPc, halted, dumped, slept, sleptAt>>
  BY DEF journalOwn
<1>2. 0..tick \subseteq 0..tick'
  OBVIOUS
<1>3. log' \in [0..LogCap-1 -> 0..tick'] /\ exp' \in [0..ExpCap-1 -> 0..tick']
  BY <1>1, <1>2 DEF JournalRests, JournalTypeOK
<1> QED
  BY <1>1, <1>2, <1>3 DEF JournalRests, JournalTypeOK

LEMMA MindNextIInv == MindIInv /\ [Next]_mindVars => MindIInv'
<1> SUFFICES ASSUME MindIInv, [Next]_mindVars PROVE MindIInv'
  OBVIOUS
<1>1. organ' = organ
  BY Turns
<1>2. tick \in Nat /\ tick' \in Nat /\ tick' >= tick
  BY ClockRuns DEF MindIInv
<1>3. IF organ' = "neurogenesis" THEN NeuroIInv' ELSE NeuroRests'
  BY <1>1, <1>2, Turns, NeuroStep, NeuroRestsOn DEF MindIInv
<1>4. IF organ' = "memoria" THEN MemIInv' ELSE MemRests'
  BY <1>1, <1>2, Turns, MemNextIInv, MemRestsOn DEF MindIInv
<1>5. IF organ' = "executive" THEN WillIInv' ELSE WillRests'
  BY <1>1, <1>2, Turns, WillNextIInv, WillRestsOn DEF MindIInv
<1>6. IF organ' = "autonomy" THEN AutoIInv' ELSE AutoRests'
  BY <1>1, <1>2, Turns, AutoStep, AutoRestsOn DEF MindIInv
<1>7. IF organ' = "journal" THEN JournalIInv' ELSE JournalRests'
  BY <1>1, <1>2, Turns, JournalStep, JournalRestsOn DEF MindIInv
<1>8. BrainIInv' /\ AdapterIInv' /\ PredIInv'
  BY Turns, BrainNextIInv, AdapterStep, PredNextIInv DEF MindIInv
<1> QED
  BY <1>2, <1>3, <1>4, <1>5, <1>6, <1>7, <1>8 DEF MindIInv

(* The invariant of the mind is inductive, whichever organ runs. *)
THEOREM MindInductive == Spec => []MindIInv
<1> QED
  BY MindInitIInv, MindNextIInv, PTL DEF Spec
-----------------------------------------------------------------------------
(* No ring, pool, counter or cycle of an organ leaves its range, however   *)
(* long the body lives.                                                    *)
THEOREM MindTypeCorrect == Spec => []TypeOK
<1>1. MindIInv => TypeOK
  <2> SUFFICES ASSUME MindIInv PROVE TypeOK
    OBVIOUS
  <2>1. NeuroTypeOK /\ MemTypeOK /\ WillTypeOK
    BY DEF MindIInv, NeuroRests, MemRests, WillRests, NeuroIInv, MemIInv, WillIInv
  <2>2. AutoTypeOK /\ JournalTypeOK
    BY DEF MindIInv, AutoRests, JournalRests, AutoIInv, JournalIInv
  <2>3. BrainTypeOK /\ AdapterTypeOK /\ PredTypeOK
    BY BrainSafe, PredSafe DEF MindIInv, AdapterIInv
  <2> QED
    BY <2>1, <2>2, <2>3 DEF TypeOK
<1> QED
  BY <1>1, MindInductive, PTL

(* A clone is born of a full run of surprised ticks that no other birth    *)
(* used, it lives through the whole of its trial, and the counters agree   *)
(* with the pool, for every pool, persistence and trial.                   *)
THEOREM BirthsAreNeeded == Spec => BornAndTried
<1>1. MindIInv => births = prunes + Cardinality(Living)
  BY DEF MindIInv, NeuroRests, NeuroIInv
<1>2. MindIInv /\ [Next]_mindVars => [Needed]_neuroVars /\ [Tried]_neuroVars
  <2> SUFFICES ASSUME MindIInv, [Next]_mindVars
               PROVE  [Needed]_neuroVars /\ [Tried]_neuroVars
    OBVIOUS
  <2>1. CASE organ = "neurogenesis"
    BY <2>1, Turns, NeuroStep DEF MindIInv
  <2>2. CASE organ # "neurogenesis"
    <3>1. clone' = clone /\ lastBirth' = lastBirth
      BY <2>2, Turns DEF neuroOwn
    <3> QED
      BY <3>1 DEF Needed, Tried
  <2> QED
    BY <2>1, <2>2
<1> QED
  <2>1. Spec => [](births = prunes + Cardinality(Living))
    BY <1>1, MindInductive, PTL
  <2>2. Spec => [][Needed]_neuroVars
    BY <1>2, MindInductive, PTL DEF Spec
  <2>3. Spec => [][Tried]_neuroVars
    BY <1>2, MindInductive, PTL DEF Spec
  <2> QED
    BY <2>1, <2>2, <2>3, PTL DEF BornAndTried, Needed, Tried

(* What the body stored by itself was new: no older pattern in memory is   *)
(* similar to it, through every wrap, FORGET and STORE.                    *)
THEOREM MemoryHasNoDuplicates == Spec => []NoDuplicates
<1>1. MindIInv => NoDuplicates
  BY DEF MindIInv, MemRests, MemIInv
<1> QED
  BY <1>1, MindInductive, PTL

(* The ring of patterns implements the memory of the last Cap patterns     *)
(* since the last FORGET, for every capacity.                              *)
THEOREM MemoryImplementsRecent == Spec => ImplementsRecent
<1> DEFINE kept == [k \in 1..count |-> <<ticks[Oldest(k)], cells[Oldest(k)]>>]
<1>1. Init => Mem!RecentInit
  <2> SUFFICES ASSUME Init PROVE kept = <<>>
    BY DEF Mem!RecentInit
  <2>1. count = 0
    BY DEF Init, MemInit
  <2> QED
    BY <2>1
<1>2. MindIInv /\ MindIInv' /\ [Next]_mindVars => [Mem!RecentNext]_kept
  <2> SUFFICES ASSUME MindIInv, MindIInv', [Next]_mindVars
               PROVE  Mem!RecentNext \/ kept' = kept
    OBVIOUS
  <2>1. CASE organ = "memoria"
    <3>1. MemIInv /\ MemIInv' /\ [MemNext]_memVars
      BY <2>1, Turns DEF MindIInv
    <3> QED
      BY <3>1, MemImplements
  <2>2. CASE organ # "memoria"
    <3>1. UNCHANGED <<cells, ticks, count, head>>
      BY <2>2, Turns DEF memOwn, ring
    <3>2. kept' = kept
      BY <3>1 DEF Oldest
    <3> QED
      BY <3>2
  <2> QED
    BY <2>1, <2>2
<1> QED
  BY <1>1, <1>2, MindInductive, PTL DEF Spec, ImplementsRecent, Mem!RecentSpec

(* Pain is sovereign: the flight is wanted in pain and only there, and     *)
(* what was learned respects the same line through any history; and every  *)
(* outcome is learned once, as many samples as periods of the clock.       *)
THEOREM WillLearnsOnce == Spec => []WillLearnsRight
<1>1. WillIInv => PainSovereign /\ EveryOutcomeCounts
  BY DEF WillIInv, CountLaw, OutcomesLearned, EveryOutcomeCounts
<1>2. MindIInv => WillLearnsRight
  BY <1>1 DEF MindIInv, WillLearnsRight
<1> QED
  BY <1>2, MindInductive, PTL

(* The fan follows the last reading that left the band of the hysteresis.  *)
THEOREM FanFollows == Spec => []FanLaw
<1>1. MindIInv => FanLaw
  BY DEF MindIInv, AutoRests, AutoIInv, FanAgrees
<1> QED
  BY <1>1, MindInductive, PTL

(* A startle comes right after a quiet tick, with one of them since the    *)
(* startle before and the whole rest in between.                           *)
THEOREM StartlesAreApart == Spec => StartlesApart
<1>1. MindIInv /\ [Next]_mindVars => [Jump]_autoVars
  <2> SUFFICES ASSUME MindIInv, [Next]_mindVars PROVE [Jump]_autoVars
    OBVIOUS
  <2>1. CASE organ = "autonomy"
    BY <2>1, Turns, AutoStep DEF MindIInv
  <2>2. CASE organ # "autonomy"
    <3>1. startle' = startle
      BY <2>2, Turns DEF autoOwn, reflex
    <3> QED
      BY <3>1 DEF Jump
  <2> QED
    BY <2>1, <2>2
<1> QED
  BY <1>1, MindInductive, PTL DEF Spec, StartlesApart, Jump

(* The will hears an answer for three ticks at most and it is the answer   *)
(* to the reading of its own cycle, for every latency of two ticks or more.*)
THEOREM WillHearsFresh == Spec => []WillIsFresh
<1>1. MindIInv => WillIsFresh
  BY BrainSafe DEF MindIInv
<1> QED
  BY <1>1, MindInductive, PTL

(* All the lessons of a cycle carry the word and the error it began with.  *)
THEOREM LessonsAgree == Spec => []CycleIsCoherent
<1>1. MindIInv => CycleIsCoherent
  BY BrainSafe DEF MindIInv
<1> QED
  BY <1>1, MindInductive, PTL

(* Both runtimes keep the contract of the trait, but for its fairness.     *)
THEOREM EngineIsSafe == Spec => Contract!Init /\ [][Contract!Next]_(Contract!vars)
<1>1. Init => Contract!Init
  BY DEF Init, BrainInit, Idle, Contract!Init
<1>2. MindIInv /\ MindIInv' /\ [Next]_mindVars => [Contract!Next]_(Contract!vars)
  BY Turns, BrainImplements DEF MindIInv
<1> QED
  BY <1>1, <1>2, MindInductive, PTL DEF Spec

(* A rank can always be taught, and nothing is learned by a silent body or *)
(* in a moment that is not good.                                           *)
THEOREM AdapterLearnsFromGood == Spec => LearnsFromGood
<1> DEFINE Taught == \A t \in lastPasso' : t.m <= 0 \/ ~t.open => u' <= u /\ v' <= v
<1>1. MindIInv => (u # 0 \/ v # 0)
  BY DEF MindIInv, AdapterIInv
<1>2. MindIInv /\ [Next]_mindVars => [Taught]_adapterOwn
  BY Turns, AdapterStep DEF MindIInv
<1> QED
  BY <1>1, <1>2, MindInductive, PTL DEF Spec, LearnsFromGood

(* A store is forced exactly when the last Trigger steps all found the     *)
(* error rising, through every wrap of the ring of errors.                 *)
THEOREM StoreIsForced == Spec => []ForcedByInsistence
<1>1. MindIInv => ForcedByInsistence
  BY PredSafe DEF MindIInv
<1> QED
  BY <1>1, MindInductive, PTL

(* A sleep goes over the last ExpCap ticks and never comes late, and the   *)
(* dump of a full log is the last LogCap ticks in their order, for every   *)
(* size of the rings and every period of the sleep.                        *)
THEOREM JournalIsLived == Spec => GoesBackToWhatItLived
<1>1. MindIInv => (sleptAt > 0 => slept = LastTicks(ExpCap, sleptAt - 1))
  <2>1. JournalRests => ~(sleptAt > 0)
    BY DEF JournalRests
  <2> QED
    BY <2>1 DEF MindIInv, JournalIInv, SleepLaw
<1>2. MindIInv => (journalPc = "record" => tick - sleptAt < SleepEvery)
  BY DEF MindIInv, JournalIInv, JournalRests, SleepLaw
<1>3. MindIInv /\ [Next]_mindVars => [Tale]_journalVars
  <2> SUFFICES ASSUME MindIInv, [Next]_mindVars PROVE [Tale]_journalVars
    OBVIOUS
  <2>1. CASE organ = "journal"
    BY <2>1, Turns, JournalStep DEF MindIInv
  <2>2. CASE organ # "journal"
    <3>1. dumped' = dumped
      BY <2>2, Turns DEF journalOwn
    <3> QED
      BY <3>1 DEF Tale
  <2> QED
    BY <2>1, <2>2
<1> QED
  BY <1>1, <1>2, <1>3, MindInductive, PTL DEF Spec, GoesBackToWhatItLived, Tale

-----------------------------------------------------------------------------
(* Kernels: element t of row s, and the row and the place of an element. *)
LEMMA PlaceInRow ==
  ASSUME NEW wide \in Nat \ {0}, NEW m \in Nat, NEW s \in 0..(m - 1), NEW t \in 0..(wide - 1)
  PROVE  s * wide + t \in 0..(m * wide - 1) /\ (s * wide + t) \div wide = s /\ (s * wide + t) % wide = t
<1>1. s * wide \in Nat /\ m * wide \in Nat /\ wide * s = s * wide
  <2>1. \A a, b \in Nat : a * b \in Nat /\ a * b = b * a
    OBVIOUS
  <2> QED
    BY <2>1
<1>2. s * wide + wide <= m * wide
  <2>1. m - s \in Nat /\ m - s >= 1
    OBVIOUS
  <2>2. \A d \in Nat : d >= 1 => d * wide >= wide
    OBVIOUS
  <2>3. (m - s) * wide = m * wide - s * wide
    OBVIOUS
  <2>4. (m - s) * wide >= wide
    BY <2>1, <2>2
  <2> QED
    BY <1>1, <2>3, <2>4
<1> DEFINE y == s * wide + t
<1>3. y \in Int /\ y = wide * s + t
  BY <1>1
<1> HIDE DEF y
<1>4. y % wide = t /\ y \div wide = s
  BY <1>3, RemainderIsUnique
<1>5. s * wide + t \in 0..(m * wide - 1)
  BY <1>1, <1>2
<1> QED
  BY <1>4, <1>5 DEF y

LEMMA RowOfPlace ==
  ASSUME NEW wide \in Nat \ {0}, NEW m \in Nat, NEW i \in 0..(m * wide - 1)
  PROVE  i \div wide \in 0..(m - 1) /\ i % wide \in 0..(wide - 1) /\ i = (i \div wide) * wide + (i % wide)
<1> DEFINE q == i \div wide
           r == i % wide
<1>0. m * wide \in Nat
  <2>1. \A a, b \in Nat : a * b \in Nat
    OBVIOUS
  <2> QED
    BY <2>1
<1>1. q \in Int /\ r \in 0..(wide - 1) /\ i = wide * q + r /\ i \in Nat
  BY <1>0
<1> HIDE DEF q, r
<1>2. i = q * wide + r
  <2>1. wide * q = q * wide
    BY <1>1
  <2> QED
    BY <1>1, <2>1
<1>3. q >= 0
  <2>1. q <= -1 => q * wide <= -wide
    BY <1>1
  <2>2. q * wide \in Int
    BY <1>1
  <2> QED
    BY <1>1, <1>2, <2>1, <2>2
<1>4. q < m
  <2>1. q >= m => q * wide >= m * wide
    <3>1. q - m \in Int /\ (q - m) * wide = q * wide - m * wide
      BY <1>1
    <3>2. \A d \in Nat : d * wide \in Nat
      OBVIOUS
    <3>3. q >= m => q - m \in Nat
      BY <1>1
    <3>4. q * wide \in Int
      BY <1>1
    <3> QED
      BY <1>0, <3>1, <3>2, <3>3, <3>4
  <2>2. q * wide \in Int
    BY <1>1
  <2> QED
    BY <1>0, <1>1, <1>2, <2>1, <2>2
<1>5. i \div wide = q /\ i % wide = r
  BY DEF q, r
<1>6. q \in 0..(m - 1)
  BY <1>1, <1>3, <1>4
<1> QED
  BY ONLY <1>1, <1>2, <1>5, <1>6

\* Every element of row s of the buffer depends on V[s].
RowsSee(buffer, V, m, wide) == \A s \in 0..(m - 1) : \A t \in 0..(wide - 1) : buffer[s * wide + t] = V[s]

\* And every element of an output of rows of wide.
OutputSees(f, V, m, wide) == \A k \in 0..(m * wide - 1) : f[k] = V[k \div wide]

\* A position depends on itself.
Own == [s \in Nat |-> {s}]

(* A matmul whose rows depend on V[s] in every element depends on V[s] in  *)
(* every output of row s.                                                  *)
LEMMA MatmulSees ==
  ASSUME NEW buffer, NEW V, NEW m \in Nat, NEW nIn \in Nat \ {0}, NEW nOut \in Nat \ {0},
         RowsSee(buffer, V, m, nIn)
  PROVE  OutputSees(Matmul(buffer, m, nIn, nOut), V, m, nOut)
<1> SUFFICES ASSUME NEW k \in 0..(m * nOut - 1)
             PROVE  Matmul(buffer, m, nIn, nOut)[k] = V[k \div nOut]
  BY DEF OutputSees
<1>1. PICK s \in 0..(m - 1) : k \div nOut = s
  BY RowOfPlace
<1>2. Matmul(buffer, m, nIn, nOut)[k] = RowSees(buffer, s, nIn)
  BY <1>1 DEF Matmul
<1>3. RowSees(buffer, s, nIn) = V[s]
  <2>1. RowSees(buffer, s, nIn) = UNION {buffer[s * nIn + t] : t \in 0..(nIn - 1)}
    BY DEF RowSees
  <2>2. \A t \in 0..(nIn - 1) : buffer[s * nIn + t] = V[s]
    BY DEF RowsSee
  <2>3. 0 \in 0..(nIn - 1)
    OBVIOUS
  <2> QED
    BY ONLY <2>1, <2>2, <2>3, Zenon
<1> QED
  BY <1>1, <1>2, <1>3

LEMMA GreatestOfTwo ==
  ASSUME NEW a \in Int, NEW b \in Int
  PROVE  Max({a, b}) = (IF a >= b THEN a ELSE b)
<1> DEFINE g == IF a >= b THEN a ELSE b
<1>1. g \in {a, b} /\ \A y \in {a, b} : g >= y
  OBVIOUS
<1>2. \A x \in {a, b} : (\A y \in {a, b} : x >= y) => x = g
  OBVIOUS
<1> HIDE DEF g
<1>3. Max({a, b}) = g
  BY <1>1, <1>2 DEF Max
<1> QED
  BY <1>3 DEF g

LEMMA LeastOfTwo ==
  ASSUME NEW a \in Int, NEW b \in Int
  PROVE  Min({a, b}) = (IF a <= b THEN a ELSE b)
<1> DEFINE g == IF a <= b THEN a ELSE b
<1>1. g \in {a, b} /\ \A y \in {a, b} : g <= y
  OBVIOUS
<1>2. \A x \in {a, b} : (\A y \in {a, b} : x <= y) => x = g
  OBVIOUS
<1> HIDE DEF g
<1>3. Min({a, b}) = g
  BY <1>1, <1>2 DEF Min
<1> QED
  BY <1>3 DEF g

(* What a row of the input, or of what a matmul made of it, depends on:    *)
(* the position of the row.                                                *)
LEMMA ProjectionSees ==
  ASSUME NEW m \in Nat, NEW wide \in Nat \ {0}, NEW nOut \in Nat \ {0}
  PROVE  OutputSees(Matmul([i \in 0..(m * wide - 1) |-> {i \div wide}], m, wide, nOut), Own, m, nOut)
<1> DEFINE x == [i \in 0..(m * wide - 1) |-> {i \div wide}]
<1>1. \A s \in 0..(m - 1) : \A t \in 0..(wide - 1) : x[s * wide + t] = {s}
  BY PlaceInRow
<1> HIDE DEF x
<1>2. RowsSee(x, Own, m, wide)
  BY <1>1 DEF RowsSee, Own
<1>3. OutputSees(Matmul(x, m, wide, nOut), Own, m, nOut)
  BY <1>2, MatmulSees
<1> QED
  BY <1>3 DEF x

LEMMA ProjectionElement ==
  ASSUME NEW m \in Nat, NEW wide \in Nat \ {0}, NEW f, OutputSees(f, Own, m, wide)
  PROVE  \A k \in 0..(m * wide - 1) : f[k] = {k \div wide}
<1> SUFFICES ASSUME NEW k \in 0..(m * wide - 1) PROVE f[k] = {k \div wide}
  OBVIOUS
<1>1. k \div wide \in Nat
  BY RowOfPlace
<1>2. f[k] = Own[k \div wide]
  BY DEF OutputSees
<1> DEFINE r == k \div wide
<1>3. r \in Nat /\ f[k] = Own[r]
  BY <1>1, <1>2
<1> HIDE DEF r
<1>4. f[k] = {r}
  BY <1>3 DEF Own
<1> QED
  BY <1>4 DEF r

(* An output of attention sees its window of the reach. *)
LEMMA AttentionSees ==
  ASSUME NEW w \in Shapes, NEW i \in 0..(w.seq * w.heads - 1)
  PROVE  Attention(w)[i] = Max({0, (i \div w.heads) - w.window})..(i \div w.heads)
<1> DEFINE m == w.seq
           wide == w.heads
           groups == w.kv
           d == w.dim
           reach == w.window
           x == [c \in 0..(m * d - 1) |-> {c \div d}]
           q == Matmul(x, m, d, wide)
           k == Matmul(x, m, d, groups)
           Past(s) == {j \in 0..(m - 1) : Visible(s, j, reach)}
           out == [a \in 0..(m * wide - 1) |->
                     LET s == a \div wide
                         g == (a % wide) % groups
                     IN q[a] \cup UNION {k[j * groups + g] : j \in Past(s)}]
           V == [s \in 0..(m - 1) |-> Max({0, s - reach})..s]
<1>1. /\ m \in Nat \ {0} /\ wide \in Nat \ {0} /\ groups \in Nat \ {0} /\ d \in Nat \ {0}
      /\ reach \in Nat /\ i \in 0..(m * wide - 1)
  BY KernelsAssumption
<1>2. Attention(w) = Matmul(out, m, wide, wide)
  BY DEF Attention
<1> SUFFICES Matmul(out, m, wide, wide)[i] = Max({0, (i \div wide) - reach})..(i \div wide)
  BY <1>2
<1> HIDE DEF m, wide, groups, d, reach
<1>2a. OutputSees(q, Own, m, wide) /\ OutputSees(k, Own, m, groups)
  BY <1>1, ProjectionSees
<1> HIDE DEF x, q, k
<1>3. \A a \in 0..(m * wide - 1) : q[a] = {a \div wide}
  BY <1>1, <1>2a, ProjectionElement
<1>4. \A a \in 0..(m * groups - 1) : k[a] = {a \div groups}
  BY <1>1, <1>2a, ProjectionElement
<1>5. ASSUME NEW s \in 0..(m - 1)
      PROVE  {s} \cup Past(s) = V[s]
  <2>1. Max({0, s - reach}) = IF 0 >= s - reach THEN 0 ELSE s - reach
    BY <1>1, GreatestOfTwo
  <2>2. \A j \in Int : j \in {s} \cup Past(s) <=> j \in V[s]
    BY <1>1, <2>1 DEF Visible
  <2>3. {s} \cup Past(s) \subseteq Int
    BY <1>1
  <2>4. V[s] \subseteq Int
    BY <1>1, <2>1
  <2> HIDE DEF Past, V
  <2> QED
    BY ONLY <2>2, <2>3, <2>4, Zenon
<1>6. ASSUME NEW s \in 0..(m - 1), NEW t \in 0..(wide - 1)
      PROVE  out[s * wide + t] = V[s]
  <2> DEFINE a == s * wide + t
             g == (a % wide) % groups
  <2>1. a \in 0..(m * wide - 1) /\ a \div wide = s /\ a % wide = t
    BY <1>1, PlaceInRow
  <2>2. g \in 0..(groups - 1)
    <3>1. \A c \in Nat \ {0} : t % c \in 0..(c - 1)
      OBVIOUS
    <3> QED
      BY <1>1, <2>1, <3>1
  <2> HIDE DEF a, g
  <2>3. out[a] = q[a] \cup UNION {k[j * groups + g] : j \in Past(s)}
    <3>1. out[a] = q[a] \cup UNION {k[j * groups + ((a % wide) % groups)] : j \in Past(a \div wide)}
      BY <2>1
    <3> HIDE DEF out, Past
    <3> QED
      BY <2>1, <3>1 DEF g
  <2>4. ASSUME NEW j \in 0..(m - 1) PROVE k[j * groups + g] = {j}
    <3>1. j * groups + g \in 0..(m * groups - 1) /\ (j * groups + g) \div groups = j
      BY <1>1, <2>2, PlaceInRow
    <3> QED
      BY <1>4, <3>1
  <2>5. \A j \in Past(s) : k[j * groups + g] = {j}
    BY <2>4
  <2> HIDE DEF Past, V, out
  <2>6. UNION {k[j * groups + g] : j \in Past(s)} = Past(s)
    <3> DEFINE P == Past(s)
    <3>1. \A j \in P : k[j * groups + g] = {j}
      BY <2>5
    <3> HIDE DEF P
    <3>2. \A z : z \in UNION {k[j * groups + g] : j \in P} <=> z \in P
      BY ONLY <3>1
    <3>3. UNION {k[j * groups + g] : j \in P} = P
      BY ONLY <3>2
    <3> QED
      BY <3>3 DEF P
  <2>7. q[a] = {s}
    BY <1>3, <2>1
  <2>8. out[a] = {s} \cup Past(s)
    BY <2>3, <2>6, <2>7
  <2>9. {s} \cup Past(s) = V[s]
    BY <1>5
  <2> QED
    BY <2>8, <2>9 DEF a
<1>7. i \div wide \in 0..(m - 1) /\ V[i \div wide] = Max({0, (i \div wide) - reach})..(i \div wide)
  <2>1. i \div wide \in 0..(m - 1)
    BY <1>1, RowOfPlace
  <2> QED
    BY <2>1
<1> HIDE DEF out, V
<1>8. RowsSee(out, V, m, wide)
  BY <1>6 DEF RowsSee
<1>9. Matmul(out, m, wide, wide)[i] = V[i \div wide]
  <2>1. OutputSees(Matmul(out, m, wide, wide), V, m, wide)
    BY <1>1, <1>8, MatmulSees
  <2> QED
    BY <1>1, <2>1 DEF OutputSees
<1> QED
  BY <1>7, <1>9

(* An output of the convolution sees its neighbours. *)
LEMMA ShortconvSees ==
  ASSUME NEW w \in Shapes, NEW i \in 0..(w.seq * w.heads - 1)
  PROVE  Shortconv(w)[i]
           = Max({0, (i \div w.heads) - 1})..Min({w.seq - 1, (i \div w.heads) + 1})
<1> DEFINE m == w.seq
           wide == w.heads
           d == w.dim
           x == [c \in 0..(m * d - 1) |-> {c \div d}]
           bcx == Matmul(x, m, d, 3 * wide)
           bx == [a \in 0..(m * wide - 1) |->
                    bcx[(a \div wide) * 3 * wide + (a % wide)] \cup bcx[(a \div wide) * 3 * wide + 2 * wide + (a % wide)]]
           y == [a \in 0..(m * wide - 1) |->
                   LET s == a \div wide IN
                   bcx[s * 3 * wide + wide + (a % wide)] \cup bx[a]
                   \cup (IF s + 1 < m THEN bx[a + wide] ELSE {})
                   \cup (IF s > 0 THEN bx[a - wide] ELSE {})]
           V == [s \in 0..(m - 1) |-> Max({0, s - 1})..Min({m - 1, s + 1})]
<1>1. /\ m \in Nat \ {0} /\ wide \in Nat \ {0} /\ d \in Nat \ {0} /\ 3 * wide \in Nat \ {0}
      /\ i \in 0..(m * wide - 1)
  BY KernelsAssumption
<1>2. Shortconv(w) = Matmul(y, m, wide, wide)
  BY DEF Shortconv
<1> SUFFICES Matmul(y, m, wide, wide)[i] = Max({0, (i \div wide) - 1})..Min({m - 1, (i \div wide) + 1})
  BY <1>2
<1> HIDE DEF m, wide, d
<1>3. \A a \in 0..(m * (3 * wide) - 1) : bcx[a] = {a \div (3 * wide)}
  <2> DEFINE w3 == 3 * wide
  <2>1. w3 \in Nat \ {0} /\ bcx = Matmul(x, m, d, w3)
    BY <1>1
  <2> HIDE DEF w3, bcx
  <2>2. OutputSees(bcx, Own, m, w3)
    BY <1>1, <2>1, ProjectionSees
  <2>3. \A a \in 0..(m * w3 - 1) : bcx[a] = {a \div w3}
    <3>1. m \in Nat /\ w3 \in Nat \ {0}
      BY <1>1, <2>1
    <3> QED
      BY ONLY <2>2, <3>1, ProjectionElement
  <2> QED
    BY <2>3 DEF w3
<1> HIDE DEF x, bcx
<1>4. ASSUME NEW s \in 0..(m - 1), NEW t \in 0..(wide - 1)
      PROVE  /\ bcx[s * 3 * wide + t] = {s} /\ bcx[s * 3 * wide + wide + t] = {s}
             /\ bcx[s * 3 * wide + 2 * wide + t] = {s}
  <2>1. t \in 0..(3 * wide - 1) /\ wide + t \in 0..(3 * wide - 1) /\ 2 * wide + t \in 0..(3 * wide - 1)
    BY <1>1
  <2>2. ASSUME NEW r \in 0..(3 * wide - 1) PROVE bcx[s * (3 * wide) + r] = {s}
    <3> DEFINE w3 == 3 * wide
    <3>1. w3 \in Nat \ {0} /\ r \in 0..(w3 - 1)
      BY <1>1
    <3> HIDE DEF w3
    <3>2. s * w3 + r \in 0..(m * w3 - 1) /\ (s * w3 + r) \div w3 = s
      BY <1>1, <3>1, PlaceInRow
    <3>3. s * (3 * wide) + r \in 0..(m * (3 * wide) - 1) /\ (s * (3 * wide) + r) \div (3 * wide) = s
      BY <3>2 DEF w3
    <3> QED
      BY <1>3, <3>3
  <2>3. s * 3 * wide = s * (3 * wide) /\ s * (3 * wide) \in Int
    BY <1>1
  <2>4. /\ bcx[s * (3 * wide) + t] = {s} /\ bcx[s * (3 * wide) + (wide + t)] = {s}
        /\ bcx[s * (3 * wide) + (2 * wide + t)] = {s}
    BY <2>1, <2>2
  <2>5. \A c \in Int : c + (wide + t) = c + wide + t /\ c + (2 * wide + t) = c + 2 * wide + t
    BY <1>1
  <2> QED
    BY <2>3, <2>4, <2>5
<1>5. ASSUME NEW s \in 0..(m - 1), NEW t \in 0..(wide - 1)
      PROVE  bx[s * wide + t] = {s}
  <2> DEFINE a == s * wide + t
  <2>1. a \in 0..(m * wide - 1) /\ a \div wide = s /\ a % wide = t
    BY <1>1, PlaceInRow
  <2> HIDE DEF a
  <2>2. bx[a] = bcx[(a \div wide) * 3 * wide + (a % wide)] \cup bcx[(a \div wide) * 3 * wide + 2 * wide + (a % wide)]
    BY <2>1
  <2> HIDE DEF bx
  <2>3. bx[a] = bcx[s * 3 * wide + t] \cup bcx[s * 3 * wide + 2 * wide + t]
    BY <2>1, <2>2
  <2> QED
    BY <1>4, <2>3 DEF a
<1>6. ASSUME NEW s \in 0..(m - 1)
      PROVE  V[s] = ({s} \cup {s} \cup (IF s + 1 < m THEN {s + 1} ELSE {})
                         \cup (IF s > 0 THEN {s - 1} ELSE {}))
  <2>1. /\ Max({0, s - 1}) = IF 0 >= s - 1 THEN 0 ELSE s - 1
        /\ Min({m - 1, s + 1}) = IF m - 1 <= s + 1 THEN m - 1 ELSE s + 1
    BY <1>1, GreatestOfTwo, LeastOfTwo
  <2> DEFINE lo == IF 0 >= s - 1 THEN 0 ELSE s - 1
             hi == IF m - 1 <= s + 1 THEN m - 1 ELSE s + 1
             W == {s} \cup {s} \cup (IF s + 1 < m THEN {s + 1} ELSE {})
                      \cup (IF s > 0 THEN {s - 1} ELSE {})
  <2>2. V[s] = lo..hi
    BY <2>1
  <2>3. lo \in Int /\ hi \in Int /\ lo..hi \subseteq Int /\ W \subseteq Int
    BY <1>1
  <2>4. ASSUME NEW z \in Int PROVE z \in lo..hi <=> z \in W
    <3>1. z \in lo..hi <=> z >= lo /\ z <= hi
      BY <2>3
    <3>2. z \in W <=> z = s \/ (s + 1 < m /\ z = s + 1) \/ (s > 0 /\ z = s - 1)
      OBVIOUS
    <3>3. z >= lo /\ z <= hi <=> z = s \/ (s + 1 < m /\ z = s + 1) \/ (s > 0 /\ z = s - 1)
      BY <1>1
    <3> QED
      BY ONLY <3>1, <3>2, <3>3
  <2> HIDE DEF lo, hi, W, V
  <2>5. lo..hi = W
    BY ONLY <2>3, <2>4, Zenon
  <2> QED
    BY <2>2, <2>5 DEF W
<1>7. ASSUME NEW s \in 0..(m - 1), NEW t \in 0..(wide - 1)
      PROVE  y[s * wide + t] = V[s]
  <2> DEFINE a == s * wide + t
  <2>1. a \in 0..(m * wide - 1) /\ a \div wide = s /\ a % wide = t
    BY <1>1, PlaceInRow
  <2> HIDE DEF bx, V
  <2>2. y[a] = bcx[(a \div wide) * 3 * wide + wide + (a % wide)] \cup bx[a]
               \cup (IF (a \div wide) + 1 < m THEN bx[a + wide] ELSE {})
               \cup (IF (a \div wide) > 0 THEN bx[a - wide] ELSE {})
    <3> HIDE DEF a
    <3> QED
      BY <2>1
  <2> HIDE DEF y
  <2>3. y[a] = bcx[s * 3 * wide + wide + t] \cup bx[a]
               \cup (IF s + 1 < m THEN bx[a + wide] ELSE {})
               \cup (IF s > 0 THEN bx[a - wide] ELSE {})
    <3> HIDE DEF a
    <3> QED
      BY ONLY <2>1, <2>2
  <2>4. bcx[s * 3 * wide + wide + t] = {s} /\ bx[a] = {s}
    BY <1>4, <1>5
  <2>5. s + 1 < m => bx[a + wide] = {s + 1}
    <3>1. a + wide = (s + 1) * wide + t
      BY <1>1
    <3>2. s + 1 < m => s + 1 \in 0..(m - 1)
      BY <1>1
    <3> HIDE DEF a
    <3> QED
      BY <1>5, <3>1, <3>2
  <2>6. s > 0 => bx[a - wide] = {s - 1}
    <3>1. a - wide = (s - 1) * wide + t
      BY <1>1
    <3>2. s > 0 => s - 1 \in 0..(m - 1)
      BY <1>1
    <3> HIDE DEF a
    <3> QED
      BY <1>5, <3>1, <3>2
  <2> HIDE DEF a
  <2>7. y[a] = {s} \cup {s} \cup (IF s + 1 < m THEN {s + 1} ELSE {})
                  \cup (IF s > 0 THEN {s - 1} ELSE {})
    BY ONLY <2>3, <2>4, <2>5, <2>6
  <2> QED
    BY <1>6, <2>7 DEF a
<1>8. i \div wide \in 0..(m - 1) /\ V[i \div wide] = Max({0, (i \div wide) - 1})..Min({m - 1, (i \div wide) + 1})
  <2>1. i \div wide \in 0..(m - 1)
    BY <1>1, RowOfPlace
  <2> QED
    BY <2>1
<1> HIDE DEF y, V
<1>9. RowsSee(y, V, m, wide)
  BY <1>7 DEF RowsSee
<1>10. Matmul(y, m, wide, wide)[i] = V[i \div wide]
  <2>1. OutputSees(Matmul(y, m, wide, wide), V, m, wide)
    BY <1>1, <1>9, MatmulSees
  <2> QED
    BY <1>1, <2>1 DEF OutputSees
<1> QED
  BY <1>8, <1>10

(* The blocks of quantised weights: byte l of group j gives two weights. *)
LowOf(b, j, l) == Term(256 * b + 64 * j + l, 32 * j + l, FALSE, 2 * j)
HighOf(b, j, l) == Term(256 * b + 64 * j + 32 + l, 32 * j + l, TRUE, 2 * j + 1)
Low(j, l) == Term(64 * j + l, 32 * j + l, FALSE, 2 * j)
High(j, l) == Term(64 * j + 32 + l, 32 * j + l, TRUE, 2 * j + 1)

LEMMA TermsOfQ4K ==
  \A t : t \in DequantQ4K <=> \E j \in 0..3, l \in 0..31 : t = Low(j, l) \/ t = High(j, l)
<1> DEFINE J == 0..3
           L == 0..31
<1>1. DequantQ4K = UNION {{Low(j, l) : l \in L} \cup {High(j, l) : l \in L} : j \in J}
  BY DEF DequantQ4K, Low, High
<1> HIDE DEF J, L
<1>2. \A t : t \in DequantQ4K <=> \E j \in J, l \in L : t = Low(j, l) \/ t = High(j, l)
  BY ONLY <1>1
<1> QED
  BY ONLY <1>2 DEF J, L

LEMMA TermsOfMatmul ==
  ASSUME NEW b
  PROVE  \A t : t \in MatmulQ4K(b)
                <=> \E j \in 0..3, l \in 0..31 : t = LowOf(b, j, l) \/ t = HighOf(b, j, l)
<1> DEFINE J == 0..3
           L == 0..31
           M == MatmulQ4K(b)
<1>1. M = UNION {{LowOf(b, j, l) : l \in L} \cup {HighOf(b, j, l) : l \in L} : j \in J}
  BY DEF MatmulQ4K, LowOf, HighOf
<1> HIDE DEF J, L, M
<1>2. \A t : t \in M <=> \E j \in J, l \in L : t = LowOf(b, j, l) \/ t = HighOf(b, j, l)
  BY ONLY <1>1
<1> QED
  BY ONLY <1>2 DEF J, L, M

LEMMA SameInline ==
  ASSUME NEW b \in 0..1
  PROVE  MatmulQ4K(b) = {[t EXCEPT !.element = @ + 256 * b] : t \in DequantQ4K}
<1> DEFINE Moved(t) == [t EXCEPT !.element = @ + 256 * b]
           J == 0..3
           L == 0..31
<1>1. ASSUME NEW j \in J, NEW l \in L
      PROVE  Moved(Low(j, l)) = LowOf(b, j, l) /\ Moved(High(j, l)) = HighOf(b, j, l)
  <2>1. ASSUME NEW e, NEW c, NEW h, NEW z, NEW t, t = Term(e, c, h, z)
        PROVE  Moved(t) = Term(e + 256 * b, c, h, z)
    BY <2>1 DEF Term
  <2>2. /\ (64 * j + l) + 256 * b = 256 * b + 64 * j + l
        /\ (64 * j + 32 + l) + 256 * b = 256 * b + 64 * j + 32 + l
    OBVIOUS
  <2> HIDE DEF Moved
  <2>3. Moved(Low(j, l)) = LowOf(b, j, l)
    <3>1. PICK e, c, z : e = 64 * j + l /\ c = 32 * j + l /\ z = 2 * j
      OBVIOUS
    <3>2. Low(j, l) = Term(e, c, FALSE, z)
      BY <3>1 DEF Low
    <3>3. Moved(Low(j, l)) = Term(e + 256 * b, c, FALSE, z)
      <4>1. PICK h : h = FALSE
        OBVIOUS
      <4>2. Low(j, l) = Term(e, c, h, z)
        BY <3>2, <4>1, Zenon
      <4>3. Moved(Low(j, l)) = Term(e + 256 * b, c, h, z)
        BY ONLY <2>1, <4>2
      <4> QED
        BY <4>1, <4>3, Zenon
    <3>4. e + 256 * b = 256 * b + 64 * j + l
      BY <2>2, <3>1
    <3> QED
      BY ONLY <3>1, <3>3, <3>4 DEF LowOf
  <2>4. Moved(High(j, l)) = HighOf(b, j, l)
    <3>1. PICK e, c, z : e = 64 * j + 32 + l /\ c = 32 * j + l /\ z = 2 * j + 1
      OBVIOUS
    <3>2. High(j, l) = Term(e, c, TRUE, z)
      BY <3>1 DEF High
    <3>3. Moved(High(j, l)) = Term(e + 256 * b, c, TRUE, z)
      <4>1. PICK h : h = TRUE
        OBVIOUS
      <4>2. High(j, l) = Term(e, c, h, z)
        BY <3>2, <4>1, Zenon
      <4>3. Moved(High(j, l)) = Term(e + 256 * b, c, h, z)
        BY ONLY <2>1, <4>2
      <4> QED
        BY <4>1, <4>3, Zenon
    <3>4. e + 256 * b = 256 * b + 64 * j + 32 + l
      BY <2>2, <3>1
    <3> QED
      BY ONLY <3>1, <3>3, <3>4 DEF HighOf
  <2> QED
    BY <2>3, <2>4
<1>2. /\ \A t : t \in DequantQ4K <=> \E j \in J, l \in L : t = Low(j, l) \/ t = High(j, l)
      /\ \A t : t \in MatmulQ4K(b) <=> \E j \in J, l \in L : t = LowOf(b, j, l) \/ t = HighOf(b, j, l)
  BY TermsOfQ4K, TermsOfMatmul
<1> HIDE DEF Moved, J, L
<1>3. \A z \in MatmulQ4K(b) : \E t \in DequantQ4K : z = Moved(t)
  BY ONLY <1>1, <1>2
<1>4. \A t \in DequantQ4K : Moved(t) \in MatmulQ4K(b)
  BY ONLY <1>1, <1>2
<1>5. MatmulQ4K(b) = {Moved(t) : t \in DequantQ4K}
  BY ONLY <1>3, <1>4
<1> QED
  BY <1>5 DEF Moved

LEMMA FieldsOfTerms ==
  ASSUME NEW j \in 0..3, NEW l \in 0..31
  PROVE  /\ Low(j, l).element = 64 * j + l /\ Low(j, l).byte = 32 * j + l
         /\ Low(j, l).high = FALSE /\ Low(j, l).scale = 2 * j
         /\ High(j, l).element = 64 * j + 32 + l /\ High(j, l).byte = 32 * j + l
         /\ High(j, l).high = TRUE /\ High(j, l).scale = 2 * j + 1
         /\ Low(j, l) \in DequantQ4K /\ High(j, l) \in DequantQ4K
<1>1. Low(j, l) \in DequantQ4K /\ High(j, l) \in DequantQ4K
  BY TermsOfQ4K
<1> QED
  BY <1>1 DEF Low, High, Term

(* Where weight e of a block is. *)
LEMMA WeightIsRead ==
  /\ \A t \in DequantQ4K : /\ t.element \in 0..255 /\ t.byte \in 0..127 /\ t.high \in BOOLEAN
                           /\ t.scale = t.element \div 32
  /\ \A e \in 0..255 : \E t \in DequantQ4K : t.element = e
  /\ \A c \in 0..127, h \in BOOLEAN : \E t \in DequantQ4K : t.byte = c /\ t.high = h
<1>1. ASSUME NEW j \in 0..3, NEW l \in 0..31
      PROVE  /\ 64 * j + l \in 0..255 /\ 64 * j + 32 + l \in 0..255 /\ 32 * j + l \in 0..127
             /\ (64 * j + l) \div 32 = 2 * j /\ (64 * j + 32 + l) \div 32 = 2 * j + 1
  OBVIOUS
<1>2. ASSUME NEW t \in DequantQ4K
      PROVE  /\ t.element \in 0..255 /\ t.byte \in 0..127 /\ t.high \in BOOLEAN
             /\ t.scale = t.element \div 32
  <2>1. PICK j \in 0..3, l \in 0..31 : t = Low(j, l) \/ t = High(j, l)
    BY TermsOfQ4K
  <2>2. CASE t = Low(j, l)
    <3>1. /\ t.element = 64 * j + l /\ t.byte = 32 * j + l /\ t.high = FALSE /\ t.scale = 2 * j
      BY <2>2, FieldsOfTerms
    <3>2. t.high \in BOOLEAN
      BY <3>1
    <3>3. t.element \in 0..255 /\ t.byte \in 0..127 /\ t.scale = t.element \div 32
      <4> DEFINE e == 64 * j + l
                 c == 32 * j + l
      <4>1. e \in 0..255 /\ c \in 0..127 /\ e \div 32 = 2 * j
        BY <1>1
      <4>2. t.element = e /\ t.byte = c /\ t.scale = 2 * j
        BY <3>1
      <4> HIDE DEF e, c
      <4> QED
        BY ONLY <4>1, <4>2
    <3> QED
      BY <3>2, <3>3
  <2>3. CASE t = High(j, l)
    <3>1. /\ t.element = 64 * j + 32 + l /\ t.byte = 32 * j + l /\ t.high = TRUE
          /\ t.scale = 2 * j + 1
      BY <2>3, FieldsOfTerms
    <3>2. t.high \in BOOLEAN
      BY <3>1
    <3>3. t.element \in 0..255 /\ t.byte \in 0..127 /\ t.scale = t.element \div 32
      <4> DEFINE e == 64 * j + 32 + l
                 c == 32 * j + l
      <4>1. e \in 0..255 /\ c \in 0..127 /\ e \div 32 = 2 * j + 1
        BY <1>1
      <4>2. t.element = e /\ t.byte = c /\ t.scale = 2 * j + 1
        BY <3>1
      <4> HIDE DEF e, c
      <4> QED
        BY ONLY <4>1, <4>2
    <3> QED
      BY <3>2, <3>3
  <2> QED
    BY <2>1, <2>2, <2>3
<1>3. ASSUME NEW e \in 0..255 PROVE \E t \in DequantQ4K : t.element = e
  <2>1. \E j \in 0..3, l \in 0..31 : e = 64 * j + l \/ e = 64 * j + 32 + l
    <3>1. e = 64 * (e \div 64) + (e % 64) /\ e \div 64 \in 0..3 /\ e % 64 \in 0..63
      OBVIOUS
    <3>2. CASE e % 64 < 32
      <4>1. e % 64 \in 0..31
        BY <3>1, <3>2
      <4> QED
        BY <3>1, <4>1
    <3>3. CASE ~(e % 64 < 32)
      <4>1. (e % 64) - 32 \in 0..31 /\ e = 64 * (e \div 64) + 32 + ((e % 64) - 32)
        BY <3>1, <3>3
      <4> QED
        BY <3>1, <4>1
    <3> QED
      BY <3>2, <3>3
  <2>2. PICK j \in 0..3, l \in 0..31 : e = 64 * j + l \/ e = 64 * j + 32 + l
    BY <2>1
  <2> QED
    BY <2>2, FieldsOfTerms
<1>4. ASSUME NEW c \in 0..127, NEW h \in BOOLEAN
      PROVE  \E t \in DequantQ4K : t.byte = c /\ t.high = h
  <2>1. PICK j \in 0..3, l \in 0..31 : c = 32 * j + l
    <3>1. c = 32 * (c \div 32) + (c % 32) /\ c \div 32 \in 0..3 /\ c % 32 \in 0..31
      OBVIOUS
    <3> QED
      BY <3>1
  <2>2. /\ Low(j, l) \in DequantQ4K /\ Low(j, l).byte = c /\ Low(j, l).high = FALSE
        /\ High(j, l) \in DequantQ4K /\ High(j, l).byte = c /\ High(j, l).high = TRUE
    BY <2>1, FieldsOfTerms
  <2>3. CASE h = TRUE
    BY ONLY <2>2, <2>3
  <2>4. CASE h = FALSE
    BY ONLY <2>2, <2>4
  <2> QED
    BY <2>3, <2>4
<1> QED
  BY <1>2, <1>3, <1>4

LEMMA Q4KIsWhole ==
  /\ {t.element : t \in DequantQ4K} = 0..255
  /\ {<<t.byte, t.high>> : t \in DequantQ4K} = (0..127) \X BOOLEAN
  /\ \A t \in DequantQ4K : t.scale = t.element \div 32
<1> DEFINE D == DequantQ4K
           E == 0..255
           B == 0..127
<1>1. /\ \A t \in D : t.element \in E /\ t.byte \in B /\ t.high \in BOOLEAN
      /\ \A e \in E : \E t \in D : t.element = e
      /\ \A c \in B, h \in BOOLEAN : \E t \in D : t.byte = c /\ t.high = h
  BY WeightIsRead
<1> HIDE DEF D, E, B
<1>2. {t.element : t \in D} = E
  BY ONLY <1>1
<1>3. {<<t.byte, t.high>> : t \in D} = B \X BOOLEAN
  BY ONLY <1>1
<1>4. \A t \in DequantQ4K : t.scale = t.element \div 32
  BY WeightIsRead
<1> QED
  BY <1>2, <1>3, <1>4 DEF D, E, B

(* The same for the blocks of six bits, whose quants are split in two. *)
Six(b, wide, l, k) ==
  [element |-> 256 * b + 128 * wide + 32 * k + l,
   low     |-> <<64 * wide + l + 32 * (k % 2), k \div 2>>,
   top     |-> <<32 * wide + l, k>>,
   scale   |-> 8 * wide + l \div 16 + 2 * k]

LEMMA TermsOfQ6 ==
  ASSUME NEW b
  PROVE  \A t : t \in Q6(b) <=> \E wide \in 0..1, l \in 0..31, k \in 0..3 : t = Six(b, wide, l, k)
<1> DEFINE N == 0..1
           L == 0..31
           K == 0..3
           M == Q6(b)
<1>1. M = UNION {UNION {{Six(b, wide, l, k) : k \in K} : l \in L} : wide \in N}
  BY DEF Q6, Six
<1> HIDE DEF N, L, K, M
<1>2. \A t : t \in M <=> \E wide \in N, l \in L, k \in K : t = Six(b, wide, l, k)
  BY ONLY <1>1
<1> QED
  BY ONLY <1>2 DEF N, L, K, M

LEMMA Q6Elements == {t.element : t \in Q6(1)} = 256..511
<1>0. PICK b \in 0..1 : b = 1
  OBVIOUS
<1> DEFINE D == Q6(b)
           E == 256..511
<1>1. ASSUME NEW t \in D PROVE t.element \in E
  <2>1. PICK wide \in 0..1, l \in 0..31, k \in 0..3 : t = Six(b, wide, l, k)
    BY TermsOfQ6
  <2>2. t.element = 256 * b + 128 * wide + 32 * k + l
    BY <2>1 DEF Six
  <2>3. 256 * b + 128 * wide + 32 * k + l \in E
    BY <1>0
  <2> QED
    BY <2>2, <2>3
<1>2. ASSUME NEW e \in E PROVE \E t \in D : t.element = e
  <2> DEFINE wide == (e - 256) \div 128
             r == (e - 256) % 128
             k == r \div 32
             l == r % 32
  <2>1. wide \in 0..1 /\ r \in 0..127 /\ e = 256 + 128 * wide + r
    OBVIOUS
  <2> HIDE DEF r, wide
  <2>2. k \in 0..3 /\ l \in 0..31 /\ r = 32 * k + l
    BY <2>1
  <2> HIDE DEF k, l
  <2>3. e = 256 * b + 128 * wide + 32 * k + l
    BY <1>0, <2>1, <2>2
  <2>4. Six(b, wide, l, k).element = e /\ Six(b, wide, l, k) \in D
    BY <2>1, <2>2, <2>3, TermsOfQ6 DEF Six
  <2> QED
    BY <2>4
<1> HIDE DEF D, E
<1>3. {t.element : t \in D} = E
  BY ONLY <1>1, <1>2
<1> QED
  BY <1>0, <1>3 DEF D, E

LEMMA Q6Lows == {t.low : t \in Q6(0)} = (0..127) \X (0..1)
<1>0. PICK b \in 0..1 : b = 0
  OBVIOUS
<1> DEFINE D == Q6(b)
           B == 0..127
           H == 0..1
<1>1. ASSUME NEW t \in D PROVE \E c \in B, h \in H : t.low = <<c, h>>
  <2>1. PICK wide \in 0..1, l \in 0..31, k \in 0..3 : t = Six(b, wide, l, k)
    BY TermsOfQ6
  <2>2. t.low = <<64 * wide + l + 32 * (k % 2), k \div 2>>
    BY <2>1 DEF Six
  <2>3. 64 * wide + l + 32 * (k % 2) \in B /\ k \div 2 \in H
    OBVIOUS
  <2> QED
    BY <2>2, <2>3
<1>2. ASSUME NEW c \in B, NEW h \in H PROVE \E t \in D : t.low = <<c, h>>
  <2> DEFINE wide == c \div 64
             r == c % 64
             q == r \div 32
             l == r % 32
             k == 2 * h + q
  <2>1. wide \in 0..1 /\ r \in 0..63 /\ c = 64 * wide + r
    OBVIOUS
  <2> HIDE DEF r, wide
  <2>2. q \in 0..1 /\ l \in 0..31 /\ r = 32 * q + l
    BY <2>1
  <2> HIDE DEF q, l
  <2>3. k \in 0..3 /\ k % 2 = q /\ k \div 2 = h
    BY <2>2
  <2> HIDE DEF k
  <2>4. 64 * wide + l + 32 * (k % 2) = c
    BY <2>1, <2>2, <2>3
  <2>5. Six(b, wide, l, k).low = <<64 * wide + l + 32 * (k % 2), k \div 2>> /\ Six(b, wide, l, k) \in D
    BY <2>1, <2>2, <2>3, TermsOfQ6 DEF Six
  <2> QED
    BY <2>3, <2>4, <2>5
<1> HIDE DEF D, B, H
<1>3. {t.low : t \in D} = B \X H
  <2>1. ASSUME NEW z \in {t.low : t \in D} PROVE z \in B \X H
    <3>1. PICK t \in D : z = t.low
      BY ONLY <2>1
    <3>2. PICK c \in B, h \in H : t.low = <<c, h>>
      BY ONLY <1>1, <3>1
    <3> QED
      BY ONLY <3>1, <3>2
  <2>2. ASSUME NEW z \in B \X H PROVE z \in {t.low : t \in D}
    <3>1. PICK c \in B, h \in H : z = <<c, h>>
      BY ONLY <2>2
    <3>2. PICK t \in D : t.low = <<c, h>>
      BY ONLY <1>2, <3>1
    <3> QED
      BY ONLY <3>1, <3>2
  <2> QED
    BY ONLY <2>1, <2>2
<1> QED
  BY <1>0, <1>3 DEF D, B, H

LEMMA Q6Tops == {t.top : t \in Q6(0)} = (0..63) \X (0..3)
<1>0. PICK b \in 0..1 : b = 0
  OBVIOUS
<1> DEFINE D == Q6(b)
           B == 0..63
           H == 0..3
<1>1. ASSUME NEW t \in D PROVE \E c \in B, h \in H : t.top = <<c, h>>
  <2>1. PICK wide \in 0..1, l \in 0..31, k \in 0..3 : t = Six(b, wide, l, k)
    BY TermsOfQ6
  <2>2. t.top = <<32 * wide + l, k>>
    BY <2>1 DEF Six
  <2>3. 32 * wide + l \in B /\ k \in H
    OBVIOUS
  <2> QED
    BY <2>2, <2>3
<1>2. ASSUME NEW c \in B, NEW h \in H PROVE \E t \in D : t.top = <<c, h>>
  <2> DEFINE wide == c \div 32
             l == c % 32
  <2>1. wide \in 0..1 /\ l \in 0..31 /\ 32 * wide + l = c
    OBVIOUS
  <2> HIDE DEF wide, l
  <2>2. Six(b, wide, l, h).top = <<32 * wide + l, h>> /\ Six(b, wide, l, h) \in D
    BY <2>1, TermsOfQ6, ZenonT(30) DEF Six
  <2> QED
    BY <2>1, <2>2
<1> HIDE DEF D, B, H
<1>3. {t.top : t \in D} = B \X H
  <2>1. ASSUME NEW z \in {t.top : t \in D} PROVE z \in B \X H
    <3>1. PICK t \in D : z = t.top
      BY ONLY <2>1
    <3>2. PICK c \in B, h \in H : t.top = <<c, h>>
      BY ONLY <1>1, <3>1
    <3> QED
      BY ONLY <3>1, <3>2
  <2>2. ASSUME NEW z \in B \X H PROVE z \in {t.top : t \in D}
    <3>1. PICK c \in B, h \in H : z = <<c, h>>
      BY ONLY <2>2
    <3>2. PICK t \in D : t.top = <<c, h>>
      BY ONLY <1>2, <3>1
    <3> QED
      BY ONLY <3>1, <3>2
  <2> QED
    BY ONLY <2>1, <2>2
<1> QED
  BY <1>0, <1>3 DEF D, B, H

LEMMA Q6Scales == \A t \in Q6(0) : t.scale = t.element \div 16
<1>0. PICK b \in 0..1 : b = 0
  OBVIOUS
<1> SUFFICES ASSUME NEW t \in Q6(b) PROVE t.scale = t.element \div 16
  BY <1>0
<1>1. PICK wide \in 0..1, l \in 0..31, k \in 0..3 : t = Six(b, wide, l, k)
  BY TermsOfQ6
<1>2. t.element = 256 * b + 128 * wide + 32 * k + l /\ t.scale = 8 * wide + l \div 16 + 2 * k
  BY <1>1 DEF Six
<1>3. (256 * b + 128 * wide + 32 * k + l) \div 16 = 8 * wide + l \div 16 + 2 * k
  BY <1>0
<1> QED
  BY <1>2, <1>3

LEMMA Q8Apart == \A i, j \in 0..63 : Q8(i) = Q8(j) => i = j
<1> SUFFICES ASSUME NEW i \in 0..63, NEW j \in 0..63, Q8(i) = Q8(j) PROVE i = j
  OBVIOUS
<1>1. i \div 32 = j \div 32 /\ 2 + (i % 32) = 2 + (j % 32)
  BY DEF Q8
<1>2. \A k \in 0..63 : k = 32 * (k \div 32) + (k % 32)
  OBVIOUS
<1> QED
  BY <1>1, <1>2

(* The packed scales are those that were packed. *)
LEMMA ScalesComeBack ==
  ASSUME NEW w \in ScaleSets, NEW j \in 0..7
  PROVE  ScaleMin(j, Packed(w)) = <<w.s[j], w.m[j]>>
<1> DEFINE b == Packed(w)
           s == w.s
           m == w.m
<1>1. \A i \in 0..7 : s[i] \in 0..63 /\ m[i] \in 0..63
  BY KernelsAssumption
<1>2. /\ \A i \in 0..3 : b[i] = s[i] + 64 * (s[i + 4] \div 16)
      /\ \A i \in 4..7 : b[i] = m[i - 4] + 64 * (m[i] \div 16)
      /\ \A i \in 8..11 : b[i] = (s[i - 4] % 16) + 16 * (m[i - 4] % 16)
  BY DEF Packed
<1> HIDE DEF b, s, m
<1>3. \A x, y \in 0..63 : /\ (x + 64 * (y \div 16)) % 64 = x
                          /\ (x + 64 * (y \div 16)) \div 64 = y \div 16
                          /\ ((x % 16) + 16 * (y % 16)) % 16 = x % 16
                          /\ ((x % 16) + 16 * (y % 16)) \div 16 = y % 16
                          /\ (x % 16) + 16 * (x \div 16) = x
  OBVIOUS
<1>4. CASE j < 4
  <2>1. ScaleMin(j, b) = <<b[j] % 64, b[j + 4] % 64>>
    BY <1>4 DEF ScaleMin
  <2>2. b[j] = s[j] + 64 * (s[j + 4] \div 16) /\ s[j] \in 0..63 /\ s[j + 4] \in 0..63
    BY <1>1, <1>2, <1>4
  <2>3. j + 4 \in 4..7 /\ (j + 4) - 4 = j
    BY <1>4
  <2>4. b[j + 4] = m[j] + 64 * (m[j + 4] \div 16) /\ m[j] \in 0..63 /\ m[j + 4] \in 0..63
    BY <1>1, <1>2, <2>3
  <2>5. b[j] % 64 = s[j] /\ b[j + 4] % 64 = m[j]
    BY <1>3, <2>2, <2>4
  <2> QED
    BY <2>1, <2>5 DEF b, s, m
<1>5. CASE j >= 4
  <2>1. ScaleMin(j, b) = <<(b[j + 4] % 16) + 16 * (b[j - 4] \div 64),
                           b[j + 4] \div 16 + 16 * (b[j] \div 64)>>
    BY <1>5 DEF ScaleMin
  <2>2. j \in 4..7 /\ j - 4 \in 0..3 /\ (j - 4) + 4 = j /\ j + 4 \in 8..11 /\ (j + 4) - 4 = j
    BY <1>5
  <2>3. s[j] \in 0..63 /\ m[j] \in 0..63 /\ s[j - 4] \in 0..63 /\ m[j - 4] \in 0..63
    BY <1>1, <2>2
  <2>4. /\ b[j + 4] = (s[j] % 16) + 16 * (m[j] % 16)
        /\ b[j - 4] = s[j - 4] + 64 * (s[j] \div 16)
        /\ b[j] = m[j - 4] + 64 * (m[j] \div 16)
    BY <1>2, <2>2
  <2>5. /\ b[j + 4] % 16 = s[j] % 16 /\ b[j + 4] \div 16 = m[j] % 16
        /\ b[j - 4] \div 64 = s[j] \div 16 /\ b[j] \div 64 = m[j] \div 16
    BY <1>3, <2>3, <2>4
  <2>6. (s[j] % 16) + 16 * (s[j] \div 16) = s[j] /\ (m[j] % 16) + 16 * (m[j] \div 16) = m[j]
    BY <1>3, <2>3
  <2>7. ScaleMin(j, b) = <<s[j], m[j]>>
    BY <2>1, <2>5, <2>6
  <2> QED
    BY <2>7 DEF b, s, m
<1> QED
  BY <1>4, <1>5

(* Whatever the kernels are asked, they read it right. *)
LEMMA KernelsRead == EveryWeightOnce /\ SeesWhatItShould
<1>1. EveryWeightOnce
  BY SameInline, Q4KIsWhole, Q6Elements, Q6Lows, Q6Tops, Q6Scales, Q8Apart, ScalesComeBack
     DEF EveryWeightOnce
<1>2. SeesWhatItShould
  BY AttentionSees, ShortconvSees DEF SeesWhatItShould
<1> QED
  BY <1>1, <1>2

-----------------------------------------------------------------------------
(* Weights: where the parts end. *)
LEMMA EndsAreSums ==
  ASSUME NEW parts, NEW total \in Nat, Len(parts) = total, \A i \in 1..total : parts[i][2] \in Nat
  PROVE  /\ Ends(parts) \in [0..total -> Nat]
         /\ Ends(parts)[0] = 0
         /\ \A i \in 1..total : Ends(parts)[i] = Ends(parts)[i - 1] + parts[i][2]
<1> DEFINE unrolled(f) == [i \in 0..total |-> IF i = 0 THEN 0 ELSE f[i - 1] + parts[i][2]]
           P(f) == f = unrolled(f)
           step == [p \in (0..total) \X Nat |-> p[2] + parts[p[1]][2]]
<1>1. \A i \in 1..total : i - 1 \in 0..total /\ i \in 0..total
  OBVIOUS
<1>2. ASSUME NEW i \in 1..total, NEW w \in Nat
      PROVE  step[<<i, w>>] = w + parts[i][2] /\ step[<<i, w>>] \in Nat
  <2>1. <<i, w>> \in (0..total) \X Nat /\ <<i, w>>[1] = i /\ <<i, w>>[2] = w
    OBVIOUS
  <2>2. step[<<i, w>>] = <<i, w>>[2] + parts[<<i, w>>[1]][2]
    BY <2>1
  <2> HIDE DEF step
  <2>3. step[<<i, w>>] = w + parts[i][2]
    BY <2>1, <2>2
  <2> QED
    BY <2>3
<1> HIDE DEF step
<1>3. Stays(step, 0, total, Nat)
  <2> SUFFICES ASSUME NEW i \in (0 + 1)..total, NEW w \in Nat PROVE step[<<i, w>>] \in Nat
    BY DEF Stays
  <2>1. i \in 1..total
    OBVIOUS
  <2> QED
    BY <1>2, <2>1
<1>4. \E f : Recurses(f, 0, step, 0, total, Nat)
  <2>1. 0 \in Int /\ total \in Int /\ 0 <= total /\ 0 \in Nat
    OBVIOUS
  <2> QED
    BY <1>3, <2>1, Recursion
<1>5. PICK f \in [0..total -> Nat] : f[0] = 0 /\ \A i \in 1..total : f[i] = step[<<i, f[i - 1]>>]
  <2>1. 0 + 1 = 1
    OBVIOUS
  <2> QED
    BY <1>4, <2>1 DEF Recurses
<1>6. ASSUME NEW i \in 1..total PROVE f[i] = f[i - 1] + parts[i][2]
  <2>1. f[i - 1] \in Nat
    BY <1>1, <1>5
  <2>2. f[i] = step[<<i, f[i - 1]>>]
    BY <1>5
  <2> QED
    BY <1>2, <2>1, <2>2
<1>7. \A i \in 0..total : f[i] = IF i = 0 THEN 0 ELSE f[i - 1] + parts[i][2]
  <2>1. \A i \in 0..total : i # 0 => i \in 1..total
    OBVIOUS
  <2> QED
    BY <1>5, <1>6, <2>1
<1>8. P(f)
  BY <1>5, <1>7
<1>9. Ends(parts) = CHOOSE g : P(g)
  BY DEF Ends
<1> DEFINE g == Ends(parts)
<1>10. P(g)
  <2> HIDE DEF P, g
  <2>1. g = CHOOSE h : P(h)
    BY <1>9 DEF g
  <2> QED
    BY <1>8, <2>1
<1> HIDE DEF g
<1>11. g[0] = 0 /\ DOMAIN g = 0..total
  BY <1>10
<1>12. ASSUME NEW i \in 1..total PROVE g[i] = g[i - 1] + parts[i][2]
  <2>1. i \in 0..total /\ i # 0
    OBVIOUS
  <2> QED
    BY <1>10, <2>1
<1> DEFINE T == {k \in 0..total : g[k] \in Nat}
<1>13. 0 \in T
  BY <1>11
<1>14. \A i \in 0..(total - 1) : i \in T => i + 1 \in T
  <2> SUFFICES ASSUME NEW i \in 0..(total - 1), g[i] \in Nat PROVE i + 1 \in 0..total /\ g[i + 1] \in Nat
    OBVIOUS
  <2>1. i + 1 \in 1..total /\ (i + 1) - 1 = i
    OBVIOUS
  <2>2. g[i + 1] = g[i] + parts[i + 1][2]
    BY <1>12, <2>1
  <2> QED
    BY <2>1, <2>2
<1>15. \A i \in 0..total : i \in T
  <2> HIDE DEF T
  <2>1. 0 \in Int /\ total \in Int
    OBVIOUS
  <2> QED
    BY ONLY <1>13, <1>14, <2>1, UpTo, Zenon
<1>16. g \in [0..total -> Nat]
  <2>1. g = [i \in 0..total |-> g[i]]
    BY <1>10, <1>11
  <2> QED
    BY <1>15, <2>1
<1> QED
  BY <1>11, <1>12, <1>16 DEF g

(* The sizes of the source, as numbers. *)
LEMMA Sizes ==
  /\ EmbedBytes = 8192 /\ HeadBytes = 8192 /\ Floats(Dim) = 2048
  /\ Q4(NOutQ, Dim) = 147456 /\ Q4(NOutKv, Dim) = 36864 /\ Q6K(NOutKv, Dim) = 53760
  /\ Q4(Dim, NOutQ) = 147456 /\ Q4(NFf, Dim) = 442368 /\ Q4(Dim, NFf) = 442368
  BY DEF EmbedBytes, HeadBytes, Floats, Dim, Q4, Q6K, NOutQ, NOutKv, NFf, ChemioDim

(* The bytes of part i of a layer, and those before it. *)
PartBytes == <<2048, 147456, 36864, 53760, 147456, 2048, 442368, 442368, 442368>>
PartName == <<"attn_norm", "wq", "wk", "wv", "wo", "ffn_norm", "w_gate", "w_up", "w_down">>

LEMMA PartsOfALayer ==
  /\ Len(LayerParts) = 9
  /\ \A i \in 1..9 : /\ LayerParts[i] = <<PartName[i], PartBytes[i]>>
                     /\ PartBytes[i] \in Nat /\ PartBytes[i] % 4 = 0
                     /\ Reads[PartName[i]] = PartBytes[i]
<1>1. LayerParts = << <<"attn_norm", 2048>>, <<"wq", 147456>>, <<"wk", 36864>>,
                      <<"wv", 53760>>, <<"wo", 147456>>, <<"ffn_norm", 2048>>,
                      <<"w_gate", 442368>>, <<"w_up", 442368>>, <<"w_down", 442368>> >>
  BY Sizes DEF LayerParts
<1>2. /\ NOutQ * ((Dim \div 256) * 144) = 147456 /\ NOutKv * ((Dim \div 256) * 144) = 36864
      /\ NOutKv * ((Dim \div 256) * 210) = 53760 /\ NOutQ * ((NOutQ \div 256) * 144) = 147456
      /\ NFf * ((Dim \div 256) * 144) = 442368 /\ Dim * ((NFf \div 256) * 144) = 442368
  BY DEF NOutQ, NOutKv, NFf, Dim
<1>3. /\ Reads["attn_norm"] = 2048 /\ Reads["wq"] = 147456 /\ Reads["wk"] = 36864
      /\ Reads["wv"] = 53760 /\ Reads["wo"] = 147456 /\ Reads["ffn_norm"] = 2048
      /\ Reads["w_gate"] = 442368 /\ Reads["w_up"] = 442368 /\ Reads["w_down"] = 442368
  BY <1>2, Sizes DEF Reads
<1>4. Len(LayerParts) = 9
  BY <1>1
<1>5. ASSUME NEW i \in 1..9
      PROVE  /\ LayerParts[i] = <<PartName[i], PartBytes[i]>>
             /\ PartBytes[i] \in Nat /\ PartBytes[i] % 4 = 0
             /\ Reads[PartName[i]] = PartBytes[i]
  <2>1. i \in {1, 2, 3, 4, 5, 6, 7, 8, 9}
    OBVIOUS
  <2>2. CASE i = 1
    BY <1>1, <1>3, <2>2 DEF PartName, PartBytes
  <2>3. CASE i = 2
    BY <1>1, <1>3, <2>3 DEF PartName, PartBytes
  <2>4. CASE i = 3
    BY <1>1, <1>3, <2>4 DEF PartName, PartBytes
  <2>5. CASE i = 4
    BY <1>1, <1>3, <2>5 DEF PartName, PartBytes
  <2>6. CASE i = 5
    BY <1>1, <1>3, <2>6 DEF PartName, PartBytes
  <2>7. CASE i = 6
    BY <1>1, <1>3, <2>7 DEF PartName, PartBytes
  <2>8. CASE i = 7
    BY <1>1, <1>3, <2>8 DEF PartName, PartBytes
  <2>9. CASE i = 8
    BY <1>1, <1>3, <2>9 DEF PartName, PartBytes
  <2>10. CASE i = 9
    BY <1>1, <1>3, <2>10 DEF PartName, PartBytes
  <2> QED
    BY <2>1, <2>2, <2>3, <2>4, <2>5, <2>6, <2>7, <2>8, <2>9, <2>10
<1> QED
  BY <1>4, <1>5

LEMMA BytesOfALayer == LayerBytes = 1716736
<1> DEFINE e == Ends(LayerParts)
<1>1. \A i \in 1..9 : LayerParts[i][2] = PartBytes[i] /\ PartBytes[i] \in Nat
  BY PartsOfALayer
<1>2. e[0] = 0 /\ \A i \in 1..9 : e[i] = e[i - 1] + PartBytes[i]
  <2>1. 9 \in Nat /\ Len(LayerParts) = 9 /\ \A i \in 1..9 : LayerParts[i][2] \in Nat
    BY <1>1, PartsOfALayer
  <2>2. e[0] = 0 /\ \A i \in 1..9 : e[i] = e[i - 1] + LayerParts[i][2]
    BY ONLY <2>1, EndsAreSums
  <2> HIDE DEF e
  <2> QED
    BY <1>1, <2>2
<1> HIDE DEF e
<1>3. /\ e[1] = 2048 /\ e[2] = e[1] + 147456 /\ e[3] = e[2] + 36864 /\ e[4] = e[3] + 53760
      /\ e[5] = e[4] + 147456 /\ e[6] = e[5] + 2048 /\ e[7] = e[6] + 442368
      /\ e[8] = e[7] + 442368 /\ e[9] = e[8] + 442368
  <2>1. /\ e[1] = e[0] + PartBytes[1] /\ e[2] = e[1] + PartBytes[2] /\ e[3] = e[2] + PartBytes[3]
        /\ e[4] = e[3] + PartBytes[4] /\ e[5] = e[4] + PartBytes[5] /\ e[6] = e[5] + PartBytes[6]
        /\ e[7] = e[6] + PartBytes[7] /\ e[8] = e[7] + PartBytes[8] /\ e[9] = e[8] + PartBytes[9]
    BY <1>2
  <2> QED
    BY <1>2, <2>1 DEF PartBytes
<1>4. e[9] = 1716736
  BY <1>3
<1> QED
  BY <1>4, PartsOfALayer DEF LayerBytes, e

(* The parts of the file: embed, twelve layers, final_norm and head. *)
LEMMA PartsOfTheFile ==
  /\ Len(Parts) = 111
  /\ Parts[1] = <<"embed", 8192>>
  /\ Parts[110] = <<"final_norm", 2048>> /\ Parts[111] = <<"head", 8192>>
  /\ \A i \in 2..109 : Parts[i] = LayerParts[((i - 2) % 9) + 1]
<1> DEFINE emb == <<"embed", 8192>>
           norm == <<"final_norm", 2048>>
           last1 == <<"head", 8192>>
           S == {LayerParts[k] : k \in 1..9} \cup {emb, norm, last1}
           first == << <<"embed", EmbedBytes>> >>
           mid == [i \in 1..(NLayers * Len(LayerParts)) |-> LayerParts[((i - 1) % Len(LayerParts)) + 1]]
           last == << <<"final_norm", Floats(Dim)>>, <<"head", HeadBytes>> >>
<1>1. Len(LayerParts) = 9 /\ NLayers * Len(LayerParts) = 108
  BY PartsOfALayer DEF NLayers
<1>2. /\ \A k \in 1..9 : LayerParts[k] \in S
      /\ emb \in S /\ norm \in S /\ last1 \in S
  OBVIOUS
<1>3. \A i \in 1..108 : ((i - 1) % 9) + 1 \in 1..9
  OBVIOUS
<1>4. mid = [i \in 1..108 |-> LayerParts[((i - 1) % 9) + 1]]
  BY <1>1
<1>5. first = <<emb>> /\ last = <<norm, last1>> /\ Parts = (first \o mid) \o last
  BY Sizes DEF Parts
<1> HIDE DEF first, mid, last, S, emb, norm, last1
<1>6. mid \in Seq(S) /\ Len(mid) = 108 /\ \A i \in 1..108 : mid[i] = LayerParts[((i - 1) % 9) + 1]
  <2>1. \A i \in 1..108 : LayerParts[((i - 1) % 9) + 1] \in S
    BY <1>2, <1>3
  <2>2. mid \in [1..108 -> S]
    BY <1>4, <2>1
  <2>3. \A total \in Nat : \A f \in [1..total -> S] : f \in Seq(S) /\ Len(f) = total
    OBVIOUS
  <2> QED
    BY <1>4, <2>2, <2>3
<1>7. first \in Seq(S) /\ Len(first) = 1 /\ first[1] = emb
  <2>1. \A x \in S : <<x>> \in Seq(S) /\ Len(<<x>>) = 1 /\ <<x>>[1] = x
    OBVIOUS
  <2> QED
    BY <1>2, <1>5, <2>1
<1>8. last \in Seq(S) /\ Len(last) = 2 /\ last[1] = norm /\ last[2] = last1
  <2>1. \A x, y \in S : /\ <<x, y>> \in Seq(S) /\ Len(<<x, y>>) = 2
                        /\ <<x, y>>[1] = x /\ <<x, y>>[2] = y
    OBVIOUS
  <2> QED
    BY <1>2, <1>5, <2>1
<1>9. \A s, t \in Seq(S) :
        /\ s \o t \in Seq(S) /\ Len(s \o t) = Len(s) + Len(t)
        /\ \A i \in 1..(Len(s) + Len(t)) :
             (s \o t)[i] = IF i <= Len(s) THEN s[i] ELSE t[i - Len(s)]
  BY ConcatProperties
<1> DEFINE most == first \o mid
<1>10. /\ most \in Seq(S) /\ Len(most) = 109
       /\ \A i \in 1..109 : most[i] = IF i <= 1 THEN first[i] ELSE mid[i - 1]
  <2>1. /\ most \in Seq(S) /\ Len(most) = Len(first) + Len(mid)
        /\ \A i \in 1..(Len(first) + Len(mid)) :
             most[i] = IF i <= Len(first) THEN first[i] ELSE mid[i - Len(first)]
    BY ONLY <1>6, <1>7, <1>9
  <2> HIDE DEF most
  <2>2. Len(first) = 1 /\ Len(first) + Len(mid) = 109
    BY <1>6, <1>7
  <2> QED
    BY ONLY <2>1, <2>2, ZenonT(30)
<1>11. Parts = most \o last
  BY <1>5
<1> HIDE DEF most
<1>12. /\ Len(Parts) = 111
       /\ \A i \in 1..111 : Parts[i] = IF i <= 109 THEN most[i] ELSE last[i - 109]
  <2>1. /\ Len(Parts) = Len(most) + Len(last)
        /\ \A i \in 1..(Len(most) + Len(last)) :
             Parts[i] = IF i <= Len(most) THEN most[i] ELSE last[i - Len(most)]
    BY ONLY <1>8, <1>9, <1>10, <1>11, ZenonT(30)
  <2>2. Len(most) = 109 /\ Len(most) + Len(last) = 111
    BY <1>8, <1>10
  <2>3. ASSUME NEW i \in 1..111 PROVE Parts[i] = IF i <= 109 THEN most[i] ELSE last[i - 109]
    <3>1. i \in 1..(Len(most) + Len(last))
      BY <2>2
    <3>2. Parts[i] = IF i <= Len(most) THEN most[i] ELSE last[i - Len(most)]
      BY ONLY <2>1, <3>1
    <3> QED
      BY ONLY <2>2, <3>2
  <2> QED
    BY <2>1, <2>2, <2>3
<1>13. Parts[1] = emb
  BY <1>7, <1>10, <1>12
<1>14. Parts[110] = norm /\ Parts[111] = last1
  BY <1>8, <1>12
<1>15. ASSUME NEW i \in 2..109 PROVE Parts[i] = LayerParts[((i - 2) % 9) + 1]
  <2>1. Parts[i] = mid[i - 1]
    <3>1. i \in 1..111 /\ i <= 109 /\ i \in 1..109 /\ ~(i <= 1)
      OBVIOUS
    <3>2. Parts[i] = most[i]
      BY <1>12, <3>1
    <3> QED
      BY <1>10, <3>1, <3>2
  <2>2. i - 1 \in 1..108 /\ (i - 1) - 1 = i - 2
    OBVIOUS
  <2> QED
    BY <1>6, <2>1, <2>2
<1> QED
  BY <1>12, <1>13, <1>14, <1>15 DEF emb, norm, last1

LEMMA EveryPart ==
  ASSUME NEW i \in 1..111
  PROVE  Parts[i][2] \in Nat /\ Parts[i][2] % 4 = 0 /\ Reads[Parts[i][1]] = Parts[i][2]
<1>1. Reads["embed"] = 8192 /\ Reads["head"] = 8192 /\ Reads["final_norm"] = 2048
  <2>1. Floats(ChemioDim * Dim) = 8192 /\ Floats(Dim * ChemioDim) = 8192 /\ Floats(Dim) = 2048
    BY DEF Floats, ChemioDim, Dim
  <2> QED
    BY <2>1 DEF Reads
<1>2. CASE i = 1
  BY <1>1, <1>2, PartsOfTheFile
<1>3. CASE i = 110
  BY <1>1, <1>3, PartsOfTheFile
<1>4. CASE i = 111
  BY <1>1, <1>4, PartsOfTheFile
<1>5. CASE i \in 2..109
  <2> DEFINE k == ((i - 2) % 9) + 1
  <2>1. k \in 1..9 /\ Parts[i] = LayerParts[k]
    BY <1>5, PartsOfTheFile
  <2> HIDE DEF k
  <2> QED
    BY <2>1, PartsOfALayer
<1> QED
  BY <1>2, <1>3, <1>4, <1>5

LEMMA EndsOfTheFile ==
  /\ Ends(Parts) \in [0..111 -> Nat] /\ Ends(Parts)[0] = 0
  /\ \A i \in 1..111 : Ends(Parts)[i] = Ends(Parts)[i - 1] + Parts[i][2]
<1> DEFINE total == 111
<1>1. total \in Nat /\ Len(Parts) = total /\ \A i \in 1..total : Parts[i][2] \in Nat
  BY EveryPart, PartsOfTheFile, SMTT(20)
<1> HIDE DEF total
<1>2. /\ Ends(Parts) \in [0..total -> Nat] /\ Ends(Parts)[0] = 0
      /\ \A i \in 1..total : Ends(Parts)[i] = Ends(Parts)[i - 1] + Parts[i][2]
  BY ONLY <1>1, EndsAreSums
<1> QED
  BY <1>2 DEF total

(* The parts fill the file from its header to its last byte. *)
LEMMA FileIsFilled == HeaderBytes + Ends(Parts)[111] = TotalModelBytes
<1> DEFINE e == Ends(Parts)
<1>1. /\ e \in [0..111 -> Nat] /\ e[0] = 0
      /\ \A i \in 1..111 : e[i] = e[i - 1] + Parts[i][2]
  BY EndsOfTheFile
<1> HIDE DEF e
<1>2. e[1] = 8192
  BY <1>1, PartsOfTheFile
<1> DEFINE T == {k \in 0..12 : e[9 * k + 1] = 8192 + 1716736 * k}
<1>3. 0 \in T
  BY <1>2
<1>4. ASSUME NEW k \in 0..(12 - 1), k \in T PROVE k + 1 \in T
  <2> DEFINE b == 9 * k + 1
  <2>1. b \in 1..100 /\ b = 9 * k + 1
    OBVIOUS
  <2>2. e[b] = 8192 + 1716736 * k
    BY <1>4
  <2> HIDE DEF b
  <2>3. ASSUME NEW j \in 1..9 PROVE Parts[b + j][2] = PartBytes[j]
    <3>1. b + j \in 2..109 /\ (b + j) - 2 = 9 * k + (j - 1)
      BY <2>1
    <3>2. ((b + j) - 2) % 9 = j - 1
      BY <3>1
    <3>3. Parts[b + j] = LayerParts[(((b + j) - 2) % 9) + 1]
      BY <3>1, PartsOfTheFile
    <3>4. (((b + j) - 2) % 9) + 1 = j
      BY <3>2
    <3>5. Parts[b + j] = LayerParts[j]
      BY <3>3, <3>4
    <3> QED
      BY <3>5, PartsOfALayer
  <2>4. ASSUME NEW j \in 1..9 PROVE e[b + j] = e[b + (j - 1)] + PartBytes[j]
    <3>1. b + j \in 1..111 /\ (b + j) - 1 = b + (j - 1)
      BY <2>1
    <3> QED
      BY <1>1, <2>3, <3>1
  <2>5. /\ e[b + 1] = e[b] + 2048 /\ e[b + 2] = e[b + 1] + 147456 /\ e[b + 3] = e[b + 2] + 36864
        /\ e[b + 4] = e[b + 3] + 53760 /\ e[b + 5] = e[b + 4] + 147456 /\ e[b + 6] = e[b + 5] + 2048
        /\ e[b + 7] = e[b + 6] + 442368 /\ e[b + 8] = e[b + 7] + 442368
        /\ e[b + 9] = e[b + 8] + 442368
    <3>1. b + 0 = b
      BY <2>1
    <3>2. /\ e[b + 1] = e[b + 0] + PartBytes[1] /\ e[b + 2] = e[b + 1] + PartBytes[2]
          /\ e[b + 3] = e[b + 2] + PartBytes[3] /\ e[b + 4] = e[b + 3] + PartBytes[4]
          /\ e[b + 5] = e[b + 4] + PartBytes[5] /\ e[b + 6] = e[b + 5] + PartBytes[6]
          /\ e[b + 7] = e[b + 6] + PartBytes[7] /\ e[b + 8] = e[b + 7] + PartBytes[8]
          /\ e[b + 9] = e[b + 8] + PartBytes[9]
      BY <2>4
    <3> QED
      BY <3>1, <3>2 DEF PartBytes
  <2>6. e[b + 9] = 8192 + 1716736 * (k + 1)
    BY <2>2, <2>5
  <2>7. b + 9 = 9 * (k + 1) + 1
    BY <2>1
  <2> QED
    BY <2>6, <2>7
<1>5. \A k \in 0..12 : k \in T
  <2> HIDE DEF T
  <2>1. 0 \in Int /\ 12 \in Int /\ \A k \in 0..(12 - 1) : k \in T => k + 1 \in T
    BY <1>4
  <2> QED
    BY ONLY <1>3, <2>1, UpTo, Zenon
<1>6. e[109] = 8192 + 1716736 * 12
  <2>1. 12 \in T /\ 9 * 12 + 1 = 109
    BY <1>5
  <2> QED
    BY <2>1
<1>7. e[110] = e[109] + 2048 /\ e[111] = e[110] + 8192
  BY <1>1, PartsOfTheFile
<1>8. e[111] = 20619264
  BY <1>6, <1>7
<1>9. TotalModelBytes = 20619328
  BY Sizes, BytesOfALayer DEF TotalModelBytes, HeaderBytes, NLayers
<1> QED
  BY <1>8, <1>9 DEF e, HeaderBytes

LEMMA EndsInTheFile ==
  ASSUME NEW i \in 0..111
  PROVE  Ends(Parts)[i] \in Nat /\ Ends(Parts)[i] % 4 = 0 /\ Ends(Parts)[i] <= Ends(Parts)[111]
<1> DEFINE e == Ends(Parts)
           T == {k \in 0..111 : e[k] % 4 = 0}
           U == {k \in i..111 : e[i] <= e[k]}
<1>1. /\ e \in [0..111 -> Nat] /\ e[0] = 0
      /\ \A k \in 1..111 : e[k] = e[k - 1] + Parts[k][2]
  BY EndsOfTheFile
<1> HIDE DEF e
<1>2. ASSUME NEW k \in 0..(111 - 1)
      PROVE  e[k] \in Nat /\ e[k + 1] \in Nat /\ e[k + 1] >= e[k] /\ (e[k] % 4 = 0 => e[k + 1] % 4 = 0)
  <2>1. k + 1 \in 1..111 /\ (k + 1) - 1 = k
    OBVIOUS
  <2>2. e[k + 1] = e[k] + Parts[k + 1][2] /\ e[k] \in Nat
    BY <1>1, <2>1
  <2>3. Parts[k + 1][2] \in Nat /\ Parts[k + 1][2] % 4 = 0
    BY <2>1, EveryPart
  <2>4. \A x, y \in Nat : x % 4 = 0 /\ y % 4 = 0 => (x + y) % 4 = 0
    OBVIOUS
  <2> QED
    BY <2>2, <2>3, <2>4
<1>3. 0 \in T
  BY <1>1
<1>4. \A k \in 0..(111 - 1) : k \in T => k + 1 \in T
  BY <1>2
<1>5. \A k \in 0..111 : k \in T
  <2> HIDE DEF T
  <2>1. 0 \in Int /\ 111 \in Int
    OBVIOUS
  <2> QED
    BY ONLY <1>3, <1>4, <2>1, UpTo, Zenon
<1>6. i \in U
  BY <1>1
<1>7. ASSUME NEW k \in i..(111 - 1), k \in U PROVE k + 1 \in U
  <2>1. k \in 0..(111 - 1) /\ k + 1 \in i..111 /\ e[i] \in Nat
    BY <1>1
  <2>2. e[k] \in Nat /\ e[k + 1] \in Nat /\ e[k + 1] >= e[k]
    BY <1>2, <2>1
  <2> QED
    BY <1>7, <2>1, <2>2
<1>8. \A k \in i..111 : k \in U
  <2> HIDE DEF U
  <2>1. i \in Int /\ 111 \in Int /\ \A k \in i..(111 - 1) : k \in U => k + 1 \in U
    BY <1>7
  <2> QED
    BY ONLY <1>6, <2>1, UpTo, Zenon
<1>9. i \in T /\ 111 \in U
  <2>1. 111 \in i..111
    OBVIOUS
  <2> QED
    BY <1>5, <1>8, <2>1
<1> QED
  BY <1>1, <1>9 DEF e

(* Adapters: what each projection takes of its layer, in floats. *)
UFrom == <<0, 16384, 32768, 49152>>
VFrom == <<12288, 28672, 36864, 53248>>
ULen == <<12288, 12288, 4096, 4096>>
VLen == <<4096, 4096, 12288, 4096>>

LEMMA CutsOfALayer ==
  ASSUME NEW p \in 1..4
  PROVE  /\ Ends(Cuts)[2 * p - 2] = UFrom[p] /\ Ends(Cuts)[2 * p - 1] = VFrom[p]
         /\ Cuts[2 * p - 1][2] = ULen[p] /\ Cuts[2 * p][2] = VLen[p]
         /\ DimProiezione[p][1] * Rango = ULen[p] /\ DimProiezione[p][2] * Rango = VLen[p]
<1> DEFINE e == Ends(Cuts)
<1>1. Cuts = << <<"u", 12288>>, <<"v", 4096>>, <<"u", 12288>>, <<"v", 4096>>,
                <<"u", 4096>>, <<"v", 12288>>, <<"u", 4096>>, <<"v", 4096>> >>
  BY DEF Cuts, NFf, Dim, Rango
<1>2. /\ Len(Cuts) = 8
      /\ Cuts[1][2] = 12288 /\ Cuts[2][2] = 4096 /\ Cuts[3][2] = 12288 /\ Cuts[4][2] = 4096
      /\ Cuts[5][2] = 4096 /\ Cuts[6][2] = 12288 /\ Cuts[7][2] = 4096 /\ Cuts[8][2] = 4096
  BY <1>1
<1> DEFINE total == 8
<1>3. total \in Nat /\ Len(Cuts) = total /\ \A i \in 1..total : Cuts[i][2] \in Nat
  <2>1. \A i \in 1..8 : i \in {1, 2, 3, 4, 5, 6, 7, 8}
    OBVIOUS
  <2> QED
    BY <1>2, <2>1
<1> HIDE DEF total
<1>4. Ends(Cuts)[0] = 0 /\ \A i \in 1..total : Ends(Cuts)[i] = Ends(Cuts)[i - 1] + Cuts[i][2]
  BY ONLY <1>3, EndsAreSums
<1> HIDE DEF e
<1>5. e[0] = 0 /\ \A i \in 1..8 : e[i] = e[i - 1] + Cuts[i][2]
  BY <1>4 DEF e, total
<1>6. /\ e[1] = e[0] + Cuts[1][2] /\ e[2] = e[1] + Cuts[2][2] /\ e[3] = e[2] + Cuts[3][2]
      /\ e[4] = e[3] + Cuts[4][2] /\ e[5] = e[4] + Cuts[5][2] /\ e[6] = e[5] + Cuts[6][2]
      /\ e[7] = e[6] + Cuts[7][2]
  BY <1>5
<1>7. /\ e[0] = 0 /\ e[1] = 12288 /\ e[2] = 16384 /\ e[3] = 28672 /\ e[4] = 32768
      /\ e[5] = 36864 /\ e[6] = 49152 /\ e[7] = 53248
  BY <1>2, <1>5, <1>6
<1>8. /\ DimProiezione[1][1] * Rango = 12288 /\ DimProiezione[1][2] * Rango = 4096
      /\ DimProiezione[2][1] * Rango = 12288 /\ DimProiezione[2][2] * Rango = 4096
      /\ DimProiezione[3][1] * Rango = 4096 /\ DimProiezione[3][2] * Rango = 12288
      /\ DimProiezione[4][1] * Rango = 4096 /\ DimProiezione[4][2] * Rango = 4096
  BY DEF DimProiezione, NFf, Dim, Rango
<1>9. CASE p = 1
  BY <1>2, <1>7, <1>8, <1>9 DEF e, UFrom, VFrom, ULen, VLen
<1>10. CASE p = 2
  BY <1>2, <1>7, <1>8, <1>10 DEF e, UFrom, VFrom, ULen, VLen
<1>11. CASE p = 3
  BY <1>2, <1>7, <1>8, <1>11 DEF e, UFrom, VFrom, ULen, VLen
<1>12. CASE p = 4
  BY <1>2, <1>7, <1>8, <1>12 DEF e, UFrom, VFrom, ULen, VLen
<1> QED
  BY <1>9, <1>10, <1>11, <1>12

LEMMA AdapterLies ==
  ASSUME NEW l \in {0, NLayers - 1}, NEW p \in 1..4
  PROVE  /\ Adattatore(l, p).u = <<l * 57344 + UFrom[p], ULen[p]>>
         /\ Adattatore(l, p).v = <<l * 57344 + VFrom[p], VLen[p]>>
         /\ Adattatore(l, p).given_u = ULen[p] /\ Adattatore(l, p).given_v = VLen[p]
<1>1. AdattatoriLayerFloats = 57344
  BY DEF AdattatoriLayerFloats, NFf, Dim, Rango
<1> QED
  BY <1>1, CutsOfALayer DEF Adattatore

(* An accepted file, and the adapters, lie where they are looked for. *)
LEMMA PlaceOfFile == file \in Files => WeightsInPlace
<1> DEFINE cut == Parse(file)
           e == Ends(Parts)
           Apart(a, b) == a[1] + a[2] <= b[1] \/ b[1] + b[2] <= a[1]
           Matrices == {<<l, p>> : l \in {0, NLayers - 1}, p \in 1..4}
<1> SUFFICES ASSUME file \in Files PROVE WeightsInPlace
  OBVIOUS
<1>1. file.len \in Nat
  BY WeightsAssumption
<1>2. ASSUME NEW i \in 1..Len(cut)
      PROVE  /\ cut[i].from >= HeaderBytes
             /\ cut[i].from + cut[i].size <= file.len
             /\ i > 1 => cut[i].from = cut[i - 1].from + cut[i - 1].size
             /\ cut[i].from % 4 = 0
             /\ Reads[cut[i].name] = cut[i].size
  <2>1. CASE ~Accepts(file)
    <3>1. cut = <<>>
      BY <2>1 DEF Parse
    <3> HIDE DEF cut
    <3>2. Len(cut) = 0
      BY <3>1
    <3> QED
      BY <3>2
  <2>2. CASE Accepts(file)
    <3>1. cut = [k \in 1..111 |-> [name |-> Parts[k][1], size |-> Parts[k][2],
                                   from |-> HeaderBytes + e[k - 1]]]
      BY <2>2, PartsOfTheFile DEF Parse
    <3> HIDE DEF cut, e
    <3>2. Len(cut) = 111
      <4>1. \A total \in Nat : \A f : DOMAIN f = 1..total => Len(f) = total
        OBVIOUS
      <4> QED
        BY <3>1, <4>1
    <3>3. \A k \in 1..111 : /\ cut[k].name = Parts[k][1] /\ cut[k].size = Parts[k][2]
                            /\ cut[k].from = HeaderBytes + e[k - 1]
      BY <3>1
    <3>4. /\ i \in 1..111 /\ i - 1 \in 0..111 /\ i \in 0..111
          /\ (i > 1 => i - 1 \in 1..111)
      BY <3>2
    <3>5. \A k \in 0..111 : e[k] \in Nat /\ e[k] % 4 = 0 /\ e[k] <= e[111]
      BY EndsInTheFile DEF e
    <3>6. \A k \in 1..111 : e[k] = e[k - 1] + Parts[k][2]
      BY EndsOfTheFile DEF e
    <3>7. HeaderBytes + e[111] <= file.len
      BY <1>1, <2>2, FileIsFilled DEF Accepts, e
    <3>8. /\ cut[i].name = Parts[i][1] /\ cut[i].size = Parts[i][2]
          /\ cut[i].from = 64 + e[i - 1] /\ e[i - 1] \in Nat /\ e[i - 1] % 4 = 0
          /\ e[i] = e[i - 1] + Parts[i][2] /\ e[i] \in Nat /\ e[i] <= e[111] /\ e[111] \in Nat
      <4>1. cut[i].name = Parts[i][1] /\ cut[i].size = Parts[i][2] /\ cut[i].from = 64 + e[i - 1]
        BY <3>3, <3>4 DEF HeaderBytes
      <4>2. e[i - 1] \in Nat /\ e[i - 1] % 4 = 0 /\ e[i] \in Nat /\ e[i] <= e[111]
        BY <3>4, <3>5
      <4>3. 111 \in 0..111
        OBVIOUS
      <4>4. e[111] \in Nat
        BY <3>5, <4>3
      <4>5. e[i] = e[i - 1] + Parts[i][2]
        BY <3>4, <3>6
      <4> QED
        BY <4>1, <4>2, <4>4, <4>5
    <3>9. Parts[i][2] \in Nat /\ Reads[Parts[i][1]] = Parts[i][2]
      BY <3>4, EveryPart
    <3>10. cut[i].from >= HeaderBytes /\ cut[i].from + cut[i].size <= file.len
      <4>1. HeaderBytes = 64
        BY DEF HeaderBytes
      <4>2. cut[i].from = 64 + e[i - 1] /\ cut[i].size = Parts[i][2]
        BY <3>8
      <4>3. 64 + e[111] <= file.len
        BY <3>7, <4>1
      <4>4. cut[i].from + cut[i].size = 64 + e[i]
        BY <3>8, <3>9, SMTT(20)
      <4>5. 64 + e[i] <= file.len
        BY <1>1, <3>8, <4>3, SMTT(20)
      <4> QED
        BY <3>8, <4>1, <4>2, <4>4, <4>5
    <3>11. i > 1 => cut[i].from = cut[i - 1].from + cut[i - 1].size
      <4> SUFFICES ASSUME i > 1 PROVE cut[i].from = cut[i - 1].from + cut[i - 1].size
        OBVIOUS
      <4> DEFINE j == i - 1
      <4>1. j \in 1..111 /\ j \in 0..111 /\ j - 1 \in 0..111
        BY <3>4
      <4>2. cut[j].size = Parts[j][2] /\ cut[j].from = 64 + e[j - 1] /\ cut[i].from = 64 + e[j]
        BY <3>3, <3>8, <4>1 DEF HeaderBytes
      <4>3. e[j] = e[j - 1] + Parts[j][2] /\ e[j - 1] \in Nat /\ Parts[j][2] \in Nat
        BY <3>5, <3>6, <4>1, EveryPart
      <4> HIDE DEF j
      <4>4. cut[i].from = cut[j].from + cut[j].size
        BY <4>2, <4>3
      <4> QED
        BY <4>4 DEF j
    <3>12. cut[i].from % 4 = 0
      <4>1. \A x \in Nat : x % 4 = 0 => (64 + x) % 4 = 0
        OBVIOUS
      <4> QED
        BY <3>8, <4>1
    <3> QED
      BY <3>8, <3>9, <3>10, <3>11, <3>12
  <2> QED
    BY <2>1, <2>2
<1>3. ASSUME NEW x \in Matrices, NEW y \in Matrices
      PROVE  LET a == Adattatore(x[1], x[2])  b == Adattatore(y[1], y[2]) IN
             /\ a.u[2] = a.given_u /\ a.v[2] = a.given_v /\ Apart(a.u, a.v)
             /\ a.v[1] + a.v[2] <= NLayers * AdattatoriLayerFloats
             /\ x # y => Apart(a.u, b.u) /\ Apart(a.v, b.v) /\ Apart(a.u, b.v)
  <2>1. PICK l \in {0, NLayers - 1}, p \in 1..4 : x = <<l, p>>
    OBVIOUS
  <2>2. PICK m \in {0, NLayers - 1}, r \in 1..4 : y = <<m, r>>
    OBVIOUS
  <2> DEFINE a == Adattatore(l, p)
             b == Adattatore(m, r)
  <2>3. /\ a.u = <<l * 57344 + UFrom[p], ULen[p]>> /\ a.v = <<l * 57344 + VFrom[p], VLen[p]>>
        /\ a.given_u = ULen[p] /\ a.given_v = VLen[p]
    BY AdapterLies
  <2>4. b.u = <<m * 57344 + UFrom[r], ULen[r]>> /\ b.v = <<m * 57344 + VFrom[r], VLen[r]>>
    BY AdapterLies
  <2> HIDE DEF a, b
  <2>5. l \in {0, 11} /\ m \in {0, 11}
    BY DEF NLayers
  <2>6. NLayers * AdattatoriLayerFloats = 688128
    BY DEF NLayers, AdattatoriLayerFloats, NFf, Dim, Rango
  <2>7. \/ p = 1 /\ UFrom[p] = 0 /\ ULen[p] = 12288 /\ VFrom[p] = 12288 /\ VLen[p] = 4096
        \/ p = 2 /\ UFrom[p] = 16384 /\ ULen[p] = 12288 /\ VFrom[p] = 28672 /\ VLen[p] = 4096
        \/ p = 3 /\ UFrom[p] = 32768 /\ ULen[p] = 4096 /\ VFrom[p] = 36864 /\ VLen[p] = 12288
        \/ p = 4 /\ UFrom[p] = 49152 /\ ULen[p] = 4096 /\ VFrom[p] = 53248 /\ VLen[p] = 4096
    BY DEF UFrom, ULen, VFrom, VLen
  <2>8. \/ r = 1 /\ UFrom[r] = 0 /\ ULen[r] = 12288 /\ VFrom[r] = 12288 /\ VLen[r] = 4096
        \/ r = 2 /\ UFrom[r] = 16384 /\ ULen[r] = 12288 /\ VFrom[r] = 28672 /\ VLen[r] = 4096
        \/ r = 3 /\ UFrom[r] = 32768 /\ ULen[r] = 4096 /\ VFrom[r] = 36864 /\ VLen[r] = 12288
        \/ r = 4 /\ UFrom[r] = 49152 /\ ULen[r] = 4096 /\ VFrom[r] = 53248 /\ VLen[r] = 4096
    BY DEF UFrom, ULen, VFrom, VLen
  <2>9. /\ a.u[1] = l * 57344 + UFrom[p] /\ a.u[2] = ULen[p]
        /\ a.v[1] = l * 57344 + VFrom[p] /\ a.v[2] = VLen[p]
        /\ b.u[1] = m * 57344 + UFrom[r] /\ b.u[2] = ULen[r]
        /\ b.v[1] = m * 57344 + VFrom[r] /\ b.v[2] = VLen[r]
    BY <2>3, <2>4
  <2>10. a.u[2] = a.given_u /\ a.v[2] = a.given_v
    BY <2>3, <2>9
  <2>11. Apart(a.u, a.v) /\ a.v[1] + a.v[2] <= 688128
    BY <2>5, <2>7, <2>9
  <2>12. x # y => l # m \/ p # r
    BY <2>1, <2>2
  <2>13. ASSUME l # m PROVE Apart(a.u, b.u) /\ Apart(a.v, b.v) /\ Apart(a.u, b.v)
    BY <2>5, <2>7, <2>8, <2>9, <2>13
  <2>14. ASSUME l = m, p # r PROVE Apart(a.u, b.u) /\ Apart(a.v, b.v) /\ Apart(a.u, b.v)
    BY <2>5, <2>7, <2>8, <2>9, <2>14
  <2> HIDE DEF Apart
  <2>15. x[1] = l /\ x[2] = p /\ y[1] = m /\ y[2] = r
    BY <2>1, <2>2
  <2> QED
    BY <2>6, <2>10, <2>11, <2>12, <2>13, <2>14, <2>15 DEF a, b
<1> QED
  BY <1>2, <1>3 DEF WeightsInPlace

-----------------------------------------------------------------------------
(* GGUF: where the entries of a file end. *)
LEMMA RunningSum ==
  ASSUME NEW sizes \in Seq(Nat), NEW base \in Nat
  PROVE  /\ From(sizes, base) \in [1..(Len(sizes) + 1) -> Nat]
         /\ From(sizes, base)[1] = base
         /\ \A i \in 1..Len(sizes) :
              From(sizes, base)[i + 1] = From(sizes, base)[i] + sizes[i]
<1> DEFINE total == Len(sizes)
           top == total + 1
           unrolled(f) == [i \in 1..top |-> IF i = 1 THEN base ELSE f[i - 1] + sizes[i - 1]]
           P(f) == f = unrolled(f)
           step == [p \in (1..top) \X Nat |-> p[2] + sizes[p[1] - 1]]
<1>0. total \in Nat /\ top \in Nat /\ top = total + 1 /\ \A i \in 1..total : sizes[i] \in Nat
  OBVIOUS
<1> HIDE DEF total, top
<1>1. \A i \in 2..top : i - 1 \in 1..total /\ i - 1 \in 1..top /\ sizes[i - 1] \in Nat
  BY <1>0
<1>2. ASSUME NEW i \in 2..top, NEW w \in Nat PROVE step[<<i, w>>] = w + sizes[i - 1]
  <2>1. <<i, w>> \in (1..top) \X Nat
    BY <1>0
  <2> QED
    BY <2>1
<1> HIDE DEF step
<1>3. Stays(step, 1, top, Nat)
  <2> SUFFICES ASSUME NEW i \in (1 + 1)..top, NEW w \in Nat PROVE step[<<i, w>>] \in Nat
    BY DEF Stays
  <2>1. i \in 2..top
    OBVIOUS
  <2>2. step[<<i, w>>] = w + sizes[i - 1] /\ sizes[i - 1] \in Nat
    BY <1>1, <1>2, <2>1
  <2> QED
    BY <2>2
<1>4. \E f : Recurses(f, base, step, 1, top, Nat)
  <2>1. 1 \in Int /\ top \in Int /\ 1 <= top
    BY <1>0
  <2> QED
    BY <1>3, <2>1, Recursion
<1>5. PICK f \in [1..top -> Nat] : f[1] = base /\ \A i \in 2..top : f[i] = step[<<i, f[i - 1]>>]
  <2>1. 1 + 1 = 2
    OBVIOUS
  <2> QED
    BY <1>4, <2>1 DEF Recurses
<1>6. ASSUME NEW i \in 2..top PROVE f[i] = f[i - 1] + sizes[i - 1]
  <2>1. f[i - 1] \in Nat
    BY <1>1, <1>5
  <2>2. f[i] = step[<<i, f[i - 1]>>]
    BY <1>5
  <2> QED
    BY <1>2, <2>1, <2>2
<1>7. \A i \in 1..top : f[i] = IF i = 1 THEN base ELSE f[i - 1] + sizes[i - 1]
  <2>1. \A i \in 1..top : i # 1 => i \in 2..top
    BY <1>0
  <2> QED
    BY <1>5, <1>6, <2>1
<1>8. P(f)
  BY <1>5, <1>7
<1>9. From(sizes, base) = CHOOSE g : P(g)
  BY DEF From, total, top
<1> DEFINE g == From(sizes, base)
<1>10. P(g)
  <2> HIDE DEF P, g
  <2>1. g = CHOOSE h : P(h)
    BY <1>9 DEF g
  <2> QED
    BY <1>8, <2>1
<1> HIDE DEF g
<1>11. g[1] = base /\ DOMAIN g = 1..top
  BY <1>0, <1>10
<1>12. ASSUME NEW i \in 1..total PROVE g[i + 1] = g[i] + sizes[i]
  <2>1. i + 1 \in 1..top /\ i + 1 # 1 /\ (i + 1) - 1 = i
    BY <1>0
  <2>2. g[i + 1] = g[(i + 1) - 1] + sizes[(i + 1) - 1]
    BY <1>10, <2>1
  <2> QED
    BY <2>1, <2>2
<1> DEFINE T == {k \in 1..top : g[k] \in Nat}
<1>13. 1 \in T
  BY <1>0, <1>11
<1>14. \A i \in 1..(top - 1) : i \in T => i + 1 \in T
  <2> SUFFICES ASSUME NEW i \in 1..total, g[i] \in Nat PROVE i + 1 \in 1..top /\ g[i + 1] \in Nat
    BY <1>0
  <2>1. g[i + 1] = g[i] + sizes[i]
    BY <1>12
  <2>2. sizes[i] \in Nat
    BY <1>0
  <2> QED
    BY <1>0, <2>1, <2>2
<1>15. \A i \in 1..top : i \in T
  <2> HIDE DEF T
  <2>1. 1 \in Int /\ top \in Int
    BY <1>0
  <2> QED
    BY ONLY <1>13, <1>14, <2>1, UpTo, Zenon
<1>16. g \in [1..top -> Nat]
  <2>1. g = [i \in 1..top |-> g[i]]
    BY <1>10, <1>11
  <2> QED
    BY <1>15, <2>1
<1> QED
  BY <1>11, <1>12, <1>16 DEF g, total, top

LEMMA EndIsBeyond ==
  ASSUME NEW sizes \in Seq(Nat), NEW base \in Nat
  PROVE  EndOf(sizes, base) \in Nat /\ EndOf(sizes, base) >= base
<1> DEFINE total == Len(sizes)
           top == total + 1
           g == From(sizes, base)
           T == {k \in 1..top : g[k] >= base}
<1>1. total \in Nat /\ top \in Nat /\ top = total + 1 /\ \A i \in 1..total : sizes[i] \in Nat
  OBVIOUS
<1>2. g \in [1..top -> Nat] /\ g[1] = base /\ \A i \in 1..total : g[i + 1] = g[i] + sizes[i]
  BY RunningSum
<1> HIDE DEF g, total, top
<1>3. 1 \in T
  BY <1>1, <1>2
<1>4. \A i \in 1..(top - 1) : i \in T => i + 1 \in T
  <2> SUFFICES ASSUME NEW i \in 1..total, g[i] >= base PROVE i + 1 \in 1..top /\ g[i + 1] >= base
    BY <1>1
  <2>1. i \in 1..top /\ g[i] \in Nat /\ sizes[i] \in Nat /\ g[i + 1] = g[i] + sizes[i]
    BY <1>1, <1>2
  <2> QED
    BY <1>1, <2>1
<1>5. \A i \in 1..top : i \in T
  <2> HIDE DEF T
  <2>1. 1 \in Int /\ top \in Int
    BY <1>1
  <2> QED
    BY ONLY <1>3, <1>4, <2>1, UpTo, Zenon
<1>6. top \in 1..top
  BY <1>1
<1>7. g[top] \in Nat /\ g[top] >= base
  BY <1>2, <1>5, <1>6
<1> QED
  BY <1>7 DEF EndOf, g, total, top

(* The cursor steps over each entry that is not a flag as far as its writer did. *)
LEMMA SkipsWhatIsWritten ==
  ASSUME NEW w \in [type : Nat, len : Nat, of : (0..12) \ {9}],
         w.type \in (0..12) \ {7}, w.of # 7, w.type = 9 => w.len <= MaxArray
  PROVE  SkipValue(w) = Written(w) /\ Written(w) \in Nat
<1>1. \A t \in (0..12) \ {7} : Element(t) \in Nat
  BY DEF Element, Fixed8
<1>2. CASE w.type \in Scalar
  <2>1. w.type \in 0..12 /\ w.type # 8 /\ w.type # 7
    BY <1>2 DEF Scalar
  <2>2. Element(w.type) = Fixed8[w.type]
    BY <2>1 DEF Element
  <2>3. SkipValue(w) = Fixed8[w.type] /\ Written(w) = Element(w.type)
    BY <1>2, <2>1 DEF SkipValue, Written
  <2> QED
    BY <1>1, <2>1, <2>2, <2>3
<1>3. CASE w.type = 8
  <2>1. w.type \notin Scalar
    BY <1>3 DEF Scalar
  <2>2. w.len \in Nat
    OBVIOUS
  <2> QED
    BY <1>3, <2>1, <2>2 DEF SkipValue, Written
<1>4. CASE w.type = 9
  <2>1. w.type \notin Scalar
    BY <1>4 DEF Scalar
  <2>2. w.len \in Nat /\ Element(w.of) \in Nat
    BY <1>1
  <2>3. SkipValue(w) = 4 + 8 + w.len * Element(w.of)
    <3>1. AtMost(w.len, MaxArray) = w.len
      BY <1>4 DEF AtMost
    <3> QED
      BY <1>4, <2>1, <3>1 DEF SkipValue
  <2>4. Written(w) = 4 + 8 + w.len * Element(w.of)
    BY <1>4, <2>1 DEF Written
  <2>5. \A a, b \in Nat : a * b \in Nat
    OBVIOUS
  <2>6. w.len * Element(w.of) \in Nat
    BY <2>2, <2>5
  <2> DEFINE k == w.len * Element(w.of)
  <2> HIDE DEF k
  <2>7. SkipValue(w) = 4 + 8 + k /\ Written(w) = 4 + 8 + k /\ k \in Nat
    BY <2>3, <2>4, <2>6 DEF k
  <2> QED
    BY <2>7
<1>5. w.type \in Scalar \/ w.type = 8 \/ w.type = 9
  BY DEF Scalar
<1> QED
  BY <1>2, <1>3, <1>4, <1>5

LEMMA Aligned ==
  ASSUME NEW total \in Nat
  PROVE  /\ Align32(total) \in Nat /\ Align32(total) >= total /\ Align32(total) < total + 32
         /\ Align32(total) % 32 = 0
  BY DEF Align32

(* A file that the run may try is found where its writer put it. *)
LEMMA FoundOfFile == gguf \in GgufFiles => FoundWhereWritten
<1> DEFINE kvs   == [i \in 1..Len(gguf.kvs) |-> Key + Written(gguf.kvs[i])]
           infos == [i \in 1..Len(gguf.tensors) |-> TensorInfo(gguf.tensors[i])]
           end   == EndOf(infos, EndOf(kvs, HeaderEnd))
           read  == [i \in 1..AtMost(Len(gguf.kvs), MaxKv) |-> Key + SkipValue(gguf.kvs[i])]
           got   == ParseSummary(gguf)
<1> SUFFICES ASSUME gguf \in GgufFiles, Len(gguf.kvs) <= MaxKv,
                    \A i \in DOMAIN kvs : gguf.kvs[i].type \in (0..12) \ {7} /\ gguf.kvs[i].of # 7,
                    \A i \in DOMAIN kvs : gguf.kvs[i].type = 9 => gguf.kvs[i].len <= MaxArray,
                    \A i \in DOMAIN gguf.tensors : gguf.tensors[i].dims <= 8,
                    gguf.magic = "GGUF", gguf.version = 3
             PROVE  /\ got.verdict = "Ok" <=> gguf.held >= end
                    /\ got.verdict = "Ok" => /\ got.data >= end /\ got.data < end + 32
                                             /\ gguf.tensors # <<>> => got.data % 32 = 0
  BY DEF FoundWhereWritten
<1>1. /\ gguf.held \in Nat /\ MaxKv \in Nat
      /\ gguf.kvs \in Seq([type : Nat, len : Nat, of : (0..12) \ {9}])
      /\ gguf.tensors \in Seq([dims : Nat])
  BY GgufAssumption
<1>2. /\ Len(gguf.kvs) \in Nat /\ Len(gguf.tensors) \in Nat
      /\ \A i \in 1..Len(gguf.kvs) : gguf.kvs[i] \in [type : Nat, len : Nat, of : (0..12) \ {9}]
      /\ \A i \in 1..Len(gguf.tensors) : gguf.tensors[i] \in [dims : Nat]
      /\ DOMAIN gguf.tensors = 1..Len(gguf.tensors)
  <2>1. \A S, s : s \in Seq(S) => Len(s) \in Nat /\ DOMAIN s = 1..Len(s) /\ \A i \in 1..Len(s) : s[i] \in S
    OBVIOUS
  <2> QED
    BY ONLY <1>1, <2>1
<1>3. \A i \in 1..Len(gguf.kvs) : /\ SkipValue(gguf.kvs[i]) = Written(gguf.kvs[i])
                                  /\ Written(gguf.kvs[i]) \in Nat
  BY <1>2, SkipsWhatIsWritten
<1>4. AtMost(Len(gguf.kvs), MaxKv) = Len(gguf.kvs)
  BY DEF AtMost
<1>5. read = kvs
  BY <1>3, <1>4
<1>6. kvs \in Seq(Nat)
  <2>1. \A i \in 1..Len(gguf.kvs) : Key + Written(gguf.kvs[i]) \in Nat
    BY <1>3 DEF Key
  <2> QED
    BY <1>2, <2>1, IsASeq
<1>7. infos \in Seq(Nat)
  <2>1. \A i \in 1..Len(gguf.tensors) : TensorInfo(gguf.tensors[i]) \in Nat
    BY <1>2 DEF TensorInfo
  <2> QED
    BY <1>2, <2>1, IsASeq
<1>8. EndOf(kvs, HeaderEnd) \in Nat /\ EndOf(kvs, HeaderEnd) >= 24
  <2> HIDE DEF kvs
  <2> QED
    BY <1>6, EndIsBeyond DEF HeaderEnd
<1>9. end \in Nat /\ end >= 24
  <2> DEFINE base == EndOf(kvs, HeaderEnd)
  <2> HIDE DEF kvs, infos, base
  <2>1. base \in Nat /\ base >= 24
    BY <1>8 DEF base
  <2>2. EndOf(infos, base) \in Nat /\ EndOf(infos, base) >= base
    BY <1>7, <2>1, EndIsBeyond
  <2>3. EndOf(infos, base) >= 24
    BY <2>1, <2>2
  <2> QED
    BY <2>2, <2>3 DEF base
<1>10. ~(\/ Len(gguf.kvs) > MaxKv
         \/ \E i \in DOMAIN read : read[i] >= Key /\ read[i] # Key + Written(gguf.kvs[i]))
  <2>1. ~(Len(gguf.kvs) > MaxKv)
    BY <1>1, <1>2
  <2>2. \A i \in DOMAIN read : read[i] = Key + Written(gguf.kvs[i])
    BY <1>5
  <2> HIDE DEF read
  <2> QED
    BY <2>1, <2>2
<1>11. \A i \in DOMAIN read : read[i] >= Key
  <2>1. \A i \in 1..Len(gguf.kvs) : Key + Written(gguf.kvs[i]) >= Key
    BY <1>3 DEF Key
  <2> QED
    BY <1>5, <2>1
<1>12. EndOf(infos, EndOf(read, HeaderEnd)) = end
  BY <1>5
<1>13. ~ \E i \in DOMAIN gguf.tensors : gguf.tensors[i].dims > 8
  <2>1. \A i \in DOMAIN gguf.tensors : gguf.tensors[i].dims \in Nat /\ gguf.tensors[i].dims <= 8
    BY <1>2
  <2> QED
    BY <2>1
<1>14. got = IF ParseHeader(gguf) # "Ok" THEN [verdict |-> ParseHeader(gguf), data |-> 0]
             ELSE IF gguf.held < end THEN [verdict |-> "Error", data |-> 0]
             ELSE [verdict |-> "Ok", data |-> IF gguf.tensors = <<>> THEN end ELSE Align32(end)]
  <2>1. got = IF ParseHeader(gguf) # "Ok" THEN [verdict |-> ParseHeader(gguf), data |-> 0]
              ELSE IF (\/ Len(gguf.kvs) > MaxKv
                       \/ \E i \in DOMAIN read : read[i] >= Key /\ read[i] # Key + Written(gguf.kvs[i]))
              THEN [verdict |-> "Astray", data |-> 0]
              ELSE IF \/ ~(\A i \in DOMAIN read : read[i] >= Key)
                      \/ gguf.held < EndOf(infos, EndOf(read, HeaderEnd))
                      \/ \E i \in DOMAIN gguf.tensors : gguf.tensors[i].dims > 8
              THEN [verdict |-> "Error", data |-> 0]
              ELSE [verdict |-> "Ok",
                    data |-> IF gguf.tensors = <<>> THEN EndOf(infos, EndOf(read, HeaderEnd))
                             ELSE Align32(EndOf(infos, EndOf(read, HeaderEnd)))]
    BY DEF ParseSummary
  <2> HIDE DEF got, read, end, infos, kvs
  <2> QED
    BY <1>10, <1>11, <1>12, <1>13, <2>1
<1>15. gguf.held >= end => ParseHeader(gguf) = "Ok"
  <2> HIDE DEF end
  <2> QED
    BY <1>1, <1>9 DEF ParseHeader, HeaderEnd
<1>16. Align32(end) >= end /\ Align32(end) < end + 32 /\ Align32(end) % 32 = 0
  <2> HIDE DEF end
  <2> QED
    BY <1>9, Aligned
<1> HIDE DEF got, end
<1>17. CASE ParseHeader(gguf) # "Ok"
  <2>1. got.verdict = ParseHeader(gguf)
    BY <1>14, <1>17
  <2> QED
    BY <1>15, <1>17, <2>1
<1>18. CASE ParseHeader(gguf) = "Ok" /\ gguf.held < end
  <2>1. got.verdict = "Error" /\ ~(gguf.held >= end)
    BY <1>1, <1>9, <1>14, <1>18
  <2> QED
    BY <2>1
<1>19. CASE ParseHeader(gguf) = "Ok" /\ ~(gguf.held < end)
  <2>1. /\ got.verdict = "Ok" /\ gguf.held >= end
        /\ got.data = IF gguf.tensors = <<>> THEN end ELSE Align32(end)
    BY <1>1, <1>9, <1>14, <1>19
  <2>2. got.data >= end /\ got.data < end + 32
    BY <1>9, <1>16, <2>1
  <2> QED
    BY <1>16, <2>1, <2>2
<1> QED
  BY <1>17, <1>18, <1>19

-----------------------------------------------------------------------------
(* The organs that do not move: what they are given, they keep. *)
StillIInv == (organ = "weights" => file \in Files) /\ (organ = "gguf" => gguf \in GgufFiles)

LEMMA StillInductive == Spec => []StillIInv
<1>1. Init => StillIInv
  BY DEF Init, StillIInv, WeightsInit, GgufInit
<1>2. StillIInv /\ [Next]_mindVars => StillIInv'
  <2> SUFFICES ASSUME StillIInv, [Next]_mindVars PROVE StillIInv'
    OBVIOUS
  <2>1. organ' = organ /\ file' = file /\ gguf' = gguf
    BY DEF Next, Resting, mindVars, still
  <2> QED
    BY <2>1 DEF StillIInv
<1> QED
  BY <1>1, <1>2, PTL DEF Spec

(* The two codes that read a quantised row give it the same meaning, the   *)
(* packed scales are those that were packed, and an output of attention or *)
(* of the convolution sees the positions it should and no other: for every *)
(* length of the sequence, grouping of the heads, window and width.        *)
THEOREM KernelsAreRight == Spec => []KernelsReadRight
<1>1. KernelsReadRight
  BY KernelsRead DEF KernelsReadRight
<1> QED
  BY <1>1, PTL

(* The 111 parts of an accepted file fill it without a gap, each on a word *)
(* and of the length that its kernel reads, and no two matrices of the     *)
(* adapters overlap: for every file.                                       *)
THEOREM WeightsLieInPlace == Spec => []WeightsAreFound
<1>1. StillIInv => WeightsAreFound
  BY PlaceOfFile DEF StillIInv, WeightsAreFound
<1> QED
  BY <1>1, StillInductive, PTL

(* The reader of GGUF accepts a file when the buffer holds what comes      *)
(* before its data and finds the data where they were written: for any     *)
(* buffer and any number of tensors, if the file has no bools, no more     *)
(* entries than are read, and no array longer than is stepped over.        *)
THEOREM GgufReaderIsRight == Spec => []GgufIsFound
<1>1. StillIInv => GgufIsFound
  BY FoundOfFile DEF StillIInv, GgufIsFound
<1> QED
  BY <1>1, StillInductive, PTL
=============================================================================
