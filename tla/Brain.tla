------------------------------- MODULE Brain --------------------------------
(***************************************************************************)
(* The brain in the metal and the tick that drives it: the two runtimes of *)
(* InferenceEngine (src/inference.rs StubBrain, src/nucleo.rs NucleoBrain) *)
(* behind the dispatcher AnyBrain, and the part of src/main.rs that asks,  *)
(* collects and hands the answer to the will.                              *)
(*                                                                         *)
(* A reading of the body (int_rep.chemio with what set_corpo is told of    *)
(* it) is a value of Readings; an answer is known by the reading it        *)
(* reflects.  The transformer is left out but for what the control does    *)
(* with it: one layer per tick, a layer whose kernels fail is skipped in   *)
(* silence (`let _ =`), and the Maestro gives each layer two lessons, on   *)
(* W_o and on W_down, with the word and the error of the cycle.            *)
(***************************************************************************)
EXTENDS Integers

CONSTANTS Layers,        \* N_LAYERS
          Think,         \* T_THINK
          Readings

\* 12 and 25: of a work of one tick the will would hear answers without a pause.
ASSUME BrainAssumption ==
  Layers \in Nat \ {0, 1} /\ Think \in Nat \ {0, 1} /\ Readings # {}

Runtimes    == {"stub", "nucleo"}
Projections == {"Wo", "Down"}

VARIABLES runtime,       \* AnyBrain
          thought,       \* state: [is : {"Idle", "Thinking", "Output"}, left]
          layer,         \* current_layer
          input,
          output,        \* Option: {} or the reading it reflects
          word,          \* Maestro m_meta and lam: the reading last told to it
          error,         \* e_som, e_hidden: {} or <<input, previous output>>
          body,          \* int_rep of this tick
          heard,         \* brain_output, while brain_has_output
          brainPc,       \* "ask", "tick", "will"
          lessons,       \* history: lessons of this cycle
          asked,         \* history: ticks since the last submit, up to Latency + 3
          stale          \* history: last ticks in which the will heard an answer, up to 4

brainOwn == <<runtime, thought, layer, input, output, word, error, body, heard,
              brainPc, lessons, asked, stale>>

Idle        == [is |-> "Idle", left |-> 0]
Thinking(n) == [is |-> "Thinking", left |-> n]
Output(n)   == [is |-> "Output", left |-> n]

\* main: the module of weights parses, and the Maestro is armed, or the stub.
BrainInit == /\ runtime \in Runtimes
             /\ thought = Idle /\ layer = 0
             /\ input \in Readings /\ output = {}
             /\ word = {} /\ error = {}
             /\ body \in Readings /\ heard = {}
             /\ brainPc = "ask"
             /\ lessons = {} /\ asked = 0 /\ stale = 0
-----------------------------------------------------------------------------
\* The work of a request: what `submit` puts in ticks_left.
Latency == IF runtime = "stub" THEN Think ELSE Layers

\* Slip: the body speaks to the Maestro at every tick.
SetCorpo_EveryTick == IF runtime = "nucleo" THEN word' = {body} ELSE UNCHANGED word

\* set_corpo: main calls it when the brain is idle; the stub ignores it.
SetCorpo == IF runtime = "nucleo" /\ thought = Idle THEN word' = {body} ELSE UNCHANGED word

\* Slip: a request is accepted while the answer is out.
Accepting_NotThinking == thought.is # "Thinking"

Accepting == thought = Idle

\* submit, refused unless idle.  The error is the reading minus the answer before.
Submit == /\ Accepting
          /\ input' = body
          /\ thought' = Thinking(Latency)
          /\ layer' = 0
          /\ error' = IF runtime = "nucleo" /\ output # {} THEN {<<body, output>>} ELSE {}
          /\ lessons' = {} /\ asked' = 0

Ask == /\ brainPc = "ask" /\ brainPc' = "tick"
       /\ SetCorpo
       /\ Submit \/ (~Accepting /\ UNCHANGED <<input, thought, layer, error, lessons, asked>>)
       /\ UNCHANGED <<runtime, output, body, heard, stale>>

\* forward_layer: the lessons given before a kernel fails.
Lessons(l, done) == {[layer |-> l, on |-> p, by |-> word, of |-> error] : p \in done}
Given == {{}, {"Wo"}, Projections}

\* tick while thinking; Finished when the work is over.
Finished(next) == IF runtime = "stub" THEN thought.left <= 1 ELSE next >= Layers
Left(next)     == IF runtime = "stub" THEN thought.left - 1 ELSE Layers - next

ThinkOn ==
  /\ thought.is = "Thinking"
  /\ \E done \in IF runtime = "stub" THEN {{}} ELSE Given :
       LET next == IF runtime = "stub" THEN layer ELSE layer + 1 IN
       /\ layer' = next
       /\ lessons' = lessons \cup Lessons(layer, done)
       /\ IF Finished(next)
            THEN output' = {input} /\ thought' = Output(2)
            ELSE thought' = Thinking(Left(next)) /\ UNCHANGED output

\* tick while the answer is out.
TellOn == /\ thought.is = "Output"
          /\ thought' = IF thought.left <= 1 THEN Idle ELSE Output(thought.left - 1)
          /\ UNCHANGED <<layer, output, lessons>>

\* brain.tick() and what main does when it is true.
Ready(was, now) == was = "Output" \/ now = "Output"

BrainTick == /\ brainPc = "tick" /\ brainPc' = "will"
             /\ ThinkOn \/ TellOn
             /\ heard' = IF Ready(thought.is, thought'.is) THEN output' ELSE heard
             /\ asked' = IF asked <= Latency + 2 THEN asked + 1 ELSE asked
             /\ UNCHANGED <<runtime, input, word, error, body, stale>>

\* Slip: the flag is not taken down.
Consume_Never == UNCHANGED heard

Consume == heard' = {}

\* rep_for_exec: the answer if there is one, otherwise the body; next tick.
Will == /\ brainPc = "will" /\ brainPc' = "ask"
        /\ Consume
        /\ stale' = IF heard = {} THEN 0 ELSE IF stale <= 3 THEN stale + 1 ELSE stale
        /\ body' \in Readings
        /\ UNCHANGED <<runtime, thought, layer, input, output, word, error, lessons, asked>>

BrainNext == Ask \/ BrainTick \/ Will
-----------------------------------------------------------------------------
Thoughts == {Idle} \cup {Thinking(n) : n \in 1..(Think + Layers)} \cup {Output(n) : n \in 1..2}

BrainTypeOK ==
  /\ runtime \in Runtimes /\ thought \in Thoughts /\ layer \in 0..Layers
  /\ input \in Readings /\ body \in Readings
  /\ output \subseteq Readings /\ word \subseteq Readings /\ heard \subseteq Readings
  /\ brainPc \in {"ask", "tick", "will"}
  /\ \A x \in lessons : x.layer \in 0..(Layers - 1) /\ x.on \in Projections
  /\ asked \in 0..(Latency + 3) /\ stale \in 0..4

(* The comment "l'ultimo output del cervello, consumato dall'executive":   *)
(* an answer replaces the body in the will for three ticks at most, and it *)
(* is the answer to a reading no older than one cycle.  Pain that arrives  *)
(* meanwhile is heard as soon as the three ticks are over.                 *)
WillIsFresh == stale <= 3 /\ (heard # {} => heard = {input} /\ asked <= Latency + 2)

(* The lessons of a cycle agree: whatever a layer learns from one of its   *)
(* two projections, it learns with the word of the body and the error that *)
(* were set when the reading was submitted, however the body changes       *)
(* meanwhile.                                                              *)
CycleIsCoherent == \A x \in lessons : x.by = {input} /\ x.of = error

\* The contract of the trait: both runtimes implement it.
Contract == INSTANCE Engine WITH
  stage   <- [Idle |-> "free", Thinking |-> "busy", Output |-> "telling"][thought.is],
  request <- IF thought.is = "Thinking" THEN {input} ELSE {},
  answer  <- output
ImplementsEngine == Contract!Spec
=============================================================================
