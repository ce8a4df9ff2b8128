----------------------------- MODULE Executive ------------------------------
(***************************************************************************)
(* The will (src/executive.rs) and what it learns from the outcomes the    *)
(* main loop reports to it.  Each tick Executive::step chooses a desire    *)
(* from the reading of the body: the homeostatic rule, corrected by what   *)
(* was learned in this circumstance or by curiosity.  Every OutcomeEvery   *)
(* ticks Executive::esito compares the error of the predictor with that of *)
(* the previous outcome and credits a desire.                              *)
(*                                                                         *)
(* The rule is a choice among the desires it can give; pain alone decides  *)
(* for itself.  Intensities and modula are left out: they change no choice.*)
(***************************************************************************)
EXTENDS BodyTick, FiniteSets

CONSTANTS Concepts, Pain,     \* concepts of the interpreter; the painful one
          Candidates,         \* the desires [0, 1, 3, 4, 5]
          Ruled,              \* those the rule gives outside pain
          Flee,               \* desire 2, FUGA
          MinSamples,         \* MIN_CAMPIONI
          Good,               \* SOGLIA_UTILE in tenths
          ExploreEvery,       \* 30 in step
          OutcomeEvery,       \* 1000 in the main loop
          Surprises,          \* errors of the predictor
          WillTicks           \* bound: ticks in a behaviour

ASSUME ExecutiveAssumption ==
  /\ Pain \in Concepts /\ Ruled \subseteq Candidates
  /\ 0 \in Candidates /\ Candidates \subseteq Nat /\ Flee \in Nat \ Candidates
  /\ MinSamples \in Nat \ {0} /\ Good \in 0..10
  /\ ExploreEvery \in Nat \ {0} /\ OutcomeEvery \in Nat \ {0}
  /\ Surprises \subseteq Nat /\ 0 \in Surprises /\ WillTicks \in Nat

Desires == Candidates \cup {Flee}
Circ    == Concepts \X BOOLEAN     \* a concept, and whether the state is new

VARIABLES good, n,            \* Preferenza: useful outcomes, outcomes
          desire,             \* desire_id
          curiosity,          \* esplora_counter
          pending,            \* esito_pendente: {} or {[circ, desire]}
          prevErr,            \* prev_pf_err of the main loop
          willPc,             \* "step", "outcome"
          before              \* history: the choice of the previous tick

willOwn  == <<good, n, desire, curiosity, pending, prevErr, willPc, before>>
willVars == <<willOwn, tick>>

WillInit == /\ good = [c \in Circ |-> [d \in Desires |-> 0]]
            /\ n    = [c \in Circ |-> [d \in Desires |-> 0]]
            /\ desire = 0 /\ curiosity = 0 /\ pending = {}
            /\ prevErr = 0 /\ TickInit /\ willPc = "step"
            /\ before = {}
-----------------------------------------------------------------------------
\* valore: only with enough samples
Trusted(c) == {d \in Candidates : n[c][d] >= MinSamples}

First(S) == CHOOSE d \in S : \A e \in S : d <= e

\* migliore: the first of the most useful, if it is useful enough
Top(c)  == {d \in Trusted(c) : \A e \in Trusted(c) : good[c][d] * n[c][e] >= good[c][e] * n[c][d]}
Best(c) == {d \in Top(c) : d = First(Top(c)) /\ 10 * good[c][d] >= Good * n[c][d]}

\* Slip: the flight is among the candidates of curiosity.
Unknown_WithFlee(c) == {d \in Desires : n[c][d] = 0}

\* mai_provato
Unknown(c) == {d \in Candidates : n[c][d] = 0}

\* Slip: the tension is tested before the pain.
Rule_TensionFirst(c) == IF c[1] = Pain THEN {Flee} \cup Ruled ELSE Ruled

\* The homeostatic rule: pain comes first.
Rule(c) == IF c[1] = Pain THEN {Flee} ELSE Ruled

\* Learning and curiosity have no say.
Sovereign(base) == base = Flee

Learned(c, base) == {d \in Best(c) : d # base}

Curious == curiosity + 1 >= ExploreEvery

\* What step chooses in the circumstance c: pain, experience, curiosity or the rule.
Chooses(c, base, d) ==
  \/ /\ Sovereign(base) /\ d = base /\ UNCHANGED curiosity
  \/ /\ ~Sovereign(base) /\ d \in Learned(c, base) /\ UNCHANGED curiosity
  \/ /\ ~Sovereign(base) /\ Learned(c, base) = {}
     /\ curiosity' = IF Curious THEN 0 ELSE curiosity + 1
     /\ IF Curious /\ Unknown(c) # {}
          THEN d = First(Unknown(c))
          ELSE d = base

\* esito_pendente of a choice
Remembered(c, d) == {[circ |-> c, desire |-> d]}

\* Executive::step, once per tick
Choose == /\ willPc = "step" /\ TickAdvances(WillTicks)
          /\ \E c \in Circ, d \in Desires :
               /\ \E base \in Rule(c) : Chooses(c, base, d)
               /\ desire' = d
               /\ pending' = Remembered(c, d)
               /\ before' = pending
          /\ willPc' = IF tick' % OutcomeEvery = 0 THEN "outcome" ELSE "step"
          /\ UNCHANGED <<good, n, prevErr>>

\* Slip: useless outcomes are not counted.
Samples_UsefulOnly(useful) == IF useful THEN 1 ELSE 0

Samples(useful) == 1

\* impara
Learn(c, d, useful) ==
  /\ good' = [good EXCEPT ![c][d] = @ + (IF useful THEN 1 ELSE 0)]
  /\ n'    = [n EXCEPT ![c][d] = @ + Samples(useful)]

\* Executive::esito with the error of this tick and that of the last outcome
Outcome == /\ willPc = "outcome" /\ willPc' = "step"
           /\ \E err \in Surprises :
                /\ IF pending = {}
                     THEN Learn(<<Pain, FALSE>>, desire, err < prevErr)
                     ELSE \E p \in pending : Learn(p.circ, p.desire, err < prevErr)
                /\ prevErr' = err
           /\ pending' = {}
           /\ UNCHANGED <<desire, curiosity, tick, before>>

WillNext == Choose \/ Outcome

WillSpec == WillInit /\ [][WillNext]_willVars
-----------------------------------------------------------------------------
Choice == [circ : Circ, desire : Desires]

\* Types and ranges; the counter of curiosity never passes its period.
WillTypeOK == /\ good \in [Circ -> [Desires -> Nat]] /\ n \in [Circ -> [Desires -> Nat]]
              /\ desire \in Desires /\ curiosity \in 0..(ExploreEvery - 1)
              /\ pending \subseteq Choice /\ before \subseteq Choice
              /\ Cardinality(pending) <= 1
              /\ prevErr \in Surprises /\ tick \in Nat /\ willPc \in {"step", "outcome"}

\* "Il dolore resta sovrano: nessuna preferenza puo' ignorarlo" (executive.rs:162):
\* in pain the desire is the flight, and nothing else ever asks for the flight;
\* what was learned respects the same line through any history of outcomes: the
\* flight is credited in pain only, and pain credits nothing else.
PainSovereign ==
  /\ \A p \in pending : p.circ[1] = Pain <=> p.desire = Flee
  /\ \A c \in Circ, d \in Desires : n[c][d] > 0 => (c[1] = Pain <=> d = Flee)

\* No outcome is lost and none is learned twice: as many samples as outcomes.
Credits == UNION {{<<x, k>> : k \in 1..n[x[1]][x[2]]} : x \in Circ \X Desires}
EveryOutcomeCounts ==
  willPc = "step" => Cardinality(Credits) = tick \div OutcomeEvery

\* executive.rs:281-282 "Apprende SOLO l'esito del desiderio che ha generato
\* questa transizione (quello scelto al tick precedente)".
CreditsThePrevious == willPc = "outcome" => before = {} \/ pending = before
=============================================================================
