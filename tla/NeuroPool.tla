----------------------------- MODULE NeuroPool ------------------------------
(***************************************************************************)
(* Neurogenesis (src/neurogenesis.rs) as the main loop drives it, once per *)
(* tick and cell: birth_check counts the ticks of surprise, clone_neuron   *)
(* fills the first free slot, and trial_step judges every clone, the one   *)
(* just born included.                                                     *)
(*                                                                         *)
(* One cell is modelled: the loop gives the four cells the same errors and *)
(* they share only the two counters.  Errors are integers; the average of  *)
(* trial_step is compared as a sum.  Mutated weights are left out, no code *)
(* reads them.                                                             *)
(***************************************************************************)
EXTENDS BodyTick, FiniteSets

CONSTANTS Slots,          \* EXTRA_SLOTS
          Persistence,    \* BIRTH_PERSISTENCE
          Trial,          \* TRIAL_TICKS
          Threshold,      \* BIRTH_ERROR_THRESHOLD
          Errors,         \* the prediction errors a tick may bring
          NeuroTicks      \* bound: ticks in a behaviour

ASSUME NeuroAssumption ==
  /\ Slots \in Nat /\ Persistence \in Nat \ {0} /\ Trial \in Nat \ {0}
  /\ Threshold \in Nat /\ Errors \subseteq Nat /\ NeuroTicks \in Nat

CloneSlot == 0..Slots-1

VARIABLES clone,          \* slots: {} or {[left, sum, born]}
          persist,
          births, prunes, \* NeuroPool: counters
          lastCalm,       \* history: the last tick without surprise
          lastBirth,      \* history: the last tick birth_check fired
          survivors       \* history: slots whose trial ended well

neuroOwn  == <<clone, persist, births, prunes, lastCalm, lastBirth, survivors>>
neuroVars == <<neuroOwn, tick>>

Living == {s \in CloneSlot : clone[s] # {}}
Free   == CloneSlot \ Living

NeuroInit == /\ clone = [s \in CloneSlot |-> {}]
             /\ persist = 0 /\ births = 0 /\ prunes = 0
             /\ TickInit /\ lastCalm = 0 /\ lastBirth = 0 /\ survivors = {}
-----------------------------------------------------------------------------
\* Slip: a calm tick keeps the count.
Count_Sticky(surprise) == IF surprise THEN persist + 1 ELSE persist

\* birth_check
Count(surprise) == IF surprise THEN persist + 1 ELSE 0
Fires(surprise) == surprise /\ Count(surprise) >= Persistence
Kept(count)     == 0

\* Slip: the trial of a newborn is over at once.
Newborn_Judged == [left |-> 1, sum |-> 0, born |-> tick']

Newborn == [left |-> Trial, sum |-> 0, born |-> tick']

\* clone_neuron: a full pool refuses.
Cloned(fires) ==
  IF fires /\ Free # {}
    THEN [clone EXCEPT ![CHOOSE s \in Free : \A t \in Free : s <= t] = {Newborn}]
    ELSE clone

\* trial_step: a step of the trial, and what is left of the clone after it.
TrialStep(n, e)  == [n EXCEPT !.left = IF @ > 0 THEN @ - 1 ELSE 0, !.sum = @ + e]
Over(n)     == n.left = 0
Fails(n)    == Over(n) /\ n.sum >= Threshold * Trial

\* Slip: pruned slots are not counted.
Pruned_Uncounted(dead) == prunes

Pruned(dead) == prunes + Cardinality(dead)

\* One tick: the error of the predictor, and whether the energy is low.
NeuroTick(e, weak) ==
  LET surprise == e > Threshold \/ weak
      fires    == Fires(surprise)
      pool     == Cloned(fires)
      tried    == [s \in CloneSlot |-> {TrialStep(n, e) : n \in pool[s]}]
      dead     == {s \in CloneSlot : \E n \in tried[s] : Fails(n)}
  IN /\ TickAdvances(NeuroTicks)
     /\ persist' = IF fires THEN Kept(Count(surprise)) ELSE Count(surprise)
     /\ births' = births + Cardinality({s \in CloneSlot : pool[s] # clone[s]})
     /\ clone' = [s \in CloneSlot |-> IF s \in dead THEN {} ELSE tried[s]]
     /\ prunes' = Pruned(dead)
     /\ lastCalm' = IF surprise THEN lastCalm ELSE tick'
     /\ lastBirth' = IF fires THEN tick' ELSE lastBirth
     /\ survivors' = {s \in CloneSlot : \E n \in clone'[s] : Over(n)}

NeuroNext == \E e \in Errors, weak \in BOOLEAN : NeuroTick(e, weak)

NeuroSpec == NeuroInit /\ [][NeuroNext]_neuroVars
-----------------------------------------------------------------------------
Clones == [left : 0..Trial, sum : Nat, born : 1..NeuroTicks]

NeuroTypeOK == /\ \A s \in CloneSlot : \A n \in clone[s] : n \in Clones /\ clone[s] = {n}
               /\ persist \in 0..(Persistence - 1)
               /\ births \in Nat /\ prunes \in Nat /\ tick \in Nat
               /\ lastCalm \in 0..tick /\ lastBirth \in 0..tick
               /\ survivors \subseteq CloneSlot

(* A birth is a need (neurogenesis.rs:19): it follows a full run of        *)
(* surprised ticks, none of them calm and none of them used by the birth   *)
(* before; every clone gets the whole of its trial, none dies younger; and *)
(* the counters of the serial diagnosis agree with the pool: what was born *)
(* and not pruned is alive.                                                *)
BornAndTried ==
  /\ [][lastBirth' # lastBirth =>
          tick' - lastCalm >= Persistence /\ tick' - lastBirth >= Persistence]_neuroVars
  /\ [][\A s \in CloneSlot : \A m \in clone[s] :
          ~(\E k \in clone'[s] : k.born = m.born) => tick' - m.born >= Trial - 1]_neuroVars
  /\ [](births = prunes + Cardinality(Living))

(* neurogenesis.rs:195 "il clonato riduce la sorpresa: sopravvive (resta   *)
(* nel pool)": a clone that passed its trial stays.                        *)
SurvivorsStay == [][survivors \subseteq survivors']_neuroVars
=============================================================================
