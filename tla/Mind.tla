-------------------------------- MODULE Mind --------------------------------
(***************************************************************************)
(* The organs of one tick of the main loop (src/main.rs): neurogenesis,    *)
(* the associative memory, the will, the autonomous reactions, the brain,  *)
(* the adapters it learns with, the predictor, the log with its sleep; and *)
(* what the brain runs on, where nothing happens over time: the kernels,   *)
(* the place of the weights, the reader of GGUF.                           *)
(*                                                                         *)
(* They share the clock of the body and, apart from it, read nothing of    *)
(* each other but values that their modules already let be anything: the   *)
(* error of the predictor, the state of the tissue, the concept.  An       *)
(* interleaving of two of them is therefore two behaviours side by side,   *)
(* and `organ` says whose behaviour is followed; the others rest.          *)
(***************************************************************************)
EXTENDS NeuroPool, Memoria, Executive, Autonomy, Brain, Adapter, Predictor, Journal,
        Kernels, Weights, Gguf

VARIABLE organ

still == <<workload, file, gguf>>
mindVars == <<neuroOwn, memOwn, willOwn, autoOwn, brainOwn, adapterOwn, predOwn,
              journalOwn, still, tick, organ>>

Organs == {"neurogenesis", "memoria", "executive", "autonomy", "brain", "adapter",
           "predictor", "journal", "kernels", "weights", "gguf"}

Init ==
  /\ organ \in Organs
  /\ NeuroInit /\ MemInit /\ WillInit /\ AutoInit /\ PredInit /\ JournalInit
  /\ BrainInit
  /\ organ # "brain" => runtime = "stub" /\ {input, body} = {CHOOSE r \in Readings : TRUE}
  /\ AdapterInit /\ (organ # "adapter" => v = CHOOSE m \in Alive : TRUE)
  /\ IF organ = "kernels" THEN KernelsInit ELSE workload = NoWork
  /\ IF organ = "weights" THEN WeightsInit ELSE file = CHOOSE f \in Files : TRUE
  /\ IF organ = "gguf" THEN GgufInit ELSE gguf = CHOOSE f \in GgufFiles : TRUE

Resting(others) == UNCHANGED <<others, still, organ>>

Next ==
  \/ /\ organ = "neurogenesis" /\ NeuroNext
     /\ Resting(<<memOwn, willOwn, autoOwn, brainOwn, adapterOwn, predOwn, journalOwn>>)
  \/ /\ organ = "memoria" /\ MemNext
     /\ Resting(<<neuroOwn, willOwn, autoOwn, brainOwn, adapterOwn, predOwn, journalOwn>>)
  \/ /\ organ = "executive" /\ WillNext
     /\ Resting(<<neuroOwn, memOwn, autoOwn, brainOwn, adapterOwn, predOwn, journalOwn>>)
  \/ /\ organ = "autonomy" /\ AutoNext
     /\ Resting(<<neuroOwn, memOwn, willOwn, brainOwn, adapterOwn, predOwn, journalOwn>>)
  \/ /\ organ = "brain" /\ BrainNext
     /\ Resting(<<neuroOwn, memOwn, willOwn, autoOwn, adapterOwn, predOwn, journalOwn, tick>>)
  \/ /\ organ = "adapter" /\ AdapterNext
     /\ Resting(<<neuroOwn, memOwn, willOwn, autoOwn, brainOwn, predOwn, journalOwn, tick>>)
  \/ /\ organ = "predictor" /\ PredNext
     /\ Resting(<<neuroOwn, memOwn, willOwn, autoOwn, brainOwn, adapterOwn, journalOwn, tick>>)
  \/ /\ organ = "journal" /\ JournalNext
     /\ Resting(<<neuroOwn, memOwn, willOwn, autoOwn, brainOwn, adapterOwn, predOwn>>)

\* The loop ticks the brain in every tick; nothing else here owes a step.
Spec == Init /\ [][Next]_mindVars /\ WF_brainOwn(organ = "brain" /\ BrainNext)

(* Types and ranges of every organ: no index leaves its ring or pool, no   *)
(* counter its period.                                                     *)
TypeOK == /\ NeuroTypeOK /\ MemTypeOK /\ WillTypeOK /\ AutoTypeOK
          /\ BrainTypeOK /\ AdapterTypeOK /\ PredTypeOK /\ JournalTypeOK

(* Pain is sovereign in what the will chooses and in what it learns        *)
(* (PainSovereign), and no outcome is lost or learned twice, the samples   *)
(* keeping up with the clock (EveryOutcomeCounts), for a will that does    *)
(* not rest.                                                               *)
WillLearnsRight == organ = "executive" => PainSovereign /\ EveryOutcomeCounts

(* Every quantised weight is read once, with its own scale                 *)
(* (EveryWeightOnce), and an output sees the positions it should, through  *)
(* all the strides (SeesWhatItShould), for each workload that is tried.    *)
KernelsReadRight == organ = "kernels" => EveryWeightOnce /\ SeesWhatItShould

(* Weights and adapters lie where the kernels look for them                *)
(* (WeightsInPlace), for each file that is tried.                          *)
WeightsAreFound == organ = "weights" => WeightsInPlace

(* The reader of GGUF ends where the writer put the data                   *)
(* (FoundWhereWritten), for each file that is tried.                       *)
GgufIsFound == organ = "gguf" => FoundWhereWritten
=============================================================================
