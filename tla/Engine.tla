------------------------------- MODULE Engine -------------------------------
(***************************************************************************)
(* What the trait InferenceEngine (src/inference.rs) promises to the main  *)
(* loop, whichever runtime is behind it: a request is accepted only when   *)
(* none is open, it is answered in the end and the answer is its own, the  *)
(* answer stays readable until the next one, and the engine becomes free   *)
(* again.                                                                  *)
(***************************************************************************)
CONSTANT Readings        \* interpreted states of the body

VARIABLES stage,         \* "free", "busy", "telling"
          request,       \* {} or the reading under thought
          answer         \* {} or the reading the output is the answer to

vars == <<stage, request, answer>>

Init == stage = "free" /\ request = {} /\ answer = {}

Ask == /\ stage = "free" /\ stage' = "busy"
       /\ \E r \in Readings : request' = {r}
       /\ UNCHANGED answer

Reply == /\ stage = "busy" /\ stage' = "telling"
         /\ answer' = request /\ request' = {}

Rest == /\ stage = "telling" /\ stage' = "free"
        /\ UNCHANGED <<request, answer>>

Next == Ask \/ Reply \/ Rest

Spec == Init /\ [][Next]_vars /\ WF_vars(Reply) /\ WF_vars(Rest)
=============================================================================
