------------------------------ MODULE Adapter -------------------------------
(***************************************************************************)
(* One low-rank adapter of the Nucleo and the law it learns by             *)
(* (src/plasticita.rs): U and V are summed over a frozen matrix, `passo`   *)
(* applies the three-factor rule with its decay, clamp and cap, `potatura` *)
(* prunes the dead ranks in the sleep.                                     *)
(*                                                                         *)
(* One rank is modelled (the others get the same moment and factors), by   *)
(* the norms of its two columns, in levels of which 0 is exactly zero; a   *)
(* learning step may take a norm to any level.                             *)
(* Scaling and decay never take a norm to zero, nor does an update of V    *)
(* (it would have to cancel every entry at once).                          *)
(***************************************************************************)
EXTENDS Integers

CONSTANTS Levels,        \* norms: an interval from 0
          EpsRank, EkMax \* EPS_RANK and EK_MAX, in levels

ASSUME AdapterAssumption ==
  /\ Levels \subseteq Nat /\ {0, 1, 2} \subseteq Levels
  /\ EpsRank \in Nat /\ EkMax \in Nat \ {0}

Alive == Levels \ {0}

VARIABLES u, v,          \* norms of the two columns
          lastPasso      \* history: the moment of the last call, {} after a pruning

adapterOwn == <<u, v, lastPasso>>

\* inizializza_v: V is drawn, U stays zero.
AdapterInit == /\ u = 0
               /\ v \in Alive
               /\ lastPasso = {}
-----------------------------------------------------------------------------
\* Config: the validated law and the literal one.
V21 == [gate |-> "Pos",    vrule |-> "Err",  clamp |-> "Prodotto", prune |-> "Redraw"]
V20 == [gate |-> "Signed", vrule |-> "Hebb", clamp |-> "SoloU",    prune |-> "ZeroEntrambi"]

\* Slip: the Maestro is armed with the old law.
Law_V20 == V20

\* passo_plastico passes V21.
Law == V21

\* The moment of a step: M(t) with its sign, whether lambda has opened, and
\* whether there is an input and an error.
Moments == [m : {-1, 0, 1}, open : BOOLEAN, x : BOOLEAN, e : BOOLEAN]

\* Slip: the gate lets a bad moment through.
Gated_Signed(t) == t.m

\* gate of passo
Gated(t) == IF Law.gate = "Pos" /\ t.m < 0 THEN 0 ELSE t.m

Drive(t)     == Gated(t) # 0 /\ t.open /\ t.x
LearnsU(t) == Drive(t) /\ t.e /\ v # 0
LearnsV(t) == Drive(t) /\ IF Law.vrule = "Err" THEN t.e /\ u # 0 ELSE v # 0

\* Lower levels of a norm, never zero unless it is.
Shrunk(n) == {m \in Levels : m <= n /\ (m = 0 <=> n = 0)}

\* clamp, then the cap on rho: the columns of a rank are scaled down.
Clamped(a, b) ==
  {p \in Shrunk(a) \X Shrunk(b) :
     IF Law.clamp = "Prodotto" THEN p[1] * p[2] <= EkMax ELSE p[1] <= 1}

\* passo
Passo == \E t \in Moments :
  \E a \in IF LearnsU(t) THEN Levels ELSE Shrunk(u),
     b \in IF LearnsV(t) THEN Alive ELSE Shrunk(v) :
    \E p \in Clamped(a, b) :
      /\ u' = p[1] /\ v' = p[2]
      /\ lastPasso' = {t}

Dead == u * v < EpsRank

\* Slip: a pruned rank loses both of its columns.
Redrawn_Nothing == {0}

\* What V becomes in a pruned rank.
Redrawn == IF Law.prune = "Redraw" THEN Alive ELSE {0}

\* potatura: for the host benches and, one day, the sleep.
Potatura == /\ u' = IF Dead THEN 0 ELSE u
            /\ IF Dead THEN v' \in Redrawn ELSE UNCHANGED v
            /\ lastPasso' = {}

AdapterNext == Passo \/ Potatura

AdapterSpec == AdapterInit /\ [][AdapterNext]_adapterOwn
-----------------------------------------------------------------------------
AdapterTypeOK == u \in Levels /\ v \in Levels

(* plasticita.rs:305 "con U=V=0 la regola e' ferma": no rank ever reaches  *)
(* that state, whatever is learned, decayed and pruned, so it can always   *)
(* be taught; and plasticita.rs:294 "lambda=0 significa corpo muto ->      *)
(* nessun passo di plasticita'": a silent body or a moment that is not     *)
(* good teaches nothing, no column grows in such a step.                   *)
LearnsFromGood ==
  /\ [](u # 0 \/ v # 0)
  /\ [][\A t \in lastPasso' : t.m <= 0 \/ ~t.open => u' <= u /\ v' <= v]_adapterOwn
=============================================================================
