------------------------------ MODULE Memoria -------------------------------
(***************************************************************************)
(* The associative memory (src/cfc.rs pattern_store, pattern_recall,       *)
(* pattern_clear) and what one tick of the main loop does with it: the     *)
(* serial command (STORE, FORGET), the step of the tissue, then the store  *)
(* forced by the predictor or, every tenth tick, the automatic one.        *)
(*                                                                         *)
(* A state of the tissue is an abstract value; of the cosine similarity    *)
(* only what the stores test is kept, whether it reaches                   *)
(* PATTERN_SIM_THRESH.  The zero state has similarity 0 with every state,  *)
(* itself included.                                                        *)
(***************************************************************************)
EXTENDS BodyTick, Sequences

CONSTANTS Cap,          \* PATTERN_CAP
          States,       \* packed states of the tissue
          Zero,         \* the state whose components are all zero
          Kin,          \* the pairs {a, b} of other states that are similar
          Every,        \* the period of the automatic store (10)
          MemTicks      \* bound: ticks in a behaviour

ASSUME MemoriaAssumption ==
  /\ Cap \in Nat \ {0} /\ Every \in Nat \ {0} /\ MemTicks \in Nat
  /\ Zero \in States

VARIABLES cells, ticks, \* PATTERN_CELLS, PATTERN_TICKS
          count, head,  \* PATTERN_COUNT, PATTERN_HEAD
          state,        \* the packed cells of the tissue
          memPc,        \* "command": the tick has yet to begin; "step"
          own           \* history: the slots the body filled by itself

ring == <<cells, ticks, count, head, own>>
memOwn  == <<ring, state, memPc>>
memVars == <<memOwn, tick>>

Slot == 0..Cap-1

MemInit == /\ cells = [i \in Slot |-> Zero] /\ ticks = [i \in Slot |-> 0]
           /\ count = 0 /\ head = 0 /\ own = {}
           /\ TickInit /\ state = Zero /\ memPc = "command"
-----------------------------------------------------------------------------
\* pattern_similarity(a, b) >= PATTERN_SIM_THRESH
Similar(a, b) == a # Zero /\ b # Zero /\ (a = b \/ {a, b} \in Kin)

\* Slips: the clearing forgets HEAD; HEAD does not wrap.
ClearedHead_Kept == head
NextHead_NoWrap  == head + 1

ClearedHead == 0
NextHead    == (head + 1) % Cap
NextCount   == IF count < Cap THEN count + 1 ELSE count

\* pattern_store of the packed cells p at tick t, by the body or by a command
Store(t, p, byBody) ==
  /\ cells' = [cells EXCEPT ![head] = p]
  /\ ticks' = [ticks EXCEPT ![head] = t]
  /\ count' = NextCount /\ head' = NextHead
  /\ own' = IF byBody THEN own \cup {head} ELSE own \ {head}

\* pattern_clear: the slots keep their bytes.
Clear == count' = 0 /\ head' = ClearedHead /\ own' = {} /\ UNCHANGED <<cells, ticks>>

\* Slip: the search looks at the first pattern only.
Novel_First(p) == count = 0 \/ ~Similar(p, cells[0])

\* pattern_recall finds nothing at PATTERN_SIM_THRESH or above.
Novel(p) == \A i \in 0..count-1 : ~Similar(p, cells[i])
-----------------------------------------------------------------------------
\* Until here the tick: no command, STORE or FORGET, on the state before the step.
MemCommand == /\ memPc = "command" /\ memPc' = "step"
              /\ TickAdvances(MemTicks)
              /\ \/ UNCHANGED ring
                 \/ Store(tick', state, FALSE)
                 \/ Clear
              /\ UNCHANGED state

\* The automatic store of every Every-th tick, or the forced one of the others.
StoreDue(forced) == tick % Every = 0 \/ forced

\* The tissue steps to the state s; force_store is the predictor's answer.
MemStep == /\ memPc = "step" /\ memPc' = "command"
           /\ \E s \in States, forced \in BOOLEAN :
                /\ state' = s
                /\ IF StoreDue(forced) /\ Novel(s)
                     THEN Store(tick, s, TRUE)
                     ELSE UNCHANGED ring
           /\ UNCHANGED tick

MemNext == MemCommand \/ MemStep

MemSpec == MemInit /\ [][MemNext]_memVars
-----------------------------------------------------------------------------
\* The k-th oldest slot in use.
Oldest(k) == (IF count = Cap THEN head + k - 1 ELSE k - 1) % Cap

\* Types and ranges.
MemTypeOK == /\ cells \in [Slot -> States] /\ ticks \in [Slot -> 0..MemTicks]
             /\ count \in 0..Cap /\ head \in Slot /\ own \subseteq Slot
             /\ tick \in Nat /\ state \in States /\ memPc \in {"command", "step"}

\* A pattern the body kept by itself (forced or automatic, src/main.rs) was new:
\* no older pattern still in memory is similar to it, through every wrap,
\* FORGET and STORE.
NoDuplicates ==
  \A j, k \in 1..count : j < k /\ Oldest(k) \in own =>
    ~Similar(cells[Oldest(k)], cells[Oldest(j)])

\* The ring (PATTERN_HEAD, PATTERN_COUNT, PATTERN_CELLS) always holds exactly
\* the last Cap patterns stored since the last FORGET, in order, each with the
\* tick it was stored at.
Mem == INSTANCE Recent WITH
  Items <- (0..MemTicks) \X States,
  recent <- [k \in 1..count |-> <<ticks[Oldest(k)], cells[Oldest(k)]>>]
ImplementsRecent == Mem!RecentSpec
=============================================================================
