------------------------------ MODULE Autonomy ------------------------------
(***************************************************************************)
(* What the body does without the brain in each tick of the main loop: the *)
(* startle reflex (src/riflesso.rs) on the energy of the sound, which is   *)
(* the stimulus of the SUONO command while it lasts and the microphone     *)
(* otherwise, and every FanEvery ticks the homeostasis (src/omeostasi.rs): *)
(* two regulators with hysteresis, on the memory and on the temperature,   *)
(* drive one fan.  The temperature sensor may have no reading to give.     *)
(*                                                                         *)
(* Energies are 0 (quiet), 1 and 2 (loud); a reading is 0 (below the       *)
(* band), 1 (in the band) or 2 (above it).                                 *)
(***************************************************************************)
EXTENDS BodyTick

CONSTANTS Refractory,     \* ticks of rest after a startle (200)
          FanEvery,       \* period of the homeostasis (500)
          MaxStim,        \* bound: ticks asked of SUONO
          AutoTicks       \* bound: ticks in a behaviour

ASSUME AutonomyAssumption ==
  /\ Refractory \in Nat /\ FanEvery \in Nat \ {0}
  /\ MaxStim \in Nat /\ AutoTicks \in Nat

Level == 0..2
None  == -1                  \* no reading; SPINTA -1; no sound perceived yet

VARIABLES mark,              \* mark_omeo
          autoPc,            \* "command", "reflex", "omeostasi"
          stim,              \* UDITO_STIM: [energy, left]
          spinta,            \* SPINTA
          prev, rest,        \* Riflesso: energia_prec with prima_volta, resta
          memHigh, tempHigh, \* Regolatore: alto
          fan,               \* the actuator "ventola"
          startle, calm,     \* history: tick of the last startle, of the last quiet
          lastMem, lastTemp, \* history: the last reading outside the band
          blind              \* history: the last homeostasis had no temperature

reflex == <<prev, rest, startle, calm>>
homeo  == <<mark, memHigh, tempHigh, fan, lastMem, lastTemp, blind>>
autoOwn  == <<autoPc, spinta, reflex, homeo, stim>>
autoVars == <<autoOwn, tick>>

AutoInit == /\ TickInit /\ mark = 0 /\ autoPc = "command"
            /\ stim = [energy |-> 0, left |-> 0] /\ spinta = None
            /\ prev = None /\ rest = 0
            /\ memHigh = FALSE /\ tempHigh = FALSE /\ fan = FALSE
            /\ startle = None /\ calm = None
            /\ lastMem = 0 /\ lastTemp = 0 /\ blind = FALSE
-----------------------------------------------------------------------------
\* SUONO v n
Suono(v, n) == stim' = [energy |-> v, left |-> n] /\ UNCHANGED spinta

\* SPINTA v
Spinta(v) == spinta' = v /\ UNCHANGED stim

\* A tick begins and executes at most one command.
Command == /\ autoPc = "command" /\ autoPc' = "reflex"
           /\ TickAdvances(AutoTicks)
           /\ \/ UNCHANGED <<stim, spinta>>
              \/ \E v \in Level, n \in 0..MaxStim : Suono(v, n)
              \/ \E v \in Level \cup {None} : Spinta(v)
           /\ UNCHANGED <<reflex, homeo>>

\* Slip: no quiet is asked for before the jump.
Startles_AnyRise(e) == prev # None /\ rest = 0 /\ e = 2

\* percepisce: a jump from quiet to loud, outside the rest
Startles(e) == prev # None /\ rest = 0 /\ prev = 0 /\ e = 2

\* Slip: the rest starts one tick short.
Rest_Short(fires) == IF fires THEN (IF Refractory > 0 THEN Refractory - 1 ELSE 0)
                     ELSE IF rest > 0 THEN rest - 1 ELSE 0

Rest(fires) == IF fires THEN Refractory ELSE IF rest > 0 THEN rest - 1 ELSE 0

Percepisce(e) == /\ prev' = e
                 /\ rest' = Rest(Startles(e))
                 /\ startle' = IF Startles(e) THEN tick ELSE startle
                 /\ calm' = IF e = 0 THEN tick ELSE calm

Lasting == stim.left > 0

\* The source of the hearing: the stimulus while it lasts, or the microphone.
Hear == /\ autoPc = "reflex" /\ autoPc' = "omeostasi"
        /\ IF Lasting
             THEN /\ Percepisce(stim.energy)
                  /\ stim' = [stim EXCEPT !.left = @ - 1]
             ELSE /\ \E mic \in Level : Percepisce(mic)
                  /\ UNCHANGED stim
        /\ UNCHANGED <<tick, spinta, homeo>>
-----------------------------------------------------------------------------
\* Slip: a regulator without hysteresis.
Aggiorna_NoBand(high, v) == v = 2

\* Regolatore::aggiorna
Aggiorna(high, v) == IF high THEN v # 0 ELSE v = 2

Extreme(v, last) == IF v = 1 THEN last ELSE v

\* tick_passed(FanEvery, mark)
Due == tick >= mark
NextMark == (tick \div FanEvery + 1) * FanEvery

\* The homeostasis on a reading of the memory and one of the temperature.
Omeostasi(mem, temp) ==
  /\ memHigh' = Aggiorna(memHigh, mem)
  /\ tempHigh' = IF temp = None THEN tempHigh ELSE Aggiorna(tempHigh, temp)
  /\ fan' = (memHigh' \/ (temp # None /\ tempHigh'))
  /\ lastMem' = Extreme(mem, lastMem)
  /\ lastTemp' = IF temp = None THEN lastTemp ELSE Extreme(temp, lastTemp)
  /\ blind' = (temp = None)

Body == /\ autoPc = "omeostasi" /\ autoPc' = "command"
        /\ IF Due
             THEN /\ mark' = NextMark
                  /\ \E mem \in (IF spinta = None THEN Level ELSE {spinta}),
                        temp \in Level \cup {None} : Omeostasi(mem, temp)
             ELSE UNCHANGED homeo
        /\ UNCHANGED <<tick, spinta, reflex, stim>>

AutoNext == Command \/ Hear \/ Body

AutoSpec == AutoInit /\ [][AutoNext]_autoVars
-----------------------------------------------------------------------------
\* Types and ranges.
AutoTypeOK == /\ tick \in Nat /\ mark \in Nat
              /\ autoPc \in {"command", "reflex", "omeostasi"}
              /\ stim \in [energy : Level, left : 0..MaxStim]
              /\ spinta \in Level \cup {None} /\ prev \in Level \cup {None}
              /\ rest \in 0..Refractory
              /\ memHigh \in BOOLEAN /\ tempHigh \in BOOLEAN /\ fan \in BOOLEAN
              /\ startle \in -1..AutoTicks /\ calm \in -1..AutoTicks
              /\ lastMem \in {0, 2} /\ lastTemp \in {0, 2} /\ blind \in BOOLEAN

\* A startle needs a jump (riflesso.rs:41-42): quiet in the tick before, hence
\* a tick of quiet since the startle before, and the whole rest in between.
StartlesApart ==
  [][startle' # startle =>
       /\ calm = tick - 1 /\ (startle = None \/ calm > startle)
       /\ startle # None => startle' - startle > Refractory]_autoVars

\* The hysteresis, seen from outside: the fan follows the last reading that
\* left the band, of the memory or of a temperature that can be read.
FanLaw == fan <=> lastMem = 2 \/ (lastTemp = 2 /\ ~blind)
=============================================================================
