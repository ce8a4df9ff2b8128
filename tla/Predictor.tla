----------------------------- MODULE Predictor ------------------------------
(***************************************************************************)
(* The predictor of the body (src/predictor.rs): at every tick the error   *)
(* of its prediction enters a ring, the trend compares the mean of the     *)
(* last errors with that of a longer window, and an error that keeps       *)
(* rising forces the memory to store.  The linear layer and its delta rule *)
(* are left out: an error is a value of Mistakes.                          *)
(***************************************************************************)
EXTENDS Integers, Sequences, SequencesExt, Functions

CONSTANTS ErrBuf,        \* ERR_BUF, a power of two
          ShortWin, LongWin,
          Trigger,       \* ANOMALY_TRIGGER
          MaxAnomaly,    \* 255, the width of anomaly_ticks
          Anomaly,       \* ANOMALY_THRESH
          Mistakes,      \* errors a tick may bring
          Steps          \* bound: steps in a behaviour

ASSUME PredictorAssumption ==
  /\ ErrBuf \in Nat \ {0} /\ ShortWin \in 1..LongWin /\ LongWin \in 1..ErrBuf
  /\ Trigger \in 1..MaxAnomaly /\ MaxAnomaly \in Nat /\ Anomaly \in Nat
  /\ Mistakes \subseteq Nat /\ Steps \in Nat

VARIABLES errorBuf, errorIdx, errorCount, anomaly,
          forced,        \* PredictionReport: force_store
          past,          \* history: the last LongWin errors, newest first
          risen          \* history: the trend of every step, newest first

predOwn == <<errorBuf, errorIdx, errorCount, anomaly, forced, past, risen>>

PredInit == /\ errorBuf = [i \in 0..ErrBuf-1 |-> 0]
            /\ errorIdx = 0 /\ errorCount = 0 /\ anomaly = 0
            /\ forced = FALSE
            /\ past = <<>> /\ risen = <<>>
-----------------------------------------------------------------------------
Least(a, b) == IF a < b THEN a ELSE b

\* Slip: the window starts at the slot to be written next.
Back_FromIdx(idx, i) == (idx + ErrBuf - i) % ErrBuf

\* The position of the i-th error back from the last one pushed.
Back(idx, i) == (idx + ErrBuf - 1 - i) % ErrBuf

Window(buf, idx, n) == [i \in 1..n |-> buf[Back(idx, i - 1)]]
PredTotal(s) == FoldFunction(LAMBDA a, b : a + b, 0, s)

\* trend: Rising, by the means of the two windows compared as sums.
Rising(buf, idx, n) ==
  LET long == Least(LongWin, n) IN
  /\ n >= ShortWin
  /\ long * PredTotal(Window(buf, idx, ShortWin)) - ShortWin * PredTotal(Window(buf, idx, long))
       > Anomaly * ShortWin * long

\* Slip: a tick that does not rise keeps the count.
Counted_Sticky(rising) == IF rising THEN Least(anomaly + 1, MaxAnomaly) ELSE anomaly

Counted(rising) == IF rising THEN Least(anomaly + 1, MaxAnomaly) ELSE 0

\* PredictiveModule::step, whatever the error of the prediction was.
PredStep ==
  /\ Len(risen) < Steps
  /\ \E e \in Mistakes :
       /\ errorBuf' = [errorBuf EXCEPT ![errorIdx] = e]
       /\ past' = SubSeq(<<e>> \o past, 1, Least(Len(past) + 1, LongWin))
  /\ errorIdx' = (errorIdx + 1) % ErrBuf
  /\ errorCount' = Least(errorCount + 1, ErrBuf)
  /\ LET rising == Rising(errorBuf', errorIdx', errorCount') IN
       /\ anomaly' = Counted(rising)
       /\ risen' = <<rising>> \o risen
  /\ forced' = (anomaly' >= Trigger)

PredNext == PredStep

PredSpec == PredInit /\ [][PredNext]_predOwn
-----------------------------------------------------------------------------
PredTypeOK == /\ errorBuf \in [0..ErrBuf-1 -> Mistakes \cup {0}]
              /\ errorIdx \in 0..ErrBuf-1 /\ errorCount \in 0..ErrBuf
              /\ anomaly \in 0..MaxAnomaly /\ forced \in BOOLEAN

(* "se l'errore sale persistentemente, force_store forza la memorizzazione" *)
(* (predictor.rs:5): a store is forced exactly when each of the last        *)
(* Trigger steps found the mean of its last errors above that of the longer *)
(* window, the windows being those of the errors as they came.              *)
Reference ==
  LET mean == Least(LongWin, Len(past)) IN
  /\ Len(past) >= ShortWin
  /\ mean * PredTotal(SubSeq(past, 1, ShortWin)) - ShortWin * PredTotal(past) > Anomaly * ShortWin * mean

ForcedByInsistence ==
  /\ risen # <<>> => risen[1] = Reference
  /\ forced = (Len(risen) >= Trigger /\ \A i \in 1..Trigger : risen[i])
=============================================================================
