------------------------------ MODULE Journal -------------------------------
(***************************************************************************)
(* What the body writes down and goes back to (src/cfc.rs: the log and the *)
(* experience rings, daydream; src/main.rs: SLEEP, DUMP and DREAM).  A     *)
(* record is known by its tick; the cells it holds are left out, and so is *)
(* what the sleep does to the weights.                                     *)
(*                                                                         *)
(* The rings are static and zero: an entry never written reads tick 0.     *)
(***************************************************************************)
EXTENDS BodyTick, Sequences

CONSTANTS LogCap, ExpCap,  \* LOG_CAP and EXP_CAP
          SleepEvery,      \* 5000 in the main loop
          MaxDream,        \* 16, the longest chain
          JournalTicks     \* bound: ticks in a behaviour

ASSUME JournalAssumption ==
  /\ LogCap \in Nat \ {0} /\ ExpCap \in Nat \ {0}
  /\ SleepEvery \in Nat \ {0} /\ MaxDream \in Nat \ {0} /\ JournalTicks \in Nat

VARIABLES log, logIdx,           \* LOG_TICKS, LOG_IDX
          exp, expIdx, expFull,  \* EXP_TICKS, EXP_IDX, EXP_FULL
          sleepPending, sleepAt, \* sleep_pending, sleep_auto_trigger
          dumpAsked,             \* dump_requested
          dream,                 \* dream_pending: {} or {[at, steps]}
          journalPc,
          halted,                \* the panic handler
          dumped,                \* history: the ticks of the last dump
          slept, sleptAt         \* history: the ticks of the last sleep, and when

journalOwn == <<log, logIdx, exp, expIdx, expFull, sleepPending, sleepAt, dumpAsked,
                dream, journalPc, halted, dumped, slept, sleptAt>>

JournalInit == /\ TickInit
               /\ log = [i \in 0..LogCap-1 |-> 0] /\ logIdx = 0
               /\ exp = [i \in 0..ExpCap-1 |-> 0] /\ expIdx = 0 /\ expFull = FALSE
               /\ sleepPending = FALSE /\ sleepAt = SleepEvery
               /\ dumpAsked = FALSE /\ dream = {}
               /\ journalPc = "command" /\ halted = FALSE
               /\ dumped = <<>> /\ slept = {} /\ sleptAt = 0
-----------------------------------------------------------------------------
At(stage, next) == journalPc = stage /\ journalPc' = next /\ ~halted

\* A new tick, and the line the serial reader may have for it.
JournalCommand ==
  /\ At("command", "sleep") /\ TickAdvances(JournalTicks)
  /\ \/ sleepPending' = TRUE /\ UNCHANGED <<dumpAsked, dream>>
     \/ dumpAsked' = TRUE /\ UNCHANGED <<sleepPending, dream>>
     \/ /\ \E n \in 1..MaxDream : dream' = {[at |-> tick', steps |-> n]}
        /\ UNCHANGED <<sleepPending, dumpAsked>>
     \/ UNCHANGED <<sleepPending, dumpAsked, dream>>
  /\ UNCHANGED <<log, logIdx, exp, expIdx, expFull, sleepAt, halted, dumped, slept, sleptAt>>

\* Slip: the trigger of the next sleep counts from the one before.
NextSleep_Never == sleepAt + 2 * SleepEvery

NextSleep == tick + SleepEvery

AutoSleep == ~sleepPending /\ tick >= sleepAt

\* exp_len
Experiences == IF expFull THEN ExpCap ELSE expIdx

\* SLEEP:AUTO and daydream: the rings hold what the ticks before recorded.
Sleep ==
  /\ At("sleep", "record")
  /\ sleepAt' = IF AutoSleep THEN NextSleep ELSE sleepAt
  /\ IF sleepPending \/ AutoSleep
       THEN slept' = {exp[i] : i \in 0..Experiences-1} /\ sleptAt' = tick
       ELSE UNCHANGED <<slept, sleptAt>>
  /\ sleepPending' = FALSE
  /\ UNCHANGED <<tick, log, logIdx, exp, expIdx, expFull, dumpAsked, dream, halted, dumped>>

Filled(idx) == idx >= ExpCap

\* log_record and exp_record
Record ==
  /\ At("record", "verify")
  /\ log' = [log EXCEPT ![logIdx % LogCap] = tick] /\ logIdx' = logIdx + 1
  /\ exp' = [exp EXCEPT ![expIdx % ExpCap] = tick] /\ expIdx' = expIdx + 1
  /\ expFull' = (expFull \/ Filled(expIdx'))
  /\ UNCHANGED <<tick, sleepPending, sleepAt, dumpAsked, dream, halted, dumped, slept, sleptAt>>

DreamIsOver == \E d \in dream : tick >= d.at + d.steps

\* The array that the state of the body is copied to has 32 places for 64 cells.
VerifyDream ==
  /\ At("verify", "dump")
  /\ dream' = IF DreamIsOver THEN {} ELSE dream
  /\ halted' = DreamIsOver
  /\ UNCHANGED <<tick, log, logIdx, exp, expIdx, expFull, sleepPending, sleepAt, dumpAsked,
                 dumped, slept, sleptAt>>

\* log_len, and where dump_log_to_debugcon starts
LogLen == IF logIdx < LogCap THEN logIdx ELSE LogCap

\* Slip: the dump starts at the beginning of the ring.
DumpStart_Zero == 0

DumpStart == logIdx % LogCap

Dump ==
  /\ At("dump", "command")
  /\ dumped' = IF dumpAsked
                 THEN [e \in 1..LogLen |-> log[(DumpStart + e - 1) % LogCap]]
                 ELSE dumped
  /\ dumpAsked' = FALSE
  /\ UNCHANGED <<tick, log, logIdx, exp, expIdx, expFull, sleepPending, sleepAt, dream,
                 halted, slept, sleptAt>>

JournalNext == JournalCommand \/ Sleep \/ Record \/ VerifyDream \/ Dump

journalVars == <<journalOwn, tick>>
JournalSpec == JournalInit /\ [][JournalNext]_journalVars
-----------------------------------------------------------------------------
JournalTypeOK ==
  /\ log \in [0..LogCap-1 -> 0..tick] /\ exp \in [0..ExpCap-1 -> 0..tick]
  /\ logIdx \in 0..tick /\ expIdx \in 0..tick /\ expFull \in BOOLEAN
  /\ sleepPending \in BOOLEAN /\ dumpAsked \in BOOLEAN /\ halted \in BOOLEAN
  /\ dream \subseteq [at : 1..JournalTicks, steps : 1..MaxDream]
  /\ sleptAt \in 0..tick

LastTicks(n, now) == {t \in 1..now : t > now - n}

(* The body goes back to what it lived.  A sleep goes over the last ExpCap *)
(* ticks, each of them and none twice, and comes within SleepEvery ticks   *)
(* of the sleep before, asked for or not; a dump of a full log tells the   *)
(* last LogCap ticks in their order.  (Of a log that is not full it tells  *)
(* entries that were never written.)                                       *)
GoesBackToWhatItLived ==
  /\ [](sleptAt > 0 => slept = LastTicks(ExpCap, sleptAt - 1))
  /\ [](journalPc = "record" => tick - sleptAt < SleepEvery)
  /\ [][dumped' # dumped /\ logIdx >= LogCap =>
          dumped' = [e \in 1..LogCap |-> tick - LogCap + e]]_journalVars

(* main.rs:2309 "Dream verification: compare predicted chain with actual   *)
(* state": a dream that is over is compared, and the body goes on.         *)
DreamsAreVerified == ~halted
=============================================================================
