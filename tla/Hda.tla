-------------------------------- MODULE Hda ---------------------------------
(***************************************************************************)
(* The command transport of the audio controller (src/hda.rs): corb_init,  *)
(* and codec_cmd, which puts a verb in CORB and waits a bounded time for   *)
(* RIRBWP to move.  Every verb of the walk of the codec, of the choice of  *)
(* the pin and of the set up of the stream goes through it.                *)
(*                                                                         *)
(* RIRB holds the answer of verb v as v.  In QEMU (the comment at hda.rs:  *)
(* 152) CORB stands still after RINTCNT = 1 answers until RIRBSTS is       *)
(* cleared; a real controller goes on.  codec_cmd clears it only when it   *)
(* has had an answer.                                                      *)
(***************************************************************************)
EXTENDS Integers, FiniteSets

CONSTANTS Entries,     \* of CORB and of RIRB: 256
          MaxVerbs     \* bound: verbs in a behaviour

ASSUME HdaAssumption == Entries \in Nat \ {0, 1} /\ MaxVerbs \in Nat

VARIABLES corb, corbwp, corbrp,
          rirb, rirbwp,
          halts,       \* the controller halts CORB after an answer (QEMU)
          rirbsts,     \* rirb_count = RINTCNT
          verb,        \* the verb sent, or the last
          oldRp,       \* local: RIRBWP before the verb
          linkPc,      \* "free", "send", "wait", "read"
          heardOf,     \* history: verb whose answer was returned, 0: 0xFFFFFFFF
          unheard      \* history: verbs given up

linkChip == <<corbrp, rirb, rirbwp, rirbsts>>
linkOwn  == <<corb, corbwp, linkChip, halts, verb, oldRp, linkPc, heardOf, unheard>>

\* corb_init: both pointers reset, both rings run.
LinkInit == /\ corb = [i \in 0..(Entries - 1) |-> 0] /\ corbwp = 0 /\ corbrp = 0
            /\ rirb = [i \in 0..(Entries - 1) |-> 0] /\ rirbwp = 0
            /\ halts \in BOOLEAN /\ rirbsts = FALSE
            /\ verb = 0 /\ oldRp = 0 /\ linkPc = "free"
            /\ heardOf = 0 /\ unheard = {}

After(p) == (p + 1) % Entries

\* The controller and the codec (external): the next verb is answered.
CodecAnswers ==
  /\ corbrp # corbwp /\ ~(halts /\ rirbsts)
  /\ corbrp' = After(corbrp) /\ rirbwp' = After(rirbwp)
  /\ rirb' = [rirb EXCEPT ![rirbwp'] = corb[corbrp']]
  /\ rirbsts' = TRUE
  /\ UNCHANGED <<corb, corbwp, halts, verb, oldRp, linkPc, heardOf, unheard>>

\* Slip: the pointer of the call before is good enough.
Before_Kept == oldRp

Before == rirbwp

VerbCall == /\ linkPc = "free" /\ verb < MaxVerbs
            /\ verb' = verb + 1 /\ oldRp' = Before
            /\ linkPc' = "send"
            /\ UNCHANGED <<corb, corbwp, linkChip, halts, heardOf, unheard>>

VerbSend == /\ linkPc = "send"
            /\ corbwp' = After(corbwp) /\ corb' = [corb EXCEPT ![corbwp'] = verb]
            /\ linkPc' = "wait"
            /\ UNCHANGED <<linkChip, halts, verb, oldRp, heardOf, unheard>>

\* The wait: RIRBWP moved, or the polls are over.
VerbWait == /\ linkPc = "wait"
            /\ \/ rirbwp # oldRp /\ linkPc' = "read" /\ UNCHANGED <<heardOf, unheard>>
               \/ /\ rirbwp = oldRp /\ linkPc' = "free"
                  /\ heardOf' = 0 /\ unheard' = unheard \cup {verb}
            /\ UNCHANGED <<corb, corbwp, linkChip, halts, verb, oldRp>>

VerbRead == /\ linkPc = "read" /\ linkPc' = "free"
            /\ heardOf' = rirb[rirbwp] /\ rirbsts' = FALSE
            /\ UNCHANGED <<corb, corbwp, corbrp, rirb, rirbwp, halts, verb, oldRp, unheard>>

LinkNext == CodecAnswers \/ VerbCall \/ VerbSend \/ VerbWait \/ VerbRead

LinkSpec == LinkInit /\ [][LinkNext]_linkOwn
-----------------------------------------------------------------------------
LinkTypeOK == /\ corbwp \in 0..(Entries - 1) /\ corbrp \in 0..(Entries - 1)
              /\ rirbwp \in 0..(Entries - 1) /\ oldRp \in 0..(Entries - 1)
              /\ \A i \in 0..(Entries - 1) : {corb[i], rirb[i]} \subseteq 0..MaxVerbs
              /\ linkPc \in {"free", "send", "wait", "read"} /\ verb \in 0..MaxVerbs

(* The answers are matched to the verbs by counting, so a verb that was    *)
(* given up may put the later ones out of step, but by no more than the    *)
(* verbs given up: with none given up each verb has its own answer.        *)
AnswersLag == linkPc = "free" /\ heardOf # 0 =>
                heardOf <= verb /\ verb - heardOf <= Cardinality(unheard)
=============================================================================
