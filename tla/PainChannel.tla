---------------------------- MODULE PainChannel -----------------------------
(***************************************************************************)
(* The channel of pain through one tick of the main loop (src/main.rs):    *)
(* take_sense and the countdown of src/pain.rs decide what the tissue will *)
(* feel, then the serial command of the tick is executed, then the tissue  *)
(* steps, then the brain is told whether the instrument is on.  Events get *)
(* into the channel from INJECT_SENSE and from the exception handlers of   *)
(* src/idt.rs, both through cfc::sense_pf and cfc::sense_gp.               *)
(*                                                                         *)
(* SENSE_COUNTER is only ever compared with zero, so it is a flag here;    *)
(* SENSE_KEY is left out, because nothing calls cfc::sense_key.            *)
(***************************************************************************)
EXTENDS Naturals

CONSTANTS Addrs,         \* the non-zero addresses faults and commands name
          MaxTicks,      \* bound: the largest argument of PAIN
          MaxCommands    \* bound: commands executed in a behaviour

ASSUME PainAssumption == /\ 0 \notin Addrs /\ Addrs # {}
                         /\ MaxTicks \in Nat /\ MaxCommands \in Nat

VARIABLES pf, gp,        \* SENSE_PF_ADDR (0: none), SENSE_GP_ERR # 0
          signalled,     \* SENSE_COUNTER # 0
          dolore,        \* Pain: [addr, tick]
          painPc,        \* the phase of the tick
          sense,         \* the SenseEvent of this tick, {} for None
          fault,         \* the exception the instruction at hand raises
          commands,      \* commands so far
          asked,         \* history: the n of the last PAIN, 0 after PAIN OFF
          felt,          \* history: steps felt since then, MaxTicks + 1 for more
          injected,      \* history: INJECT_SENSE since the last take_sense
          injectDue      \* history: INJECT_SENSE before the last take_sense

chan == <<pf, gp, signalled>>
hist == <<asked, felt, injected, injectDue>>
painVars == <<chan, dolore, painPc, sense, fault, commands, hist>>

NoPain == [addr |-> 0, tick |-> 0]

PainInit == /\ pf = 0 /\ gp = FALSE /\ signalled = FALSE
            /\ dolore = NoPain
            /\ painPc = "take" /\ sense = {} /\ fault = "none"
            /\ commands = 0 /\ asked = 0 /\ felt = 0
            /\ injected = FALSE /\ injectDue = FALSE
-----------------------------------------------------------------------------
(* cfc.rs: what a fault or a command leaves for the next take_sense. *)
SensePf(a) == pf' = a /\ signalled' = TRUE /\ UNCHANGED gp
SenseGp(e) == gp' = e /\ signalled' = TRUE /\ UNCHANGED pf

\* Slip: the counter survives the read.
Consumed_Kept == signalled

Consumed == FALSE

(* pain.rs *)
Attivo == dolore.tick > 0

Scadi == IF dolore.tick > 1 THEN [dolore EXCEPT !.tick = @ - 1] ELSE
         IF dolore.tick = 1 THEN NoPain ELSE dolore

\* Slip: re-arming adds to what is left.
Arm_Adds(a, n) == [addr |-> a, tick |-> dolore.tick + n]

Arm(a, n) == [addr |-> a, tick |-> n]

Spegni == NoPain
-----------------------------------------------------------------------------
At(phase, next) == painPc = phase /\ painPc' = next /\ fault = "none" /\ fault' = fault

\* take_sense, dolore.scadi(), and the instrument when there is no event.
TakeSense ==
  /\ At("take", "command")
  /\ signalled' = Consumed
  /\ dolore' = Scadi
  /\ sense' = IF signalled THEN {[pf |-> pf, gp |-> gp, real |-> TRUE]} ELSE
              IF dolore'.tick > 0
                THEN {[pf |-> dolore'.addr, gp |-> FALSE, real |-> FALSE]}
                ELSE {}
  /\ injected' = FALSE /\ injectDue' = injected
  /\ UNCHANGED <<pf, gp, commands, asked, felt>>

NoCommand == /\ At("command", "step")
             /\ UNCHANGED <<chan, dolore, sense, commands, hist>>

Command == /\ At("command", "step")
           /\ commands < MaxCommands
           /\ commands' = commands + 1
           /\ UNCHANGED sense

\* PAIN <addr> <tick>; address 0 and a missing number are refused.
PainOn == /\ Command
          /\ \E a \in Addrs, n \in 0..MaxTicks :
                dolore' = Arm(a, n) /\ asked' = n /\ felt' = 0
          /\ UNCHANGED <<chan, injected, injectDue>>

PainOff == /\ Command
           /\ dolore' = Spegni /\ asked' = 0 /\ felt' = 0
           /\ UNCHANGED <<chan, injected, injectDue>>

\* INJECT_SENSE <addr> accepts every address, 0 included.
InjectSense == /\ Command
               /\ \E a \in Addrs \cup {0} : SensePf(a) /\ injected' = (a # 0)
               /\ UNCHANGED <<dolore, asked, felt, injectDue>>

\* What drives Tatto[0]: an address; the instrument's or a real event's.
Driven(real) == \E s \in sense : s.pf # 0 /\ s.real = real

\* Tessuto::step.
PainStep == /\ At("step", "brain")
            /\ felt' = IF Driven(FALSE) /\ felt <= MaxTicks THEN felt + 1 ELSE felt
            /\ UNCHANGED <<chan, dolore, sense, commands, asked, injected, injectDue>>

\* The brain is told of the alarm (dolore.attivo()); the tick ends.
Brain == /\ At("brain", "take")
         /\ UNCHANGED <<chan, dolore, sense, commands, hist>>

PainTick == \/ TakeSense \/ NoCommand \/ PainOn \/ PainOff \/ InjectSense
            \/ PainStep \/ Brain

\* An instruction of the kernel faults (the hardware's part).
FaultArises == /\ fault = "none"
               /\ fault' \in {"pf", "gp"}
               /\ UNCHANGED <<chan, dolore, painPc, sense, commands, hist>>

(* handler_pf and handler_gp tell the address or the error code, either of *)
(* which may be zero, and return with iretq to the instruction that        *)
(* faulted; nothing has been mapped or skipped meanwhile.                  *)
Handler == /\ \/ fault = "pf" /\ \E a \in Addrs \cup {0} : SensePf(a)
              \/ fault = "gp" /\ \E e \in BOOLEAN : SenseGp(e)
           /\ UNCHANGED <<dolore, painPc, sense, fault, commands, hist>>

PainNext == PainTick \/ FaultArises \/ Handler

\* The CPU always executes its next instruction.
PainSpec == PainInit /\ [][PainNext]_painVars /\ WF_painVars(PainTick) /\ WF_painVars(Handler)
-----------------------------------------------------------------------------
Events == [pf : Addrs \cup {0}, gp : BOOLEAN, real : BOOLEAN]

PainTypeOK == /\ pf \in Addrs \cup {0} /\ gp \in BOOLEAN /\ signalled \in BOOLEAN
              /\ dolore \in [addr : Addrs \cup {0}, tick : 0..MaxTicks]
              /\ painPc \in {"take", "command", "step", "brain"}
              /\ sense \in {{}} \cup {{e} : e \in Events}
              /\ fault \in {"none", "pf", "gp"}
              /\ commands \in 0..MaxCommands
              /\ asked \in 0..MaxTicks /\ felt \in 0..(MaxTicks + 1)
              /\ injected \in BOOLEAN /\ injectDue \in BOOLEAN

(* An injected fault is felt in the tick after the command and in no       *)
(* other: a fault is an event of one tick, as pain.rs:8 has it.  And the   *)
(* instrument does not pretend (pain.rs:14): re-armed, exhausted or        *)
(* switched off, it never makes more steps hurt than the last command      *)
(* asked for, the step under way when the command came excepted.  (It      *)
(* makes one fewer, because the countdown of a tick comes before its step, *)
(* where main.rs:1695 promises all of them.)                               *)
PainIsCounted == /\ painPc = "step" => (injectDue <=> Driven(TRUE))
                 /\ felt <= asked \/ felt <= 1

(* main.rs:1531-1532 "Un fault vero arriva una volta sola e sparisce": a   *)
(* fault passes and the loop goes on.                                      *)
FaultPasses == (fault # "none") ~> (fault = "none")
=============================================================================
