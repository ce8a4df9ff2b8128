# Nova Exo in TLA+

A specification of the control of Nova Exo, the bare-metal "exokernel" of this
repository: TLA+ modules translated from the Rust sources, TLC configurations
that model-check them on small instances, and theorems that TLAPS checks for
every value of the constants.

    tlc -config MCRtlRx.cfg MCRtlRx      # one run; every .cfg names its module
    tlapm RtlRxProofs.tla                # the proofs of a run; likewise DevicesProofs,
                                         # MindProofs, SensesProofs (minutes each) and
                                         # Induction, the lemmas on recursion they use

`PROJECT.json` lists the components, the runs, the mutants (for every property a
plausible slip of the code that breaks it), the source lines behind every
definition, the disagreements between code and comments, the hazards and the
theorems. Operators named `X_Something` under a comment "Slip:" are those
mutants; the specification does not use them.

Contents: [the system](#the-system) · [components](#components) ·
[modules](#modules-and-their-correspondence-to-the-code) ·
[runs and bounds](#runs-bounds-and-what-they-show) ·
[fairness](#fairness) · [proofs](#proofs) ·
[disagreements](#where-the-code-and-its-comments-disagree) ·
[limits](#what-is-not-modelled) · [plan](#plan)

## The system

Nova Exo is one program (`src/src/main.rs`) without processes or threads. After
a boot that finds the devices once, `_start` turns in one loop
(`main.rs:1380-2490`). Each *round* of the loop

1. advances the clock when the TSC has passed `next_tsc` (`cfc::inc_tick`);
2. polls the two network cards (`e1000::poll_rx`, `rtl::poll_rx`), which feed the
   shared receive port `rx.rs`;
3. drains at most 32 bytes of the UART into the `LineReader`;
4. goes back to 1 unless the tick has advanced (`cfc::tick_advanced`).

In the rounds in which it has, the *tick* of the body follows, always in this
order: the 8042 is drained (keyboard and touchpad); the events of pain are taken
and the pain countdown runs; a complete command line is executed; the ARP
responder looks at the receive port and `rx::take` empties it; the hearing (a
stimulus or the microphone) goes to the startle reflex; every 500 ticks the
homeostasis drives the fan; the associative memory pulls and the tissue steps;
patterns are stored; the predictor's error drives neurogenesis; the interpreter
names the state and the executive chooses a desire; every 1000 ticks the outcome
is learned; the brain (transformer) advances by one unit; telemetry goes out.

Concurrency therefore comes from four places, and they are where the models put
their interleavings:

* **devices with DMA rings** that share descriptors with the loop: the chip may
  take a step between any two memory accesses of the driver;
* **byte sources** that do not wait for the loop: UART FIFO, 8042, touchpad;
* **exceptions**: `handler_pf` / `handler_gp` (`idt.rs`) run at any instruction
  and share the statics of `cfc.rs` with the tick;
* **time**: whether the tick has advanced in a round, whether a bounded busy wait
  gives up before the device answers.

The loop persists nothing between boots (the sector calls of the disk have no
caller yet), so there is no crash recovery to model.

## Components

| Component | State | Operations | Interacts with | Hard behaviour | What makes it correct |
|---|---|---|---|---|---|
| Realtek receive (`rtl.rs`) | ring of 64 descriptors, ownership bits, `CHIP_CMD`, `INTR_STATUS` | `rx_init`, `poll_rx` | chip (DMA), `rx.rs` | chip fills while the scan runs; overflow stops the receiver | no frame lost, replayed or reordered by the driver; it always receives again |
| Realtek transmit | one descriptor, one buffer | `tx_frame`, `tx_ready`, `tx_raw`, `beacon` | chip, telemetry, ARP | the bounded wait gives up before the chip is done | a frame in flight is not overwritten; `true` means sent |
| Intel e1000 receive (`e1000.rs`) | ring of 8, `RDH`/`RDT`, `DD` | `setup_rx`, `poll_rx`, `loopback_test` | chip, `rx.rs` | position-based ownership; boot test shares descriptor 0 | each frame once; the ring never starves |
| Intel e1000 transmit | ring of 8 on one buffer, `TDH`/`TDT`, `TX_NEXT` | `setup_tx`, `test_tx`, `tx_frame`, `tx_broadcast_state` | chip, telemetry, ARP | head and tail cross the ring; boot test shares descriptor 0 | the chip sees only written descriptors; refusal is real |
| Receive port (`rx.rs`) | one slot, `PENDING` | `feed`, `arp_requester`, `take` | both drivers, tick | peek then take in one tick; replacement | a stimulus is felt once, a request answered once |
| Keyboard and touchpad (`kbd.rs`, `touchpad.rs`, `cfc.rs`) | `KEY_HELD`, `TOUCHPAD_ATTIVO` | drain, `key_press`, `key_release`, `sense_touchpad` | 8042, tissue | two devices on one port; chords, repeats, silence of a stream device | the contact lasts as long as the finger |
| PS/2 packets (`ps2.rs`) | `Assemblatore` | `byte`, `decodifica`, `destinazione` | line that loses bytes | loss of phase | no invented gesture |
| Pain (`pain.rs`, `idt.rs`, `cfc.rs`) | `SENSE_*`, `Pain {addr, tick}` | `take_sense`, `arma`, `scadi`, `spegni`, handlers | exceptions, serial, tissue, brain | event and instrument share one channel; exception between two reads | pain is felt exactly as commanded; a fault passes |
| Serial line (`serial.rs`) | `LineReader` | `push`, `consume` | UART, tick | bytes arrive while a line waits | what is executed is what was sent |
| Neurogenesis (`neurogenesis.rs`) | pool of slots, persistence, trial | `birth_check`, `clone_neuron`, `trial_step` | predictor | born and judged in one tick; full pool | full trial; survivors stay |
| Memory (`cfc.rs` patterns) | ring of 16 | `pattern_store`, `_recall`, `_clear` | tissue, serial | wrap, FORGET and three store paths | the last 16, in order, no automatic duplicate |
| Executive (`executive.rs`) | `Preferenza`, pending outcome, curiosity | `step`, `esito` | interpreter, predictor | choice and outcome on different periods | pain is sovereign; the outcome teaches its own choice |
| Reflex, homeostasis (`riflesso.rs`, `omeostasi.rs`) | refractory rest, hysteresis | `percepisce`, `aggiorna` | SUONO, SPINTA, sensors, fan | stimuli overlap; a sensor comes and goes | startles apart; the fan does not tremble |
| Brain (`inference.rs`, `nucleo.rs`) | stage, layer, output, word and error of the cycle | `set_corpo`, `submit`, `tick`, `output` | executive, pain, adapters | one answer takes many ticks while the body goes on | one answer per request, its own, and it leaves the will again |
| Plasticity (`plasticita.rs`) | columns U and V per rank | `inizializza_v`, `passo`, `potatura` | brain | learning, decay, clamp and pruning in any order | no rank dies; a bad moment teaches nothing |
| Predictor (`predictor.rs`) | error ring, persistence | `step`, `trend` | memory, neurogenesis | two windows read backwards in a ring that wraps | a store is forced by insistence only |
| Log, experiences, sleep, dreams (`cfc.rs`, `main.rs`) | two rings, sleep trigger, pending dream | record, dump, `daydream`, verification | serial | wrap; asked and automatic sleep in one tick | the body goes back to what it lived |
| Disk (`ahci.rs`) | one command slot, `PxCI`, `PxIS` | `read_sector`, `write_sector`, `flush_cache_ext` | controller | timeout, then late completion; error | `true` means done |
| Codec (`hda.rs`, `hda_path.rs`) | CORB/RIRB, chosen controller, path of capture | `codec_cmd`, `init`, `stream_init` | controller, registry | late answers; the last probe wins; codecs that stay mute | an answer belongs to its verb; the best microphone is heard |
| Platform (`pci.rs`, `paging.rs`) | window of the third gigabyte, bus masters | scans, `map_mmio_page`, probe of each driver | all drivers | pages of one window collide; halves of BARs | a driver touches its own device |
| Numbers and frames (`hexutil.rs`, `net.rs`) | buffers | write, parse, build | serial, cards | widths, saturation, cuts | what is told reads back |
| Registry, temperature (`sensi.rs`, `intero.rs`) | cards with states | `registra`, `ordine`, probes | telemetry | order, overflow, families of processors | urgent first, no fault in silence |
| Kernels, weights, GGUF (`tensor.rs`, `attention.rs`, `nucleo.rs`, `gguf.rs`) | none | matmul, mask, parse | brain | strides, packed scales, offsets | every weight read once and where it lies |
| Tissue, interpreter, DSP | floating point | step | all | numerics | out of TLC's reach, see [limits](#what-is-not-modelled) |
| Allocator, screen, ACPI/APIC | tables and buffers | boot, drawing | — | bounds | run once, or read by nobody |

## Modules and their correspondence to the code

One module per component, one action per operation (or, where a device can run in
between, per access that matters). A byte, a frame or a pattern is a number or a
model value; only what the properties tell apart is kept.

* **RxPort** — `rx.rs`: `pending`, `frame` with `Feed`, `Take`, `ArpRequester`.
  A frame is its number of arrival on the wire. Used by both receive modules.
* **Mailbox** — the abstract promise of the network entrance: frames arrive, each
  may be put in the slot at most once, replacing what is there; the body answers a
  request while it is in the slot, at most once, and takes what is in the slot.
* **RtlRx** — `rtl.rs` `rx_init`/`poll_rx` and the loop around it. The chip
  (`ChipReceive`, `ChipOverflow`, `ChipMiss`) interleaves with
  `PollStatus`, one of `ScanSkip`/`ScanFeed`/`ScanErr` per descriptor,
  `PollDone`, `TickArp`, `TickTake`. A descriptor is its ownership bit, its end
  of ring bit and whether it carries the size. `fed`, `dropped`, `taken`,
  `answered` are histories. It implements Mailbox with `posted <- fed`,
  `replies <- answered` and the slot of the port as the inbox.
* **RtlRxProofs** — its theorems; **DevicesProofs**, **MindProofs** and
  **SensesProofs** hold those of the three compositions below, part by part.
  **Induction** — lemmas on numbers and recursive functions that models nothing and
  that Mind's and Senses' proofs cite.
* **RtlTx** — `tx_frame` as copy, arm, wait; the wait ends done or timed out. The
  chip fetches and completes at any time. Only the telemetry is guarded by
  `tx_ready`, as in `main.rs:2028`.
* **E1000Rx** — `setup_rx` lends `RDH..RDT-1`; the boot's `test_tx` and
  `loopback_test` run before the first poll while the chip may already receive;
  `poll_rx` reads and clears a descriptor in two steps.
* **E1000Tx** — the ring whose descriptors all point at `TX_BUF`. `TxFrame` and
  `TxRefuse` are the two ends of `tx_frame` and of `tx_broadcast_state`.
* **Nics** — the card of the machine, chosen at the start: both halves of the
  e1000 or the Realtek's transmitter. The halves of the e1000 are composed for
  real: one CPU runs `init` (`test_tx` before the loopback before the first
  poll), sends the ARP reply between the poll and `take`, and the telemetry at
  the end of the tick, while the two DMA engines interleave freely.
* **Contact** — 8042 queue, drain of the tick, `KEY_HELD`, `TOUCHPAD_ATTIVO`, and
  what the tissue feels. The hand is the environment.
* **Ps2Mouse** — three-byte packets over a line that loses bytes, byte-exact
  (`decodifica` is modelled by what it computes).
* **PainChannel** — the phases of the tick that touch pain: take and countdown,
  command, tissue, brain; exceptions arise and are handled between any two.
* **SerialLine** — UART FIFO, drain, `push`, tick, `consume`. A byte carries the
  line and the position it was sent with, so that what is executed can be
  compared with what was sent.
* **Senses** — Contact, Ps2Mouse, PainChannel and SerialLine side by side, with
  Text, Frames and Registro. They share no variable (a packet is one flag for
  Contact, a command one choice for PainChannel), so their product has no
  behaviour that is not an interleaving of independent ones, and none of the
  properties relates two of them. `followed` therefore picks one at the start and
  the others rest: the run checks the modules, not an interaction between them.
* **NeuroPool** — one cell's pool; one action per tick, because the code runs
  `birth_check`, `clone_neuron` and `trial_step` in sequence with nothing between.
* **Recent**, **Memoria** — the abstract "last Cap items since the last FORGET"
  and the ring that implements it; similarity is a relation on abstract states,
  with the zero state similar to nothing (cosine 0).
* **Executive** — `step` and `esito` on a table of counts per circumstance and
  desire. What the homeostatic rule gives outside pain is any of `Ruled`.
* **Autonomy** — SUONO, reflex, SPINTA and the two regulators on one fan. Energies
  and readings are three levels: below, inside and above the band.
* **Engine**, **Brain** — the promise of the trait `InferenceEngine` (a request is
  accepted when none is open, answered once with its own answer) and the two
  runtimes behind `AnyBrain`, the stub and the Nucleo with one layer per tick,
  with the part of the loop that asks, ticks and hands the answer to the will. A
  layer whose kernel fails is skipped (`let _ =`). `stage`, `request` and `answer`
  of Engine are read off `thought`, `input` and `output`.
* **Adapter** — one rank of a low-rank adapter by the norms of its two columns;
  a step may move a norm to any level its law allows. Shrinking and the decay
  never reach zero: only the pruning writes zeros.
* **Predictor** — ring, windows and persistence; the two means are compared as
  cross-multiplied sums, so no quotient is taken.
* **Journal** — the log and the experience ring, SLEEP asked and automatic, DUMP,
  DREAM and its verification, in the order of the tick. A record is its tick.
* **Kernels** — which half byte and which scale each quantised weight is read with
  (`dequant_*` and the inline products), and which positions an output depends on,
  by carrying a set of positions through the strides of `matmul`, the causal mask
  and window, the grouped heads and the short convolution.
* **Weights** — the sizes of the source, the cuts of `NucleoModel::parse` and of
  `AdattatoriLayer::nuovi`, and what `forward_layer` reads of each.
* **Gguf** — the cursor over a file that its writer closed and the buffer may cut.
  `MaxArray` is the 100000 elements `skip_value` steps over at most, `MaxKv` the 100
  entries `parse_summary` reads at most.
* **BodyTick** — the clock (`cfc::inc_tick`) the organs stamp and compare.
* **Mind** — the organs on that clock, and Kernels, Weights and Gguf beside them.
  What one organ could tell another (the predictor's error, the state of the
  tissue, the concept) is already any value in each module, so `organ` picks the
  one that is followed, as in Senses.
* **Ahci** — the one slot: `DiskFetch`, `DiskDone`, `DiskError` and the write-back
  of the cache interleave with `Request`, `Issue`, `Await`. The controller takes
  the address from the table when the data move, which after a call that gave up
  may be the table of a later one. `_start` only runs `init`; the sector calls are
  the interface of the driver, made by any caller one at a time.
* **Hda** — `codec_cmd` over CORB and RIRB against a controller that goes on or,
  as QEMU's, halts after an answer until `RIRBSTS` is cleared.
* **Udito** — the probe of all audio controllers, the choice, the path of capture
  and the card of the sense. Every verb of the walk may give up by itself: one step
  of `EarWalk` walks one codec with any set of unanswered verbs (`first` of the
  sources of the ADC, `second` of those behind the router) and records the walk in
  `heard`. An unanswered number or type drops the source, an unanswered
  configuration makes a pin no microphone, unanswered capabilities (all ones) make
  any pin an input. Lists are cut at 8 entries, the search at 4 function groups of
  32 widgets. `EarAstray` is the walk that takes late answers for its own: it may
  end with any path.
* **Platform** — scans of PCI, BARs, `map_mmio_page` and the first steps of each
  driver in the order of `_start`. Addresses are counted in pages of 2 MB.
* **Devices** — Nics, Ahci, Hda, Udito and Platform; `device` picks one. They are
  driven one after another by one CPU and none reads what another keeps.
* **Text**, **Frames** — numbers written and parsed (`parse_f32` takes a sign of
  either kind and wraps at `u32`, as a build without overflow checks does); lengths,
  checksum and addresses of the frames, and how `build_state_frame` ends: with none,
  with a frame or, between 44 and 59 bytes, with the panic of its padding. **Registro** — the cards of the senses, their order, and
  the register the temperature is believed from. These three and the last three of
  Mind have no step: the run tries every input of their constants, and the theorems
  hold for every value of these. In Text a power is a product taken step by step
  (`Power`), since the provers reason about a recursive function and not about `^`.

Constants carry the source's names or say in a comment which constant of the code
they stand for. Histories (marked so) are observed by properties only, never by
guards.

## Runs, bounds and what they show

Passing runs:

| Run | Bounds | Shows |
|---|---|---|
| `rtl_rx` (MCRtlRx) | ring 3, 7 frames, requests {2,5}, empty {3} | safety of the ring, recovery (`NeverSilent`), `EveryFrameLeaves`, refinement of Mailbox (a frame is felt once, and an ARP request answered once and only from the slot). Seven frames take the chip round the ring twice and through an overflow in every phase of the scan |
| `devices` (MCDevices) | nic: e1000 receive ring 4, 5 frames, transmit ring 3, 7 calls, one ARP request; Realtek 5 calls. disk: 2 sectors, 2 memories, 3 calls. codec: rings of 4, 6 verbs. ear: 8 machines (a ninth entry, a far widget, a bare codec before the one that hears among them). boot: 5 machines | `EachFrameOnce` (no replay, only the first frame can be lost in the driver), `RingAgrees` (the chip is shown written descriptors, none marked done; at rest it has sent the last frame, except while only the first was offered, which the shift of `test_tx` hides from it; a call is refused only while the chip holds the descriptor, or for good once back at descriptor 0), `TelemetryHarmless`, `CallsReturn`; `TrueIsDone` until a call has given up; `AnswersLag` (an answer is late by no more than the verbs given up); `BestMicrophone` (of each codec walked, whichever verbs gave up, the best pin heard behind the router; the first codec with a pin; codecs and routers are not compared with each other); `TouchesItsOwn`. The calls bring `TX_NEXT` once round to descriptor 0, where every later one is refused for good; three disk calls let a late completion meet the table of a later call; six verbs wrap both rings |
| `senses` (MCSenses) | keys {a, left shift}, queue 3, 5 movements; 3 gestures, 2 bytes lost; 1 address, PAIN up to 3 ticks, 4 commands; buffer 4, drain 2, FIFO 3, 2 lines of 1 or 3 bytes; words of 4 digits, floats around each rounding and at the saturation; 8 buffer lengths, 59 among them, where the build halts; registry of 10 overflowed by decks, every family of processors, temperatures below zero too | `HonestForOneKey` (one key is felt honestly, no ghost), `GesturesComeOut` (exact without loss, phase law with it), `PainIsCounted` (an injected fault once, no more pain than asked), `LinesAreKept` and `PacedIsHeard`; `NumbersComeBack`, `FramesAreTrue`, `SensesAreServed` |
| `mind` (MCMind) | 2 slots, persistence 2, trial 4, 11 ticks; memory of 3, period 2, 4 states, 6 ticks; 2 concepts, 3 candidates, 2 samples, outcome each 2nd tick, curiosity each 3rd choice, 8 ticks; rest 2, homeostasis each 2nd tick, stimuli up to 2, 6 ticks; 3 layers, stub of 4 ticks, 2 readings; 5 norms; error ring 8, windows 2 and 4, trigger 3, 9 steps; rings of 3 and 2, sleep each 3 ticks, 7 ticks; up to 4 positions; files around the accepted length; values of every GGUF type, arrays within the cap of 2 and beyond it | `BornAndTried`; `NoDuplicates`, `ImplementsRecent` (twelve stores wrap the ring); `WillLearnsRight` (pain is sovereign in choices and in what is learned, each outcome counts once); `StartlesApart`, `FanLaw`; `WillIsFresh`, `CycleIsCoherent`, `ImplementsEngine`; `LearnsFromGood`; `ForcedByInsistence`; `GoesBackToWhatItLived`; `KernelsReadRight`, `WeightsAreFound`, `GgufIsFound` |

Periods and capacities shrink together, keeping their order (a trial is longer
than the persistence, the outcome's period differs from curiosity's), so every
coincidence of two periods occurs within the bound. `CHECK_DEADLOCK FALSE` is
given where the bound on ticks, frames, calls or commands ends the behaviour, and
where the followed part has no step; the real system has no such end.

The violation runs are listed with the disagreements below; each checks one
property and fails as described.

## Fairness

* `WF(RxCpu)`, `WF(RtlCpu)`, `WF(TouchTick)`, `WF(PainTick)`, `WF(Loop)`, and in
  RtlRx `WF(Cpu)`: the loop never blocks. Every wait in it is bounded or spins, and
  the only way out of it is a panic; a weakly fair loop is the program running. The disjuncts of the loop are never enabled together
  except by choice of data, so fairness of their union is enough.
* `WF(Handler)` in PainChannel: the CPU delivers a pending exception.
* `WF(TickDue)` in SerialLine: the TSC advances. `WF(SendByte)`: the line
  delivers a byte the host has written.
* `WF_brainOwn` in Mind: the loop asks, ticks and consumes in every tick, so the
  brain goes on as long as the loop does. `WF_rtlVars` in Devices is `WF(RtlCpu)`
  for the behaviours that follow that card.
* None for the chips, the hand, the wire, the host's decision to write or the
  other callers: they owe nothing. `CallsReturn` in particular holds although the
  chip may never answer.

Liveness under these assumptions is checked by TLC only; it is beyond the prover.

## Proofs

`RtlRxProofs` proves about RtlRx, for every ring size `N >= 1`, every number of
frames and every choice of requests and empty frames (`RtlRxAssumption`):

* `TypeCorrect`, `RingStaysWellFormed`, `NeverFedAgain`, `NothingVanishes`,
  `StopIsSeen`, `OneAnswer`: the invariants of the receiver. `RingWellFormed`,
  `StoppedIsVisible` and `AnsweredOnce` are proved here and need no run;
* `ImplementsTheMailbox`: `Spec => Box!MailSpec`, the refinement.

All rest on `Inductive == Spec => []IInv`. None of the invariants is inductive by
itself: the cursor stays in the ring (TypeOK) because the last descriptor and only
the last carries the end bit (RingWellFormed); a frame is fed at most once
because it lies in one descriptor and in no history (NoReplay), which a new frame
keeps because it is newer than everything in the ring or in a history
(`HeldArrived`, `PastArrived`); a request is answered at most once because an
answered frame can be in the slot only between the peek and the take of the same
tick (`AnswerLaw`), and once taken it never returns since a fed frame is in no
descriptor. The lemmas on `InRing` say how an update of one
descriptor changes the set of frames in the ring; `IInv` is preserved action by
action. For the refinement each action maps to `Arrive`, `Post`, `TakeOut` or a
stutter, and `TickArp` on a request to `Answer`.

Devices, Mind and Senses are proved in the same way. Each part has its own
inductive invariant, preserved by the part's own next-state relation; the
composition only shows that a step of one part leaves the others alone
(`DevicesInductive`, `MindInductive`, `SensesInductive`: `Spec => []...IInv`), and
every property follows from its part's invariant. Why each part needs more than
the property it promises:

| Part (theorem) | What the inductive invariant adds |
|---|---|
| E1000Rx (`FramesOnce`) | `RDT` never moves, so frame i+1 lies in descriptor i and nowhere else; descriptor 0 also carries the loopback for a time (`FirstLaw`) |
| E1000Tx (`TransmitRingAgrees`) | three phases: before `test_tx`, after it, and the one turn of the ring that is left; from there index 0 stands for the end of the ring, because descriptor 0 is never marked done again, which is why a call back there is refused for good |
| RtlTx (`TelemetryNeverTears`, `EveryCallCounted`) | a frame in flight has its descriptor owned; the telemetry between copy and arm saw it free |
| Ahci (`DiskTellsTheTruth`) | until a call gives up the command in the disk is the one of the call and there is one table, whatever the order of fetch, move and completion (`InStep`) |
| Hda (`AnswersNeverLagMore`) | the verbs in CORB are the last ones sent, counted back from its pointer; what the codec owes is the set of verbs given up and the one under way |
| Udito (`MicrophoneIsBest`) | what the probe has seen so far is the prefix of the machine, and the best of a prefix; the walks recorded are those of the codecs in order, all but the last without a pin; that the best of what was heard is worth as much as any source answered in full is a lemma on `LeggiSorgenti` and the two choices (`RouterHeard`, `PinHeard`) |
| Platform (`RegistersAreOwn`) | entry i of the window is page i of its gigabyte or absent, whoever wrote it |
| NeuroPool (`BirthsAreNeeded`) | the persistence reaches back no further than the last calm tick and the last birth; the rest of a trial is told by the clone's age |
| Memoria (`MemoryHasNoDuplicates`, `MemoryImplementsRecent`) | the head is the count until the ring is full; a store moves the order of the patterns by at most one place, which is the step of Recent |
| Executive (`WillLearnsOnce`) | a choice flees exactly when its circumstance is pain, and the credits given are as many as the periods passed |
| Autonomy (`FanFollows`, `StartlesAreApart`) | each regulator agrees with its last reading outside the band; the rest counts the ticks since the startle |
| Brain (`WillHearsFresh`, `LessonsAgree`, `EngineIsSafe`) | the state of the runtime is a function of the ticks since the request (`Timing`), and the wills in a row that may have heard an answer are bounded by them |
| Adapter (`AdapterLearnsFromGood`) | never both columns zero: shrinking keeps what is not zero above it, and the pruning that writes a zero in one column draws the other again |
| Predictor (`StoreIsForced`) | the window read backwards from the ring index is the sequence of the last errors; the counter is the length of the run still on, up to its width |
| Journal (`JournalIsLived`) | both rings read backwards hold the last ticks recorded; the next sleep is due at most a period after the last |
| Contact (`ContactIsHonest`) | with one finger on one key, the last code on its way tells whether the key is down, and with none on its way the contact itself does |
| Ps2Mouse (`GesturesAreKept`) | the bytes waiting are the packets of the gestures not yet out, in order; the phase is a matter of numbers alone |
| PainChannel (`PainIsAsAsked`) | felt, under way and still owed together are no more than asked; an event is in the channel exactly when injected since it was emptied |
| SerialLine (`LinesAreWhole`) | while the UART lost nothing, what flows to the reader is a chain: a byte is followed by the next of its line or by its end; the line being read is a stretch of one line |
| Frames (`FramesTellTheTruth`) | no step; the sum of the header's words with its complement folds to all ones (`SumIsAccepted`, at most two folds since it is below 10 * 65536); a payload is longer than 18 bytes, so the padding is needed exactly when the buffer is shorter than 60 |
| Text (`NumbersAreRead`) | no step; the value of a run of digits is base times the value of the run before it (`ValueIs`), `n` digits stay below `Power(base, n)`, and what `Decimal` and `HexDigits` write are the quotients by powers, so it telescopes back; the least position with no blank is where the argument starts |
| Registro (`SensesServed`) | no step; the registry filled card by card is the prefix of the deck that fits (`RegistryIsFilled`); after `a` swaps of `Ordine` the sequence is still a permutation, its first `a` places are sorted and nothing after them is more urgent (`SwapSorts`) |
| Kernels (`KernelsAreRight`) | no step; quotient and remainder of a flat index give back row and column, so each stride reaches its own cell; carried through `Matmul`, the set at a cell is the union over its row |
| Weights (`WeightsLieInPlace`) | no step; the ends of the cuts are the running sums of their sizes (`EndsAreSums`), and the 111 parts come to exactly the length that is accepted (`FileIsFilled`) |
| Gguf (`GgufReaderIsRight`) | no step; where every entry is stepped over by what was written, the cursor ends at the sum, which only grows: a file that holds the end holds every entry. An array beyond the cap is the premise of the property and not of the model: `ParseSummary` goes astray there |

**Recursion.** The last five rows are about recursive functions over data. The
library states induction with an operator as parameter, which these provers cannot
instantiate; `Induction` states it with sets and functions instead. `UpTo`: a set
that contains `m` and passes from each number below `n` to the next contains
`m..n`; it is derived from the well-foundedness of `<` (`LeastNumber`). `Recursion`
and `RecursionFrom`: when `step[<<i, v>>]` is what a definition makes at `i` of the
value `v` it has at the number before (or at any earlier one, as the quotients of
`Decimal`), a function on `m..n` that obeys the equation exists, so the `CHOOSE` behind `f[i \in m..n] == ...` picks one and the equation may
be used. With these the induction over the cards, the digits, the sizes or the
swaps is one citation of `UpTo` on the set of numbers for which the claim holds.

The attempts corrected the model twice. `NoTemp`, the `None` of the temperature, was a number that
`TemperaturaDa` can return for `tj` 2 and a reading 127 below it, so the proof that
a processor is felt exactly when its status is valid failed; it is now below
everything a register says, and the run has that processor. And an AMD's register
table was only in the run's constants: the theorem needs it as an assumption.

The type invariants of the three compositions are proved too
(`DevicesTypeCorrect`, `MindTypeCorrect`, `SensesTypeCorrect`), and the safety part
of Brain's refinement of Engine (`EngineIsSafe`).

**Assumptions.** Every proof rests on the `ASSUME` of its module and on nothing
else; TLC evaluates each of them on a run. They say that sizes are positive, that
a ring has two entries where it needs a gap, and that markers differ from values.
Those worth a word, some of them found when a proof failed:

* `BrainAssumption`: a runtime takes two ticks or more. With a latency of one a
  submission right after the answer is answered again at once, and the will would
  hear answers for more than three ticks in a row; the code has `T_THINK` 25 and
  12 layers.
* `ExecutiveAssumption`: desire 0, the one the will is born with, is a candidate:
  `Executive` starts from it, and the type of `desire` would not hold without.
* `Ps2Assumption`: a gesture is at most 255 in each direction, so its nine bits
  with its sign come back. Beyond that the device sets an overflow bit, which
  `decodifica` passes on and nothing reads: left out.
* `FramesAssumption`: a float is written in 6 to 11 characters. `write_f32_buf` can
  write 12 (`-429496.7295`); 76 of them are 912 characters, the payload is 1478
  bytes, two more than a full frame carries, and the telemetry would be cut. The
  tissue's values stay below 100000, which keeps them to 11.
* `RegistroAssumption`: where an AMD keeps its temperature is a fact of the hardware,
  not of the code, which `Rotta` is compared with: SMN in the models 96..127 of family 21 and
  from family 23 on, the northbridge otherwise. The registry has room for the
  seven cards of the kernel (`MAX_CANALI` is 16).
* `TextAssumption`: a word has two digits or more (16 in the code) and is below 16 to
  that power; `u32::MAX` is 10000 or more, so four decimals do not wrap. A fraction of
  32 digits or more, whose divisor wraps to zero, gives infinity in the code and
  nothing in the model, which never reads one. `GgufAssumption`: arrays in the files have no arrays inside (type 9), as
  in the model of `skip_value`. `WeightsAssumption`: a length is a number.
  `KernelsAssumption`: a shape has at least one position, head and dimension; scales
  and minima have six bits.
* `UditoAssumption`: a codec has an address. `PlatformAssumption`: the BAR a driver takes is a memory BAR that is not the upper half of another (the
  Realtek's below 4 GB), as on the boards the drivers name.

**Model-checked only.** Every invariant of the passing runs is a theorem. What is left to TLC:

* The liveness properties (`NeverSilent`, `EveryFrameLeaves`, `CallsReturn`,
  `PacedIsHeard`, the fairness in `ImplementsEngine`): beyond the prover.
* The properties of the violation runs, which are false.

## Where the code and its comments disagree

Shown by a run that fails as described:

| Run | Code | Comment |
|---|---|---|
| `e1000_rx_live` | `RDT` is never moved: reception ends after N-1 frames | `e1000.rs:500` "Re-arm descriptor for next packet" |
| `rtl_tx_true` | a late completion is taken for the new frame's | `rtl.rs:695-696` true means transmitted |
| `fault_passes` | the handlers return to the faulting instruction | `main.rs:1531-1532` |
| `serial_long` | a full line drops its own terminator and wedges the reader | `serial.rs:2` |
| `neuro_survive` | a survivor is judged again at every tick | `neurogenesis.rs:195` |
| `executive_credit` | the outcome is credited to the choice of the same tick | `executive.rs:281-282` |
| `dream_verified` | the verification copies 64 cells to an array of 32 and panics | `main.rs:2309` the chain is compared with the state |
| `hearing_fault` | the card of the hearing ignores what `stream_init` answered | `sensi.rs:32` a fault must not be silent |

Read in the code while it was modelled, and not stated as a property of a run.
Where a passing property has an exception (`chord`, `LShift`, a host
that is not `Patient`), it is for one of these:

| Code | Comment |
|---|---|
| `rtl.rs:675` the scan goes by index: after a wrap an older frame replaces a newer one | `rx.rs:63-64` the new replaces the old |
| `cfc.rs:644` any release clears the contact | `cfc.rs:630` down until released |
| `main.rs:1493` 0xAA, the left shift's release, is filtered as a self-test reply | `cfc.rs:630` |
| `main.rs:1478` a stream device at rest sends nothing: the gesture stays | `cfc.rs:556-557` |
| `ps2.rs:66` after a loss, a data byte with bit 3 heads a packet | `ps2.rs:53-54` no invented gestures |
| `main.rs:1534` an event without an address masks the instrument | `main.rs:1530-1531` |
| `main.rs:1697` one more step hurts after PAIN OFF | the same line |
| `serial.rs:23` `\r\n` makes an empty second line that eats the next command's head | `serial.rs:2` |
| `executive.rs:206` curiosity forgets what it tried off the outcome ticks | `executive.rs:202` |
| `main.rs:1952` an invalid temperature stops a fan | `omeostasi.rs:11-12` |
| `e1000.rs:456` `test_tx` moves `TDT` without `TX_NEXT`: descriptor 0 is never announced again and every call is refused once the ring has come round to it | `e1000.rs:378` the chip still holds it |
| `main.rs:1533` the countdown runs first: PAIN a n hurts n-1 ticks | `main.rs:1695-1696` |
| `main.rs:459` a dump of a log that is not full starts past what was recorded and tells entries never written | none |
| `ahci.rs:287` after a timeout the disk may still write the caller's memory; after an error the port is never restarted | `ahci.rs:361` and `TrueIsDone`'s exception |
| `hda.rs:188` a verb given up leaves `RIRBSTS` set (QEMU's CORB then stands still) and puts later answers out of step | `AnswersLag` bounds it by the verbs given up |
| `gguf.rs:218` a bool is skipped as four bytes; beyond 100 entries the rest is read as tensors | `gguf.rs:14` the types |
| `gguf.rs:225` of an array only the first 100000 elements are stepped over: after a longer one (a vocabulary) the cursor stands inside it | `gguf.rs:17` all reads are checked |
| `net.rs:463` a buffer of 44 to 59 bytes: the padding writes past its end and panics (the loop passes 1518 bytes) | `net.rs:397` 0 if the buffer is too small |
| `hda.rs:433` capabilities that were not answered read as all ones: an output passes for an input | `hda_path.rs` the first input |
| `hda.rs:568` the first codec with a pin is taken, whatever the others hear; lists are cut at 8 entries, the search at 4 groups of 32 widgets | `hda_path.rs:104` within one list only |
| `tensor.rs:454` the short convolution also reads the next position | its comment: "causale" |
| `plasticita.rs:420-428` a negative moment still drives the decay | `plasticita.rs:55` |
| `net.rs:219` a payload that does not fit is cut | `net.rs:218` 0 if the buffer is too small |
| `pci.rs` `pci_find_device` stops at bus 4, `find_class` at 7; `rtl.rs` takes the low half of a 64-bit BAR | none |
| `main.rs:1083` the e1000 maps nothing and relies on the zones of `paging::init` | `TouchesItsOwn`'s exception |

## What is not modelled

* Floating-point arithmetic: the integration of the cells, the predictor's and
  the interpreter's weights, the values of the adapters and of the kernels, DSP.
  TLC has no reals and the properties that matter there are numerical. Where a
  result steers control (an error above a threshold, two patterns similar, a rank
  below a norm) the model takes any outcome of the test. What the kernels *read*
  is in Kernels; fp16 and the values of a block are not.
* The boot's register sequences: resets, EEPROM, MII, the 8042 and embedded
  controller, the APIC timer, and the tables of ACPI run once, in sequence,
  before the loop. The models start from the state they leave; where the boot
  leaves something behind that matters (the e1000 tests, the windows on
  registers, the chosen ear) it is modelled.
* Commands' wording, the log on the screen, the allocator's counters and the
  statistics that nothing reads back; the interpreter, a linear map without state.
* The states of the registry after boot: nothing updates them.
* Real time: a tick may be due at any moment, a bounded wait may end at any
  moment. Nothing is concluded about durations.
* Memory ordering: the drivers use volatile accesses and fences on x86; the
  models let the chip step between accesses in program order.
* `minimal_test.rs`, a separate program, and the host benches, read as statements
  of intent.

## Plan

Done: the receive path with its refinement; the proofs of every safety property
above; the transmitters, the
disk, the codec, the ear and the boot's windows; the senses of touch and pain,
the command line, numbers, frames and registry; neurogenesis, memory, will,
reflex and homeostasis, brain, adapters, predictor, journal; what the kernels,
the weights and GGUF read.

Next:

1. **Proofs**: the violation runs seen from the other side, as theorems of what
   the code does keep (a dream that is not verified, a line shorter than the
   buffer).
2. **Body**: the composition of the tick, for the properties that relate two
   components (a command and the sense it changes in the same tick, the pain that
   overtakes the brain's answer).
3. The attractor of the memory in `main.rs` and the ring of samples of the
   microphone.
