------------------------------- MODULE Udito --------------------------------
(***************************************************************************)
(* How the body finds its ear at boot: hda::init probes every audio        *)
(* controller and takes one, hda::stream_init looks in its codecs for the  *)
(* path of capture and starts the stream, and main registers the sense.    *)
(* The choices are those of src/hda_path.rs.                               *)
(*                                                                         *)
(* A machine is the sequence of its controllers in the order of the scan   *)
(* of PCI: whether the BAR can be mapped, and the codec at each address,   *)
(* with its vendor and its ADCs in the order of the search.  An ADC is the *)
(* widget of a function group, with the connection list of its sources (an *)
(* empty entry is Deaf) and the list behind each router among them.        *)
(*                                                                         *)
(* codec_cmd may give up on any verb (module Hda): it returns all ones,    *)
(* which the walk checks once only, when it looks for the ADC.             *)
(***************************************************************************)
EXTENDS Integers, Sequences, FiniteSetsExt

CONSTANT Hardware        \* the machines

\* A codec has an address.
ASSUME UditoAssumption ==
  \A m \in Hardware :
    /\ Len(m) \in Nat /\ DOMAIN m = 1..Len(m)
    /\ \A k \in DOMAIN m : DOMAIN m[k].codecs \subseteq Nat

VARIABLES machine,
          probing,       \* local: the controller of the loop
          cands,         \* CandidatoController of those probed: {} or {vendor}
          mmio,          \* MMIO: the controller it maps, 0 before
          mask,          \* CODEC_MASK
          codec,         \* CODEC
          hearsCodec,    \* PRESENT
          chain,         \* the codec, VIA_NODO and PIN_NODO, as indices; {} for 0xFF
          heard,         \* history: the walks through codecs
          streamOn,      \* AUDIO_ON
          udito,         \* Stato of the sense, "none" before
          earPc          \* "probe", "stream", "senses", "awake"

earVars == <<machine, probing, cands, mmio, mask, codec, hearsCodec, chain,
             heard, streamOn, udito, earPc>>

REALTEK == "realtek"
NoChain == [codec |-> {}, via |-> {}, pin |-> {}]

EarInit == /\ machine \in Hardware
           /\ probing = 1 /\ cands = <<>> /\ mmio = 0 /\ mask = {} /\ codec = {}
           /\ hearsCodec = FALSE /\ chain = NoChain /\ heard = {}
           /\ streamOn = FALSE /\ udito = "none" /\ earPc = "probe"
-----------------------------------------------------------------------------
\* bring_up: MMIO, the first codec of STATESTS and its vendor; the last wins.
BringUp(k, found) ==
  \/ /\ ~machine[k].bar /\ found = {}
     /\ UNCHANGED <<mmio, mask, codec, hearsCodec>>
  \/ /\ machine[k].bar /\ mmio' = k /\ found = {}
     /\ mask' = {} /\ hearsCodec' = FALSE /\ UNCHANGED codec
  \/ /\ machine[k].bar /\ mmio' = k
     /\ mask' = DOMAIN machine[k].codecs /\ mask' # {}
     /\ codec' = {Min(mask')}
     /\ hearsCodec' = (found # {})
     /\ found \in {{}, {machine[k].codecs[Min(mask')].vendor}}

Vendors == {REALTEK, "hdmi"}

EarProbe ==
  /\ earPc = "probe" /\ probing <= Len(machine)
  /\ \E found \in {{}} \cup {{v} : v \in Vendors} :
        BringUp(probing, found) /\ cands' = Append(cands, found)
  /\ probing' = probing + 1
  /\ UNCHANGED <<machine, chain, heard, streamOn, udito, earPc>>

\* The loops of hda_path keep the first candidate they like, {} if none.
FirstOf(hits) == IF hits = {} THEN {} ELSE {Min(hits)}

\* scegli_controller: a Realtek, otherwise the first that has a codec.
ScegliController == LET realtek == FirstOf({i \in DOMAIN cands : cands[i] = {REALTEK}})
                    IN IF realtek # {} THEN realtek
                       ELSE FirstOf({i \in DOMAIN cands : cands[i] # {}})

\* Slip: the globals are left as the last probe set them.
Again_Skipped(k) == UNCHANGED <<mmio, mask, codec, hearsCodec>>

Again(k) == \E found \in {{}} \cup {{v} : v \in Vendors} : BringUp(k, found)

\* init: the chosen controller is brought up once more.
EarChoose ==
  /\ earPc = "probe" /\ probing > Len(machine)
  /\ \/ ScegliController = {} /\ UNCHANGED <<mmio, mask, codec, hearsCodec>>
     \/ \E k \in ScegliController : Again(k)
  /\ earPc' = IF hearsCodec' /\ ScegliController # {} THEN "stream" ELSE "senses"
  /\ UNCHANGED <<machine, probing, cands, chain, heard, streamOn, udito>>
-----------------------------------------------------------------------------
\* scegli_instradatore: a mixer, otherwise a selector.
ScegliInstradatore(s) == LET mixer == FirstOf({i \in DOMAIN s : s[i].tipo = "mixer"})
                         IN IF mixer # {} THEN mixer
                            ELSE FirstOf({i \in DOMAIN s : s[i].tipo = "selector"})

\* Slip: the first microphone, wherever it is.
ScegliPin_FirstMic(s) ==
  LET mic == FirstOf({i \in DOMAIN s : s[i].tipo = "pin" /\ s[i].input /\ s[i].mic})
  IN IF mic # {} THEN mic ELSE FirstOf({i \in DOMAIN s : s[i].tipo = "pin" /\ s[i].input})

\* scegli_pin: the internal microphone, a microphone, the first input.
ScegliPin(s) ==
  LET inner == FirstOf({i \in DOMAIN s : s[i].tipo = "pin" /\ s[i].input /\ s[i].mic /\ s[i].internal})
      mic   == FirstOf({i \in DOMAIN s : s[i].tipo = "pin" /\ s[i].input /\ s[i].mic})
  IN IF inner # {} THEN inner ELSE IF mic # {} THEN mic
     ELSE FirstOf({i \in DOMAIN s : s[i].tipo = "pin" /\ s[i].input})

\* leggi_sorgenti keeps the first entries of a list only.
Most == 8
Entries8(list) == 1..(IF Len(list) < Most THEN Len(list) ELSE Most)

\* An entry that is empty, or whose number or type was not answered.
Deaf == [tipo |-> "none", input |-> FALSE, mic |-> FALSE, internal |-> FALSE]

(* The verbs asked about the entries of a list: its number and type        *)
(* ("cap"), and of a pin what it can do ("pin") and what it is for.        *)
Questions(list) ==
  {<<i, "cap">> : i \in {j \in Entries8(list) : list[j] # Deaf}}
  \cup {j \in Entries8(list) : list[j].tipo = "pin"} \X {"pin", "config"}

(* leggi_sorgenti, with the verbs it gave up on: a type of all ones is no  *)
(* type, a configuration of all ones no microphone, but capabilities of    *)
(* all ones say that the pin is an input.                                  *)
LeggiSorgenti(list, lost) ==
  [i \in Entries8(list) |->
     IF <<i, "cap">> \in lost THEN Deaf
     ELSE [tipo |-> list[i].tipo,
           input |-> list[i].input \/ <<i, "pin">> \in lost,
           mic |-> list[i].mic /\ <<i, "config">> \notin lost,
           internal |-> list[i].internal /\ <<i, "config">> \notin lost]]

\* The ADCs the search reaches: four function groups, 32 widgets of each.
InReach(c) == {k \in DOMAIN c.adcs : c.adcs[k].group <= 4 /\ c.adcs[k].widget <= 32}

(* A walk: [codec, adc, first, second], the verbs given up on in the list  *)
(* of the ADC and in the one behind the router.  Of a codec that did not   *)
(* answer the search, none or any ADC is found.                            *)
The(s) == CHOOSE x \in s : TRUE
Codec(w) == machine[mmio].codecs[w.codec]
Sources(w) == IF w.adc = {} THEN <<>> ELSE Codec(w).adcs[The(w.adc)].list
Via(w) == ScegliInstradatore(LeggiSorgenti(Sources(w), w.first))
Behind(w) == IF Via(w) = {} THEN Sources(w) ELSE Codec(w).adcs[The(w.adc)].behind[The(Via(w))]
Lost(w) == IF Via(w) = {} THEN w.first ELSE w.second
Pin(w) == ScegliPin(LeggiSorgenti(Behind(w), Lost(w)))

Searched(c) == {FirstOf(InReach(c)), {}} \cup {{k} : k \in DOMAIN c.adcs}

\* The codecs tried so far.
Walked == {w.codec : w \in heard}

\* stream_init tries the codecs in order and stops at the first with a pin.
EarWalk ==
  /\ earPc = "stream" /\ mask \ Walked # {}
  /\ LET a == Min(mask \ Walked)
         c == machine[mmio].codecs[a]
     IN \E adc \in Searched(c) :
        \E first \in SUBSET Questions(IF adc = {} THEN <<>> ELSE c.adcs[The(adc)].list) :
        LET walk(second) == [codec |-> a, adc |-> adc, first |-> first, second |-> second]
        IN \E second \in SUBSET (IF Via(walk({})) = {} THEN {} ELSE Questions(Behind(walk({})))) :
           LET w == walk(second)
           IN /\ heard' = heard \cup {w}
              /\ \/ /\ Pin(w) # {}
                    /\ chain' = [codec |-> {a}, via |-> Via(w), pin |-> Pin(w)]
                    /\ codec' = {a} /\ streamOn' \in BOOLEAN /\ earPc' = "senses"
                 \/ /\ Pin(w) = {} /\ UNCHANGED <<chain, codec, streamOn>>
                    /\ earPc' = IF mask \ Walked = {a} THEN "senses" ELSE "stream"
  /\ UNCHANGED <<machine, probing, cands, mmio, mask, hearsCodec, udito>>

(* The answer to a verb given up on, here or in the diagnosis of bring_up, *)
(* comes late and passes for that of the next: the walk may believe        *)
(* anything of what the codecs hold.                                       *)
EarAstray ==
  /\ earPc = "stream" /\ earPc' = "senses" /\ heard' = {}
  /\ \/ UNCHANGED <<chain, codec, streamOn>>
     \/ \E a \in mask : \E via \in {{}} \cup {{i} : i \in 1..Most}, p \in 1..Most :
           /\ chain' = [codec |-> {a}, via |-> via, pin |-> {p}]
           /\ codec' = {a} /\ streamOn' \in BOOLEAN
  /\ UNCHANGED <<machine, probing, cands, mmio, mask, hearsCodec, udito>>

\* main: the card of the sense.
EarRegister ==
  /\ earPc = "senses" /\ earPc' = "awake"
  /\ udito' = IF hearsCodec THEN "Valido" ELSE "Guasto"
  /\ UNCHANGED <<machine, probing, cands, mmio, mask, codec, hearsCodec, chain, heard, streamOn>>

EarNext == EarProbe \/ EarChoose \/ EarWalk \/ EarAstray \/ EarRegister
EarSpec == EarInit /\ [][EarNext]_earVars
-----------------------------------------------------------------------------
EarTypeOK == /\ probing \in 1..(Len(machine) + 1) /\ Len(cands) = probing - 1
             /\ mmio \in 0..Len(machine) /\ codec \subseteq Nat /\ mask \subseteq Nat
             /\ earPc \in {"probe", "stream", "senses", "awake"}

\* What a source is worth to the ear, and whether all of it was answered.
Worth(x) == IF x.tipo # "pin" \/ ~x.input THEN 0
            ELSE IF ~x.mic THEN 1 ELSE IF ~x.internal THEN 2 ELSE 3

InFull(w, q) == {<<q, "cap">>, <<q, "pin">>, <<q, "config">>} \cap Lost(w) = {}

(* A router among the sources of the ADC is used, a mixer before others,   *)
(* and behind it the pin taken is worth as much as any whose verbs were    *)
(* answered, unless it is no input and only passes for one.                *)
RouterTaken(w) == \A i \in Entries8(Sources(w)) :
  /\ Sources(w)[i].tipo \in {"mixer", "selector"} /\ <<i, "cap">> \notin w.first
  => /\ Via(w) # {}
     /\ Sources(w)[i].tipo = "mixer" => \A v \in Via(w) : Sources(w)[v].tipo = "mixer"

PinTaken(w) == \A q \in Entries8(Behind(w)) :
  Worth(Behind(w)[q]) > 0 /\ InFull(w, q) =>
    \E p \in Pin(w) : Worth(Behind(w)[p]) >= Worth(Behind(w)[q]) \/ ~Behind(w)[p].input

(* Whatever was probed before and after it, the registers the capture is   *)
(* set up on are those of the chosen controller, a Realtek if one          *)
(* answered.  Of each codec walked, whichever verbs gave up, the best of   *)
(* the pins heard behind the router is taken (hda_path.rs:104 "mic INTERNO *)
(* > mic (jack) > primo ingresso"); the chain is that of the first codec   *)
(* with a pin, and there is none only when no codec had one.               *)
BestMicrophone ==
  /\ earPc = "stream" =>
       /\ {mmio} = ScegliController /\ codec = {Min(DOMAIN machine[mmio].codecs)}
       /\ {REALTEK} \in {cands[i] : i \in DOMAIN cands} => cands[mmio] = {REALTEK}
  /\ \A w \in heard : RouterTaken(w) /\ PinTaken(w)
  /\ heard # {} => \A a \in chain.codec :
       /\ \E w \in heard : w.codec = a /\ chain.via = Via(w) /\ chain.pin = Pin(w)
       /\ \A b \in mask : b < a => \E w \in heard : w.codec = b /\ Pin(w) = {}
  /\ heard # {} /\ chain = NoChain /\ earPc # "stream" =>
       \A b \in mask : \E w \in heard : w.codec = b /\ Pin(w) = {}

(* sensi.rs:32 "un guasto non deve essere silenzioso": a sense registered  *)
(* as valid has its stream running.                                        *)
FaultIsTold == udito = "Valido" => streamOn
=============================================================================
