------------------------------ MODULE Registro ------------------------------
(***************************************************************************)
(* The registry of the senses (src/sensi.rs) as the kernel fills it at     *)
(* boot (src/main.rs), and the probe of the body's temperature that        *)
(* decides one of its cards (src/intero.rs).  A card is registered once    *)
(* with the state its probe gave; nothing updates it later.                *)
(***************************************************************************)
EXTENDS Integers, Sequences, FiniteSets

CONSTANTS Decks,         \* sequences of cards [via, priorita, stato]
          MaxCanali,     \* 16
          Cpus           \* [vendor, base, ext, model, has, nb, tj, status, delta, cur]

\* Where an AMD keeps its temperature is the hardware's: SMN in the models
\* 96..127 of family 21 and from family 23 on, the northbridge in the others.
ASSUME RegistroAssumption ==
  /\ MaxCanali \in Nat /\ MaxCanali >= 7
  /\ Decks \subseteq Seq([via : {"Riflesso", "Integrazione"}, priorita : Nat,
                          stato : {"Valido", "Incerto", "Guasto"}])
  /\ \A c \in Cpus :
       /\ c.tj \in 0..255 /\ c.delta \in 0..127 /\ c.status \in {"none", "stale", "valid"}
       /\ c.vendor = "amd" =>
            /\ c.base = 15 /\ c.ext \in 0..255 /\ c.model \in 0..255
            /\ c.has = IF c.ext >= 8 THEN "smn_zen"
                       ELSE IF c.ext = 6 /\ c.model \in 96..127 THEN "smn_f15h" ELSE "pci_f3"
            /\ c.cur \in [{"smn_zen", "smn_f15h", "pci_f3"} -> Nat]

VARIABLE self            \* [deck, cpu, ear, pad]

Bodies == [deck : Decks, cpu : Cpus, ear : BOOLEAN, pad : BOOLEAN]

RegistroInit == self \in Bodies

Card(via, priorita, good) ==
  [via |-> via, priorita |-> priorita, stato |-> IF good THEN "Valido" ELSE "Guasto"]
-----------------------------------------------------------------------------
(* intero.rs.  has is the register an AMD really keeps its temperature in, *)
(* cur what each register reads, in eighths of a degree; nb are the known  *)
(* northbridges on the PCI bus; an Intel's status is "none", "stale" or    *)
(* "valid", delta degrees below tj.                                        *)
NoTemp == -2000          \* None: below what any register can say

Family(cpu) == IF cpu.base = 15 THEN cpu.base + cpu.ext ELSE cpu.base

TemperaturaDa(tj, status, delta) ==
  IF status \in {"none", "stale"} \/ tj <= 0 THEN NoTemp ELSE 8 * (tj - delta)

TctlDaRaw(cur) == IF cur \in 1..1200 THEN cur ELSE NoTemp

\* Slip: every AMD is read as a Zen.
Rotta_Zen(cpu) == "smn_zen"

\* temperatura_amd: which register a family is read from.
Rotta(cpu) ==
  IF Family(cpu) = 21 /\ cpu.model \div 16 \in {6, 7} THEN "smn_f15h"
  ELSE IF Family(cpu) >= 23 THEN "smn_zen" ELSE "pci_f3"

\* temp_pci_nb_f3: a northbridge that is not known reads as zero.
AmdRaw(cpu) == IF Rotta(cpu) = "pci_f3" /\ cpu.nb = {} THEN 0 ELSE cpu.cur[Rotta(cpu)]

Temperatura(cpu) ==
  CASE cpu.vendor = "intel" -> TemperaturaDa(cpu.tj, cpu.status, cpu.delta)
    [] cpu.vendor = "amd"   -> TctlDaRaw(AmdRaw(cpu))
    [] OTHER                -> NoTemp
-----------------------------------------------------------------------------
Registra(reg, c) == IF Len(reg) >= MaxCanali THEN reg ELSE Append(reg, c)

\* The seven cards of the kernel, then those of the deck.
AtBoot ==
  << Card("Riflesso", 0, self.ear), Card("Riflesso", 0, TRUE), Card("Riflesso", 0, TRUE),
     Card("Integrazione", 2, TRUE), Card("Integrazione", 3, TRUE),
     Card("Integrazione", 1, self.pad), Card("Integrazione", 1, Temperatura(self.cpu) # NoTemp) >>

Registry ==
  LET all == AtBoot \o self.deck
      reg[i \in 0..Len(all)] == IF i = 0 THEN <<>> ELSE Registra(reg[i - 1], all[i])
  IN reg[Len(all)]

ContaVia(reg, v) == Cardinality({i \in DOMAIN reg : reg[i].via = v})
ContaGuasti(reg) == Cardinality({i \in DOMAIN reg : reg[i].stato = "Guasto"})
GuastiMask(reg) == {i \in DOMAIN reg : reg[i].stato = "Guasto"}

\* Slip: the priority decides before the way does.
PiuUrgente_Priority(x, y) ==
  x.priorita < y.priorita \/ (x.priorita = y.priorita /\ x.via = "Riflesso" /\ y.via # "Riflesso")

PiuUrgente(x, y) ==
  LET rx == x.via = "Riflesso"  ry == y.via = "Riflesso"
  IN IF rx # ry THEN rx ELSE x.priorita < y.priorita

\* ordine: the first most urgent of the rest is swapped to the front.
Ordine(reg) ==
  LET n == Len(reg)
      Best(out, a) ==
        LET best[b \in a..n] == IF b = a THEN a
              ELSE IF PiuUrgente(reg[out[b]], reg[out[best[b - 1]]]) THEN b ELSE best[b - 1]
        IN best[n]
      sorted[a \in 0..n] ==
        IF a = 0 THEN [i \in 1..n |-> i]
        ELSE LET out == sorted[a - 1] b == Best(out, a)
             IN [out EXCEPT ![a] = out[b], ![b] = out[a]]
  IN sorted[n]
-----------------------------------------------------------------------------
(* sensi.rs:92 "i RIFLESSI prima (il midollo non aspetta la corteccia),    *)
(* poi per priorita' crescente": every registered sense is served once and *)
(* no sense before a more urgent one; the faults that are counted are      *)
(* those that are told, one by one, and they are the organs whose probe    *)
(* failed; and a temperature is felt exactly where the register of that    *)
(* family holds a credible one.                                            *)
ServedInOrder ==
  LET reg == Registry  out == Ordine(reg) IN
  /\ {out[i] : i \in DOMAIN out} = DOMAIN reg
  /\ \A i, j \in DOMAIN out : i < j => ~PiuUrgente(reg[out[j]], reg[out[i]])
  /\ \A i, j \in DOMAIN out : i < j => ~(reg[out[j]].via = "Riflesso" /\ reg[out[i]].via # "Riflesso")
  /\ ContaVia(reg, "Riflesso") + ContaVia(reg, "Integrazione") = Len(reg)
  /\ ContaGuasti(reg) = Cardinality(GuastiMask(reg))
  /\ 1 \in GuastiMask(reg) <=> ~self.ear
  /\ 7 \in GuastiMask(reg) <=>
       ~ \/ self.cpu.vendor = "intel" /\ self.cpu.status = "valid" /\ self.cpu.tj > 0
         \/ /\ self.cpu.vendor = "amd"
            /\ LET r == self.cpu.has IN self.cpu.cur[r] \in 1..1200 /\ (r = "pci_f3" => self.cpu.nb # {})
=============================================================================
