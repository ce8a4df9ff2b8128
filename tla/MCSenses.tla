------------------------------ MODULE MCSenses ------------------------------
(* TLC instance of Senses.  Two keys, one of them the left shift; gestures *)
(* with both signs, with bit 3 in a data byte, and with a button going up; *)
(* one address of pain, up to three ticks, four commands; lines of at most *)
(* four bytes, a FIFO of three, two bytes drained in a round, and hosts    *)
(* that wait or do not, ending lines with one byte or two.                 *)
(*                                                                         *)
(* Words of four hexadecimal digits, floats around each rounding and the   *)
(* saturation; buffers from too short for the headers to the one of the    *)
(* loop; a registry that overflows, and a processor of every family the    *)
(* code tells apart, cold, warm and not credible.                          *)
EXTENDS Senses

MCGestures == {[dx |-> -4, dy |-> 9, bottoni |-> 1],
               [dx |-> 12, dy |-> 0, bottoni |-> 0],
               [dx |-> 0, dy |-> 0, bottoni |-> 0]}

MCManners == {[paced |-> TRUE, ends |-> {1}], [paced |-> FALSE, ends |-> {1, 2}]}

MCLines == {<<>>, <<Blank>>, <<0, X>>, <<Blank, 0, X, 13, 14>>, <<13, 14>>, <<0, X, Noise>>,
            <<1, 0, 0, 0, 0>>, <<0, 0, 0, 0, 0, 7>>, <<X, 1>>, <<1, Blank>>}
MCFloats2 == {-300000, -20000, -1, 0, 1, 2, 19, 20, 3883, 3884, 19999, 20001,
              2 * UMax - 1, 2 * UMax, 2 * UMax + 9}

LOCAL Kind == [via : {"Riflesso", "Integrazione"}, priorita : {0, 4}, stato : {"Guasto"}]
MCDecks == {<<>>} \cup {<<x, y, x, y>> : x \in Kind, y \in Kind}

LOCAL Cpu(vendor, base, ext, model) ==
  [vendor |-> vendor, base |-> base, ext |-> ext, model |-> model, has |-> "none", nb |-> {},
   tj |-> 0, status |-> "none", delta |-> 0,
   cur |-> [r \in {"smn_zen", "smn_f15h", "pci_f3"} |-> 0]]
LOCAL Amd(ext, model, has, nb, raw, wrong) ==
  [Cpu("amd", 15, ext, model) EXCEPT !.has = has, !.nb = nb,
                                     !.cur = [r \in DOMAIN @ |-> IF r = has THEN raw ELSE wrong]]
MCCpus ==
  {[Cpu(v, 6, 0, 0) EXCEPT !.tj = tj, !.status = st, !.delta = d] :
     v \in {"intel", "other"}, tj \in {0, 2, 100}, d \in {30, 127}, st \in {"none", "stale", "valid"}}
  \cup {Amd(7, 48, "pci_f3", nb, raw, 0) : nb \in {{}, {"m30h"}}, raw \in {0, 400, 2047}}
  \cup {Amd(8, 1, "smn_zen", {}, raw, 0) : raw \in {0, 1, 1201}}
  \cup {Amd(6, m, "smn_f15h", {"m60h"}, raw, 9) : m \in {96, 112}, raw \in {0, 1200}}
  \cup {Amd(6, 48, "pci_f3", {"m30h"}, raw, 9) : raw \in {0, 1200}}
=============================================================================
