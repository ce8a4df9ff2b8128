------------------------------ MODULE Weights -------------------------------
(***************************************************************************)
(* Where the weights of the nucleus are (src/nucleo.rs): the one buffer    *)
(* that Limine loaded, cut by NucleoModel::parse, and the buffer of the    *)
(* adapters in .bss, cut by AdattatoriLayer::nuovi.  The sizes are those   *)
(* of the source; what is in the buffers is left out.                      *)
(***************************************************************************)
EXTENDS Integers, Sequences

CONSTANT Files           \* what Limine may have loaded: [len, magic, version]

ASSUME WeightsAssumption == \A f \in Files : f.len \in Nat

VARIABLE file

Dim == 512
NLayers == 12
NOutQ == 512
NOutKv == 128
NFf == 1536
ChemioDim == 4
Rango == 8
Q4(rows, cols) == ((rows * cols) \div 256) * 144
Q6K(rows, cols) == ((rows * cols) \div 256) * 210
Floats(n) == 4 * n
HeaderBytes == 64

\* The parts of a layer, in the order parse cuts them.
LayerParts ==
  << <<"attn_norm", Floats(Dim)>>, <<"wq", Q4(NOutQ, Dim)>>, <<"wk", Q4(NOutKv, Dim)>>,
     <<"wv", Q6K(NOutKv, Dim)>>, <<"wo", Q4(Dim, NOutQ)>>, <<"ffn_norm", Floats(Dim)>>,
     <<"w_gate", Q4(NFf, Dim)>>, <<"w_up", Q4(NFf, Dim)>>, <<"w_down", Q4(Dim, NFf)>> >>

\* The running sum of the sizes of parts.
Ends(parts) == LET end[i \in 0..Len(parts)] == IF i = 0 THEN 0 ELSE end[i - 1] + parts[i][2] IN end

LayerBytes == Ends(LayerParts)[Len(LayerParts)]
EmbedBytes == Floats(ChemioDim * Dim)
HeadBytes == Floats(Dim * ChemioDim)

TotalModelBytes == HeaderBytes + EmbedBytes + NLayers * LayerBytes + Floats(Dim) + HeadBytes

\* All the parts: parse advances one offset through them.
Parts ==
  << <<"embed", EmbedBytes>> >>
  \o [i \in 1..(NLayers * Len(LayerParts)) |-> LayerParts[((i - 1) % Len(LayerParts)) + 1]]
  \o << <<"final_norm", Floats(Dim)>>, <<"head", HeadBytes>> >>

WeightsInit == file \in Files

\* Slip: the length is not compared with all that will be read.
Accepts_NoHead(f) ==
  f.len >= TotalModelBytes - HeadBytes /\ f.magic = "NUCL" /\ f.version = 1

Accepts(f) == f.len >= TotalModelBytes /\ f.magic = "NUCL" /\ f.version = 1

Parse(f) ==
  IF ~Accepts(f) THEN <<>>
  ELSE LET end == Ends(Parts)
       IN [i \in 1..Len(Parts) |-> [name |-> Parts[i][1], size |-> Parts[i][2],
                                    from |-> HeaderBytes + end[i - 1]]]

(* What the kernels of one layer read of each slice, as forward_layer      *)
(* calls them: rows of blocks of 256, or floats.                           *)
Reads ==
  [attn_norm |-> Floats(Dim), wq |-> NOutQ * ((Dim \div 256) * 144),
   wk |-> NOutKv * ((Dim \div 256) * 144), wv |-> NOutKv * ((Dim \div 256) * 210),
   wo |-> NOutQ * ((NOutQ \div 256) * 144), ffn_norm |-> Floats(Dim),
   w_gate |-> NFf * ((Dim \div 256) * 144), w_up |-> NFf * ((Dim \div 256) * 144),
   w_down |-> Dim * ((NFf \div 256) * 144), embed |-> Floats(ChemioDim * Dim),
   final_norm |-> Floats(Dim), head |-> Floats(Dim * ChemioDim)]
-----------------------------------------------------------------------------
(* Adapters: U and V of gate, up, down and wo, one after the other.        *)
DimProiezione == << <<NFf, Dim>>, <<NFf, Dim>>, <<Dim, NFf>>, <<Dim, Dim>> >>

AdattatoriLayerFloats == 3 * (NFf + Dim) * Rango + 2 * Dim * Rango

Cuts ==
  << <<"u", NFf * Rango>>, <<"v", Dim * Rango>>, <<"u", NFf * Rango>>, <<"v", Dim * Rango>>,
     <<"u", Dim * Rango>>, <<"v", NFf * Rango>>, <<"u", Dim * Rango>>, <<"v", Dim * Rango>> >>

\* The floats that a step on projection p of layer l may touch.
Adattatore(l, p) ==
  LET end == Ends(Cuts) IN
  [u |-> <<l * AdattatoriLayerFloats + end[2 * p - 2], DimProiezione[p][1] * Rango>>,
   v |-> <<l * AdattatoriLayerFloats + end[2 * p - 1], DimProiezione[p][2] * Rango>>,
   given_u |-> Cuts[2 * p - 1][2], given_v |-> Cuts[2 * p][2]]
-----------------------------------------------------------------------------
(* An accepted file is cut into parts that lie in it one after the other,  *)
(* every f32 part on a word (they are read through raw pointers), every    *)
(* kernel reads exactly the slice it is handed, and each step of the rule  *)
(* has the whole of its own two matrices and of no other projection's.     *)
WeightsInPlace ==
  LET cut == Parse(file)
      Apart(a, b) == a[1] + a[2] <= b[1] \/ b[1] + b[2] <= a[1]
      Matrices == {<<l, p>> : l \in {0, NLayers - 1}, p \in 1..4}
  IN /\ \A i \in 1..Len(cut) :
          /\ cut[i].from >= HeaderBytes
          /\ cut[i].from + cut[i].size <= file.len
          /\ i > 1 => cut[i].from = cut[i - 1].from + cut[i - 1].size
          /\ cut[i].from % 4 = 0
          /\ Reads[cut[i].name] = cut[i].size
     /\ \A x, y \in Matrices :
          LET a == Adattatore(x[1], x[2])  b == Adattatore(y[1], y[2]) IN
          /\ a.u[2] = a.given_u /\ a.v[2] = a.given_v /\ Apart(a.u, a.v)
          /\ a.v[1] + a.v[2] <= NLayers * AdattatoriLayerFloats
          /\ x # y => Apart(a.u, b.u) /\ Apart(a.v, b.v) /\ Apart(a.u, b.v)
=============================================================================
