------------------------------ MODULE Kernels -------------------------------
(***************************************************************************)
(* The kernels of the transformer (src/tensor.rs, src/attention.rs), in    *)
(* what they read: which quantised bits a weight is made of, and which     *)
(* positions of the sequence an output depends on.  The values are         *)
(* floating point and are left out.                                        *)
(*                                                                         *)
(* Buffers are flat and the kernels address them by strides, so the index  *)
(* arithmetic is translated as it stands.  An element of a buffer is the   *)
(* set of positions it depends on.                                         *)
(***************************************************************************)
EXTENDS Integers, Sequences, FiniteSetsExt

CONSTANTS Shapes,        \* [seq, heads, kv, window, dim]
          ScaleSets      \* 8 scales and 8 minima of 6 bits: [s, m]

ASSUME KernelsAssumption ==
  /\ Shapes \subseteq [seq : Nat \ {0}, heads : Nat \ {0}, kv : Nat \ {0}, window : Nat, dim : Nat \ {0}]
  /\ ScaleSets \subseteq [s : [0..7 -> 0..63], m : [0..7 -> 0..63]]

VARIABLE workload        \* what the kernels are asked: a shape, or scales

NoWork == [seq |-> 0]
KernelsInit == workload \in Shapes \cup ScaleSets
-----------------------------------------------------------------------------
(* Blocks of 256 weights.  A term says where the code takes a weight from: *)
(* element, byte of the quants, high or low half, scale.                   *)
Term(e, b, hi, s) == [element |-> e, byte |-> b, high |-> hi, scale |-> s]

\* dequant_q4_k: idx, qoff and `is` go up by 64, 32 and 2.
DequantQ4K ==
  UNION {{Term(64 * j + l, 32 * j + l, FALSE, 2 * j) : l \in 0..31}
         \cup {Term(64 * j + 32 + l, 32 * j + l, TRUE, 2 * j + 1) : l \in 0..31} : j \in 0..3}

\* Slip: `is` goes up by one.
MatmulQ4K_OneScale(b) ==
  UNION {{Term(256 * b + 64 * j + l, 32 * j + l, FALSE, j) : l \in 0..31}
         \cup {Term(256 * b + 64 * j + 32 + l, 32 * j + l, TRUE, j + 1) : l \in 0..31} : j \in 0..3}

\* matmul_q4_k, inline, for block b of a row.
MatmulQ4K(b) ==
  UNION {{Term(256 * b + 64 * j + l, 32 * j + l, FALSE, 2 * j) : l \in 0..31}
         \cup {Term(256 * b + 64 * j + 32 + l, 32 * j + l, TRUE, 2 * j + 1) : l \in 0..31} : j \in 0..3}

\* dequant_q6_k and matmul_q6_k: four weights of two bytes of ql and one of qh.
Q6(b) ==
  UNION {UNION {{[element |-> 256 * b + 128 * n + 32 * k + l,
                  low     |-> <<64 * n + l + 32 * (k % 2), k \div 2>>,
                  top     |-> <<32 * n + l, k>>,
                  scale   |-> 8 * n + l \div 16 + 2 * k] : k \in 0..3} : l \in 0..31} : n \in 0..1}

\* matmul_q8_0: block and byte of element i of a row.
Q8(i) == <<i \div 32, 2 + (i % 32)>>

\* Slip: the high bits of the minimum are those of the scale.
ScaleMin_Crossed(j, b) ==
  IF j < 4 THEN <<b[j] % 64, b[j + 4] % 64>>
  ELSE <<(b[j + 4] % 16) + 16 * (b[j - 4] \div 64), b[j + 4] \div 16 + 16 * (b[j - 4] \div 64)>>

\* get_scale_min_k4 on the twelve bytes b.
ScaleMin(j, b) ==
  IF j < 4 THEN <<b[j] % 64, b[j + 4] % 64>>
  ELSE <<(b[j + 4] % 16) + 16 * (b[j - 4] \div 64), b[j + 4] \div 16 + 16 * (b[j] \div 64)>>

\* How ggml packs them (external).
Packed(w) == [i \in 0..11 |->
  IF i < 4 THEN w.s[i] + 64 * (w.s[i + 4] \div 16)
  ELSE IF i < 8 THEN w.m[i - 4] + 64 * (w.m[i] \div 16)
  ELSE (w.s[i - 4] % 16) + 16 * (w.m[i - 4] % 16)]
-----------------------------------------------------------------------------
(* Row i of a matmul is the stride n_in from i * n_in: it depends on what  *)
(* these elements depend on.                                               *)
RowSees(buffer, i, nIn) == UNION {buffer[i * nIn + t] : t \in 0..(nIn - 1)}
Matmul(buffer, m, nIn, nOut) == [k \in 0..(m * nOut - 1) |-> RowSees(buffer, k \div nOut, nIn)]

\* Slip: the mask lets the next position through.
Visible_Next(s, j, window) == j <= s + 1 /\ j >= s - window

\* The causal mask with its window: s.saturating_sub(window) is at least 0.
Visible(s, j, window) == j <= s /\ j >= s - window

(* attention_forward_dim.  A head is one element wide: norms and rope stay *)
(* within a head.  ctx_buf is shared by the heads of one kv head and       *)
(* copied to out_buf before the next head writes it.                       *)
Attention(w) ==
  LET x == [k \in 0..(w.seq * w.dim - 1) |-> {k \div w.dim}]
      q == Matmul(x, w.seq, w.dim, w.heads)
      k == Matmul(x, w.seq, w.dim, w.kv)      \* and v
      out == [i \in 0..(w.seq * w.heads - 1) |->
                LET s == i \div w.heads
                    g == (i % w.heads) % w.kv
                IN q[i] \cup UNION {k[j * w.kv + g] : j \in {j \in 0..(w.seq - 1) : Visible(s, j, w.window)}}]
  IN Matmul(out, w.seq, w.heads, w.heads)

\* shortconv_forward: chunks b, c and xc of in_proj, kernel of three, out_proj.
Shortconv(w) ==
  LET x   == [k \in 0..(w.seq * w.dim - 1) |-> {k \div w.dim}]
      n   == w.heads
      bcx == Matmul(x, w.seq, w.dim, 3 * n)
      bx  == [i \in 0..(w.seq * n - 1) |->
                bcx[(i \div n) * 3 * n + (i % n)] \cup bcx[(i \div n) * 3 * n + 2 * n + (i % n)]]
      y   == [i \in 0..(w.seq * n - 1) |->
                LET s == i \div n IN
                bcx[s * 3 * n + n + (i % n)] \cup bx[i]
                \cup (IF s + 1 < w.seq THEN bx[i + n] ELSE {})
                \cup (IF s > 0 THEN bx[i - n] ELSE {})]
  IN Matmul(y, w.seq, n, n)
-----------------------------------------------------------------------------
(* A row of quantised weights means the same to the two codes that read    *)
(* it, the dequantisation (whose norm bounds the adapters) and the inline  *)
(* product: every weight has its own half byte and the scale of its group  *)
(* of 32, and the packed scales are those that were packed.                *)
EveryWeightOnce ==
  /\ \A b \in 0..1 : MatmulQ4K(b) = {[t EXCEPT !.element = @ + 256 * b] : t \in DequantQ4K}
  /\ {t.element : t \in DequantQ4K} = 0..255
  /\ {<<t.byte, t.high>> : t \in DequantQ4K} = (0..127) \X BOOLEAN
  /\ \A t \in DequantQ4K : t.scale = t.element \div 32
  /\ {t.element : t \in Q6(1)} = 256..511
  /\ {t.low : t \in Q6(0)} = (0..127) \X (0..1) /\ {t.top : t \in Q6(0)} = (0..63) \X (0..3)
  /\ \A t \in Q6(0) : t.scale = t.element \div 16
  /\ \A i, j \in 0..63 : Q8(i) = Q8(j) => i = j
  /\ workload \in ScaleSets =>
       \A j \in 0..7 : ScaleMin(j, Packed(workload)) = <<workload.s[j], workload.m[j]>>

(* attention.rs:113 "Causal mask: il token i non vede i token j > i": an   *)
(* output sees its window of the past and itself, all of it and no other,  *)
(* through all the strides.  The convolution sees one neighbour each side: *)
(* the next one too, although its comment calls it causal.                 *)
SeesWhatItShould ==
  workload \in Shapes =>
    \A i \in 0..(workload.seq * workload.heads - 1) :
       LET s == i \div workload.heads IN
       /\ Attention(workload)[i] = Max({0, s - workload.window})..s
       /\ Shortconv(workload)[i] = Max({0, s - 1})..Min({workload.seq - 1, s + 1})
=============================================================================
