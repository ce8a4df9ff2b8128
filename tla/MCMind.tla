------------------------------- MODULE MCMind -------------------------------
(* TLC instance of Mind.                                                   *)
(*   neurogenesis  two slots, two ticks of persistence, a trial of four;   *)
(*   memoria       three patterns, a store every second tick;              *)
(*   executive     pain and one other concept, three candidates one of     *)
(*                 which the rule never gives, two samples to trust;       *)
(*   autonomy      two ticks of rest after a startle;                      *)
(*   brain         three layers, four ticks of the stub, two readings;     *)
(*   adapter       five norms;                                             *)
(*   predictor     a ring of eight that wraps, windows of two and four;    *)
(*   journal       rings of three and two, a sleep every three ticks;      *)
(*   kernels       up to four positions, grouped heads, windows from none, *)
(*                 and scales with bits in every part of their bytes;      *)
(*   weights       files around the length that is accepted;               *)
(*   gguf          values of every kind, arrays to the cap and beyond,     *)
(*                 tensors, and a buffer cut short.                        *)
EXTENDS Mind

CONSTANTS still0, near1, near2, far3

MCStates == {still0, near1, near2, far3}
MCKin == {{near1, near2}}

MCShapes == {x \in [seq : 1..4, heads : {1, 2, 4}, kv : {1, 2}, window : {0, 1, 3}, dim : {1, 3}] :
               x.heads % x.kv = 0}
MCScales == {[s |-> [i \in 0..7 |-> (p + q * i) % 64], m |-> [i \in 0..7 |-> (q + 21 * i * p) % 64]] :
               p \in {0, 17, 63}, q \in {1, 16, 45}}

MCFiles == [len : {0, 100, TotalModelBytes - 1, TotalModelBytes, TotalModelBytes + 4096},
            magic : {"NUCL", "GGUF"}, version : {1, 2}]

LOCAL Entries == {[type |-> t, len |-> 0, of |-> 0] : t \in {0, 3, 6, 7, 12, 13}}
                 \cup {[type |-> 8, len |-> 4, of |-> 0]}
                 \cup {[type |-> 9, len |-> size, of |-> o] : size \in {2, 3}, o \in {0, 2, 5, 8, 10}}
LOCAL Word == [type |-> 4, len |-> 0, of |-> 0]
LOCAL Tensors == {<<>>, <<[dims |-> 2]>>, <<[dims |-> 1], [dims |-> 8]>>}
MCGgufFiles ==
  [magic : {"GGUF"}, version : {3}, held : {10, 60, 100, 150, 200}, tensors : Tensors,
   kvs : {<<>>, <<Word, Word, Word, Word>>} \cup {<<x>> : x \in Entries}
         \cup {<<x, y>> : x \in Entries, y \in {e \in Entries : e.type \in {3, 9}}}]
  \cup [magic : {"NOPE", "GGUF"}, version : {2, 3}, held : {3, 7, 24, 200},
        tensors : {<<[dims |-> 9]>>}, kvs : {<<>>}]
=============================================================================
