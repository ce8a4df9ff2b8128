-------------------------------- MODULE Gguf --------------------------------
(***************************************************************************)
(* The reader of GGUF files (src/gguf.rs): a cursor over a buffer that     *)
(* must not leave it, and that must step over values it does not read.     *)
(*                                                                         *)
(* A file is what its writer put in it: entries of metadata, tensors, and  *)
(* how much of it the buffer holds.  A step of the cursor is a number of   *)
(* bytes.  What a value is worth is left out; a cursor that does not stand *)
(* where an entry starts would read lengths out of the middle of others.   *)
(***************************************************************************)
EXTENDS Integers, Sequences

CONSTANTS GgufFiles,     \* [magic, version, kvs, tensors, held]
          MaxKv,         \* the source reads at most 100 entries
          MaxArray       \* and steps over at most 100000 elements of an array

ASSUME GgufAssumption ==
  /\ MaxKv \in Nat /\ MaxArray \in Nat
  /\ \A f \in GgufFiles : /\ f.held \in Nat
                          /\ f.kvs \in Seq([type : Nat, len : Nat, of : (0..12) \ {9}])
                          /\ f.tensors \in Seq([dims : Nat])

VARIABLE gguf

GgufInit == gguf \in GgufFiles

(* A value is [type, len, of]: len bytes of text, or len elements of type  *)
(* of, the texts among them of one letter.  Arrays of arrays are left out. *)
Fixed8 == [t \in 0..12 |-> IF t \in {0, 1} THEN 1 ELSE IF t \in {2, 3} THEN 2
                            ELSE IF t \in 4..7 THEN 4 ELSE 8]
Scalar == (0..7) \cup (10..12)
Element(t) == IF t = 8 THEN 8 + 1 ELSE Fixed8[t]

AtMost(n, most) == IF n <= most THEN n ELSE most

\* Slip: the elements of an array are taken to be words.
SkipValue_Words(v) ==
  IF v.type \in Scalar THEN Fixed8[v.type]
  ELSE IF v.type = 8 THEN 8 + v.len ELSE 4 + 8 + AtMost(v.len, MaxArray) * 4

(* skip_value: how many bytes the cursor moves over; an unknown type is an *)
(* error (-1).  An array has its type and its count before its elements;   *)
(* of one longer than MaxArray the rest is not stepped over.               *)
SkipValue(v) ==
  IF v.type \in Scalar THEN Fixed8[v.type]
  ELSE IF v.type = 8 THEN 8 + v.len
  ELSE IF v.type = 9 THEN 4 + 8 + AtMost(v.len, MaxArray) * Element(v.of)
  ELSE -1

\* How long the value is in the file (external): a bool is one byte.
Written(v) ==
  LET Size(t) == IF t = 7 THEN 1 ELSE Element(t) IN
  IF v.type \in Scalar THEN Size(v.type)
  ELSE IF v.type = 8 THEN 8 + v.len ELSE 4 + 8 + v.len * Size(v.of)

Key == 8 + 1 + 4                          \* length, one letter, type
TensorInfo(t) == 8 + 1 + 4 + 8 * t.dims + 4 + 8
HeaderEnd == 24

\* Where entry i of sizes starts.
From(sizes, base) ==
  LET at[i \in 1..(Len(sizes) + 1)] == IF i = 1 THEN base ELSE at[i - 1] + sizes[i - 1] IN at
EndOf(sizes, base) == From(sizes, base)[Len(sizes) + 1]

Align32(n) == ((n + 31) \div 32) * 32

ParseHeader(f) ==
  IF f.held < 4 THEN "Truncated"
  ELSE IF f.magic # "GGUF" THEN "BadMagic"
  ELSE IF f.held < 8 THEN "Truncated"
  ELSE IF f.version # 3 THEN "UnsupportedVersion"
  ELSE IF f.held < HeaderEnd THEN "Truncated" ELSE "Ok"

(* parse_summary: at most MaxKv entries, then the tensors, each of at most *)
(* eight dimensions; the data start on a multiple of 32 if there are any.  *)
(* A cursor gone astray reads one thing as another: its result is not      *)
(* followed.                                                               *)
ParseSummary(f) ==
  LET read  == [i \in 1..AtMost(Len(f.kvs), MaxKv) |-> Key + SkipValue(f.kvs[i])]
      known == \A i \in DOMAIN read : read[i] >= Key
      infos == [i \in 1..Len(f.tensors) |-> TensorInfo(f.tensors[i])]
      astray == \/ Len(f.kvs) > MaxKv
                \/ \E i \in DOMAIN read : read[i] >= Key /\ read[i] # Key + Written(f.kvs[i])
      end   == EndOf(infos, EndOf(read, HeaderEnd))
  IN IF ParseHeader(f) # "Ok" THEN [verdict |-> ParseHeader(f), data |-> 0]
     ELSE IF astray THEN [verdict |-> "Astray", data |-> 0]
     ELSE IF ~known \/ f.held < end \/ \E i \in DOMAIN f.tensors : f.tensors[i].dims > 8
     THEN [verdict |-> "Error", data |-> 0]
     ELSE [verdict |-> "Ok", data |-> IF f.tensors = <<>> THEN end ELSE Align32(end)]
-----------------------------------------------------------------------------
(* gguf.rs:17 "all reads are checked": a file without bools, with no more  *)
(* entries than are read and no array longer than is stepped over, is      *)
(* understood exactly when the buffer holds all that comes before the      *)
(* data, and the data are where its writer put them.                       *)
FoundWhereWritten ==
  LET kvs  == [i \in 1..Len(gguf.kvs) |-> Key + Written(gguf.kvs[i])]
      end  == EndOf([i \in 1..Len(gguf.tensors) |-> TensorInfo(gguf.tensors[i])],
                    EndOf(kvs, HeaderEnd))
      got  == ParseSummary(gguf)
  IN /\ Len(gguf.kvs) <= MaxKv
     /\ \A i \in DOMAIN kvs : gguf.kvs[i].type \in (0..12) \ {7} /\ gguf.kvs[i].of # 7
     /\ \A i \in DOMAIN kvs : gguf.kvs[i].type = 9 => gguf.kvs[i].len <= MaxArray
     /\ \A i \in DOMAIN gguf.tensors : gguf.tensors[i].dims <= 8
     /\ gguf.magic = "GGUF" /\ gguf.version = 3
     => /\ got.verdict = "Ok" <=> gguf.held >= end
        /\ got.verdict = "Ok" => /\ got.data >= end /\ got.data < end + 32
                                 /\ gguf.tensors # <<>> => got.data % 32 = 0
=============================================================================
